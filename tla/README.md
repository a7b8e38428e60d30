# blktool in TLA+

blktool is a command line tool, written in C, that encrypts and decrypts
`.blk` files, packs and unpacks `mhy0`, `mhy1`, `encr` and `blb3` archives and
makes and edits `.ec2b` key files. This directory models the parts of it that
carry its own logic, checks them with TLC on small instances and proves some of
the results with TLAPS for every instance.

The tool is sequential. What is hard in it is not interleaving but

* **two functions that must agree and are never run against each other**: pack
  and extract, encrypt and decrypt, gen and xor, each a copy or an inverse
  written by hand, often in another invocation of the program;
* **indices and offsets kept by several branches**: the block loop of the
  packers, the in-place windows of the unpackers, the headers' running offsets,
  the limits of LZ4's wild copies;
* **files**: an output created before its input is validated, runs that stop half
  way, names that coincide, streams that are not closed, what an earlier run left;
* **command lines** read by a loop with flags.

## 1. Inventory

| part | source | state | operations | modelled by |
|---|---|---|---|---|
| packers | `pack_*` in mhy0.c, mhy1.c, encr.c, blb3.c | cab table, open streams, block buffer, `.blocks` file, header buffer | measure cabs, cut into blocks, write header, copy blocks | BlockPacker, Archive; Headers |
| unpackers | `extract_*` in the same files; unpack loops of blktool.c | the file in one buffer, deciphered in place; the plain data; offsets | header, cab headers, blocks, cabs, next archive | Unpack; Headers |
| mains of the formats | `mhy0_main`, `mhy1_main`, `encr_main`, `blb3_main` in blktool.c | the directory | create output, loop over parts, stop at the first failure | Workspace |
| `mr0k_main`, `xor_main`, `main` | blktool.c | one file each | read, one call, write; dispatch | no |
| blk encryption | blk.c, `blk_main` | `.blk`, text and seed files | encrypt and decrypt, with or without a seed file | Blk |
| ec2b seeds | ec2b.c, `ec2b_main` | `.ec2b` and pad files, options | gen, xor, edit | Ec2b |
| mr0k blocks | mr0k.c | a block | encrypt, decrypt, five modes | Mr0k, Codecs |
| block ciphers | `mhy0_`, `mhy1_`, `blb3_` `encrypt`/`decrypt` | a block and what follows it | inverses of each other | BlockCiphers, Codecs; their windows in Unpack |
| key transformations | mhycrypt.c | a key, a buffer | aes variants, rc4 variants, `xorCrypt` | Aes, Rc4, Codecs; `xorCrypt` in Blk |
| LZ4 | lz4.c, lz4hc.c | positions in two buffers | `LZ4_compress_HC`, `LZ4_decompress_safe` | Lz4Format, Lz4Encoder, Lz4Decoder, Lz4 |
| generator | mt19937-64.c | 312 words, an index | seed, next | any function of the seed (`Pad` in Blk) |

How they interact: the mains call the packers with an output stream that they
created, and the unpackers with a pointer into the file's buffer. A packer cuts
the cabs into blocks, gives each to `LZ4_compress_HC` and a cipher and appends it to
`.blocks`; then it builds the header, compresses and enciphers that too, and copies the
blocks behind it. An unpacker reverses these steps with the offsets it computes itself.
`pack` reads what `unpack` wrote (`.hdr`, `.cabN.hdr`, `.blkN.key`, `.cabN`), `blk
encrypt` reads the seed file that `blk decrypt` wrote, and `ec2b xor` must print the
seed that `ec2b gen` or `ec2b edit` printed. Everything passes through files, so a
session of commands over one directory is the unit to reason about.

What makes each part correct: an archive unpacks to the cabs it was made from,
and the packer stays inside its buffers for any sizes; a header says what the packer
was given, wherever its reader looks for it; every cab an unpacker
writes holds its own bytes; what a pack writes is the last complete unpack, whatever
else lies in the directory; a cipher's two directions undo each other at every size and
spare the bytes behind their block; LZ4 stays inside its buffers and gives back what it
was given; a `.blk` file decrypts to its text although its seed
is stored nowhere, and encrypts again to the same bytes; the seed printed for an
`.ec2b` is the one it stands for, and an edit changes what it was asked to and
spares its input. `PROJECT.json` lists under "hazards" the lines where each of
these can go wrong.

## 2. Modules

### BlockPacker: one call of `pack_mhy0`, `pack_mhy1`, `pack_encr`, `pack_blb3`

The four functions are copies of one algorithm, so one module models them and
each of its definitions is mapped to one of the copies. The variable `format`, chosen in
Init, selects what differs: encr and blb3 never close the `.cabN.hdr` streams
(`ClosesCabHdr`), run the offset in 64 bits (`OffWord`), and encr alone stores it in 64
(`EntryWord`); mhy1's cipher asserts a length that a last block of fewer than 7 bytes does not
compress to (`TooShort`), and the process ends there (Abort). `pc` is the phase: `hdr` (ReadHdr), `scan` (MeasureCab or
CabMissing, then CountBlocks), `loop` (the block loop: TakeRest, TopUp and TakeBlock
are its three branches), the header (WriteHeader), `copy` (CopyBlock, Return), then
`done` or `failed`. A byte is the pair of its cab and position, so "this byte is
where the header says" can be stated; compression and ciphers keep it. Integers
wrap at `Word` as a `uint32_t` does at 2^32.

`Archive` is the abstract specification: a table of cabs laid one after the other
and blocks that are their concatenation cut every `BlockSize` bytes, or nothing.
`BlockPacker!ImplementsArchive` is the refinement. `BlockPackerInv` holds the
inductive invariants, `BlockPackerProofs` the proofs: what holds for all cabs, and what
holds without empty cabs and wraps.

`Sums` has the running offsets of a sequence of sizes, which packers and unpackers both
compute; `SumsProofs` the lemmas about them, about remainders and about recursion over
an interval.

### Headers: the four headers byte by byte

`Mhy0Pack`, `Mhy1Pack`, `EncrPack` and `Blb3Pack` are the bytes that the second half of a
packer writes, from the metadata files and the block table; `Mhy0Read`, `Mhy1Read`,
`EncrRead` and `Blb3Read` what the first half of an extract function makes of them. Memory
is a function from the offsets that were written to bytes, so a byte that nobody set is not
zero but `Junk`, and two writes to one offset are seen. The variables are an archive on
its way round: extract, an edit of the files (metadata lost, cabs of other sizes, another
archive's metadata), pack, extract again, `MaxPacks` times. `Originals` are archives
as the games' packers lay them out, which differ from blktool's: every byte without a known
meaning has a value of its own. In encr a number passes through `Be`, in the others through
their own encodings; `Mhy*` numbers are spread over bytes with a constant in between. Any
`Originals` will do that are `WellFormed` (tables without gaps, full blocks but the last, sizes
that fit 31 bits) and say what they mean (`ReadsAs`): `OriginalsAssumption`. `HeadersProofs` has
the proofs.

### Unpack: one run of `blktool mhy0|mhy1|encr|blb3 unpack`

The loop of the mains over the archives of a file together with the four
`extract_*` functions; `format` is chosen with the input. One action per file that
is written or branch that ends the run: ReadHeader (magic, header cipher,
`.hdr`), WriteCabHeader, Block (cipher, key file, decompression), FreeHeader
(encr), WriteCab, Advance to the next archive, Finish, and BadMagic, Abort,
Refused (an `fopen` or `malloc` fails).

The ciphers work in place. The buffer is cut in cells, and of a cell the model
remembers the starts of the windows that changed it. A block is legible when
only its own window did and enough of it is there (`Core`); LZ4 fails on one that
is not, or makes garbage. `Touched` is how far a window reaches: always
`Window` for mhy0 (0x21 bytes of a block; a TODO in the code), no further than the
block for mhy1 (which asserts a minimum instead), nothing for encr, and for
blb3 at least 16 bytes since `size - 0x10 >= 16` wraps below 16. A magic that was
changed counts as a bad one. `UnpackProofs` has the proofs.

### Workspace: sessions over one directory

Up to `MaxRuns` commands `<format> unpack` and `<format> pack`. A file is the item it
holds and the run that created it. Unpack writes one file per step in the order of the
code, pack reads one part per step; each may fail, and be killed between any two of its
steps or just after it created a file (UnpackStops, PackFails, PackKilled). Nothing clears
the directory, so files of a longer archive, of another format or of a stopped run stay.
What pack does where a file is missing is in `Read` (a default), `CabCounts` (one cab) and
`Present` (it fails). `whole` and `ages` are history variables: the source of
the last unpack that returned 0, and from which runs the files of each packed cab are.
The archives that can be unpacked (`Items`) are a constant; `WorkspaceProofs` has the
proofs.

### Bytes, Aes, Rc4, BlockCiphers, Mr0k, Codecs: the ciphers

`Bytes` has exclusive or and the field GF(2^n), of which the tables in the code hold
products; `ByteBits` is 8 in the code. `Aes` has the three variants of mhycrypt.c (the standard
one, the one with its directions swapped, the transposed one of blb3), `Rc4` its
rc4 with the initial table that is not a permutation and the second key that selects the
operation of each byte. `BlockCiphers` has `mhy0_encrypt`, `mhy1_encrypt`, `blb3_encrypt` and
their inverses as functions on memory, which reaches past the block; `Mr0k` both
directions for every combination of keys a mode can have. They are operators without state.
`Codecs` sends a block through encrypt, a file and decrypt: written at its own size, read
back with other bytes behind it. Substitution and scramble tables are constants with the
properties that the code's tables have. Loops are `Iterates`, the values after 0 to `n` steps.
`CodecsProofs` has the proofs.

### Lz4Format, Lz4Encoder, Lz4Decoder, Lz4: a block through LZ4

`Lz4Encoder` is `LZ4_compress_HC` at level 12: which match the price search takes is left
open (any that the search is bounded to), what `LZ4HC_encodeSequence` writes and each
check against the end of the output is as in the code. `Lz4Decoder` is
`LZ4_decompress_generic` as `LZ4_decompress_safe` instantiates it, with the fast loop, the
careful loop and the wild copies in chunks of 8, 16, 18, 32: its labels are values of `at`,
`readEnd` and `storeEnd` record how far each step reached. The lengths it reads are
parameters of its actions, so `SpecAnyBlock` decodes any block. `Lz4` composes them: packed
blocks, whose text is carried as positions, and foreign ones. `CodecsProofs` has the proofs
of all three: a module for every codec, ciphers and compression.

### Blk: sessions of `blktool blk encrypt|decrypt`

Up to `MaxCommands` commands over a few files; a command is Open (both modes create
their output before they look at anything) and then one of EncryptWithSeed,
EncryptForeign (the file named as the seed file is a text or a .blk, whose bytes are taken for
a record: any key, seed and one of `ForeignSzs`), EncryptRandom, Decrypt, Fail. Names may coincide. A 64-bit word is the set of its
1 bits (`XorWords`), so xor is symmetric difference. `encrypt_blk0` solves for
the half of key1 that makes header and encrypted body sum to the seed (`KeyFor`);
`decrypt_blk0` takes the sum (`SeedOf`). The transformation of keys is any
permutation, the pad any function of the seed. When blkSz announces more than the
body holds, the code reads past its buffer: the sum is then any word (`Junk`).
`plain`, `made` and `redone` are history variables. Encrypting a file that is not
a text is left out; its bytes would be one more text.

### Ec2b: one run of `blktool ec2b gen|xor|edit`

The loop of `edit` over its arguments is one action per branch (Help, GenKey,
GenData, GenSeed, NewSeed, OutFile, InFile, Input); then NothingToEdit, EditOpen,
EditRead, EditWrite. A kill between any two steps is an action (Killed), since
what a stopped run leaves behind is what is asked. `before` is the directory as the
run found it. The loop is modelled as it is: the option of `edit` that the help text
calls `-g` (blktool.c:652) does not exist, the order of arguments in the usage text (702) is not the one
the loop reads, and an `-o` at the end of the line leaves the output empty, so the edit
goes in place (684).

An `.ec2b` shorter than its record is read into memory that was not set; the model
takes it to have a bad magic.

### MC modules

`MCBlockPacker`, `MCHeaders`, `MCUnpack`, `MCWorkspace`, `MCCodecs`, `MCLz4`, `MCBlk` and
`MCEc2b` give the constants their small values.

## 3. What is checked

| run | question | states | answer |
|---|---|---|---|
| packer_any | up to 3 cabs of 0..7 bytes, blocks of 3, totals that wrap at 14, all four formats | 690 000 | `TypeOK`, `FullBlocks`, `Placement`, `RoundTrip`, `StreamsClosed`, `AbortsOnShortTail`, `IndexSafe`, `ImplementsArchive`, `Terminates` hold |
| packer_empty | does every pack unpack to its cabs? | | no: an empty cab costs a block |
| headers_run | archives of up to three cabs, extracted, edited and packed twice | 20 700 | `TypeOK`, `ReadsBack`, `MetadataKept`, `BytesKept`, `HeaderExact` hold |
| headers_flags | does encr keep a cab's flags? | | no: their bytes are reversed |
| unpack_run | one and two archives, blocks of 1..4 cells around the windows | 58 000 | `TypeOK`, `FilesIntact`, `NothingTurnedDown`, `Complete`, `MetadataFirst`, `Terminates` hold |
| unpack_stored | are uncompressed encr headers supported? | | no: an unallocated header is freed |
| workspace_run | three commands, each stopped anywhere | 193 000 | `TypeOK`, `OnlyLastUnpacked`, `DescribedByItsOwn` hold |
| codecs_run | every cipher at sizes around its windows, with other bytes behind | 2 450 | `Recovered`, `NextSpared`, `VariantsAgree` hold |
| lz4_run | packed blocks of up to two matches, and arbitrary ones | 224 000 | `WithinCapacity`, `BoundSuffices`, `InBounds`, `MatchesInside`, `LoopAssertions`, `Decoded` hold |
| blk_session | four commands over three files, any of them named as the seed file | 1 135 000 | `TypeOK`, `RecoversSampled`, `SameAgain` hold |
| blk_short | is every text recovered? | | no: blkSz of a short one is byte-swapped |
| ec2b_run | every command line of up to three groups, valid and invalid files | 675 000 | `TypeOK`, `SeedPrinted`, `GivenSeedWins`, `KeepsUnasked`, `EditSparesInput` hold |

Some properties hold under a condition that is part of their statement:
`FullBlocks`, `Placement`, `RoundTrip`, `AbortsOnShortTail` and `ImplementsArchive` without empty cabs and wrapped
totals; `RecoversSampled` and `SameAgain` when blkSz stays inside the body;
`ReadsBack` and `MetadataKept` for the flags of mhy0, mhy1 and the first 32 cabs of a blb3, and up
to the order of their bytes for those of encr;
`FilesIntact` up to the first archive that a window spoiled; `NextSpared` where the size
allows it; `HeaderExact` claims the room of the header's buffer for names of up to 240
bytes; `OnlyLastUnpacked` after a complete unpack. `StreamsClosed` holds for every successful pack and says
which streams stay open: every `.cabN.hdr` of encr and blb3, none of them of mhy0 and mhy1, and of
the `.cabN` those of the cabs that no block was left for, none without empty cabs and wraps.

**Bounds.** The block loop's branches compare a cab's rest with the room in a block:
cabs of 0 to 7 bytes and blocks of 3 give cabs shorter than, equal to and longer than
one and two blocks, in every order of three, and `MaxCabs` is below the number the
`.hdr` can hold. `MinBlock = 2` stands for the 7 bytes below which LZ4 stores a block in fewer
than 8: a last block of 1 is too short for mhy1. `Word = 14` lets totals wrap and offsets differ between
`uint32_t` and `uint64_t`. In Headers numbers are those of the code: sizes on both sides of
2^16, names of some 30 and of 255 characters, one to three cabs and blocks; more than 32 cabs,
where blb3's second flag word begins, are not in headers_run; the theorems cover them but for
their flags. In Unpack
`Core = 2` and `Window = 3` with blocks of 1 to 4 cells give blocks that are
truncated, that spill over what follows, that just fit and that are longer;
two archives are enough for a spill to reach another archive's magic. In Workspace
the four sources differ in parts, cabs, blocks and format, so each pair leaves surplus files
of another kind; three commands are an unpack, an unpack over it, and a pack. In
Codecs bytes have 4 bits (a field of 16) so that `EncMax = 32` and `PostLength = 192` stand for 0x400 and 0xc00;
`CryptMax = 56` stands for 0x80, the limit of mhy1.c:41,94 and blb3.c:110,143, with sizes below, at and above it; the schedules, strides and sizes of keys are the code's. In Lz4 all constants are the code's:
the lengths are those at which an encoding or a loop changes, two matches are enough for
each loop to hand over to the other. In Blk a word of one bit and a byte of three values are enough
for the announced size to be below, at and above the body; `Sample` and `PadBytes` exceed it on both
sides, and a record that a foreign file spells announces 7, with any key and seed. Four commands are encrypt, decrypt, encrypt, decrypt. In Ec2b words have one bit, data
two words: a key, data or seed that is changed or kept by mistake shows.

**Deadlock** is checked in BlockPacker and Lz4, which stutter at their ends. The others
end: their sessions are bounded, their runs return.

**Fairness.** The specifications with liveness properties, BlockPacker and Unpack, assume
`WF_vars(Next)`: the program is one process that always has its next statement, and nothing
it calls waits for another part of it. The others state no liveness and assume none.

**Findings**, each a run that TLC refutes:

* an empty cab met at the start of a block uses up a block index, and the last block
  is lost; the same trace returns with the stream of the cab behind it open (`packer_empty`,
  mhy0.c:535);
* without a seed file blkSz is set in host order and then read as big-endian; a short
  text then sums memory past its end and is not recovered (`blk_short`,
  blktool.c:136);
* encr headers that are not compressed are called supported, but their pointer into
  the input is freed before the cabs are written (`unpack_stored`, encr.c:240);
* encr's cab flags are stored in the metadata file as the header has them and swapped
  when they are packed: every repack reverses them (`headers_flags`, encr.c:446).

Shown by properties that hold:

* a pack of mhy1 whose last block holds fewer than 7 bytes, and no other one, ends in the assertion
  of mhy1_encrypt, which has a TODO for the case (mhy1.c:44): however the cabs are cut, some totals
  cannot be packed (`AbortsOnShortTail`);
* the comment on rc4_blb3 says that it "sets t slightly differently and reverses decrypt/encrypt
  with respect to opBytes" (mhycrypt.c:544). With keys of 8 bytes `t` is the same and nothing is
  reversed: called to decrypt (blb3.c:118), as rc4_mhy is (mhy1.c:130), it does what that does
  (`VariantsAgree`), as a line of its own says (mhycrypt.c:558). The comment is wrong, not the code:
  blb3 blocks are recovered (`Recovered`).

Met while modelling: encr replaces the block flags by 3
whatever the key files hold; mhy's byte 0x104 of a cab entry is memory that was never set in
a build with NDEBUG; a name of 256 characters has no terminator in encr and blb3; the
initial table of rc4 is not a permutation; blb3's aes is the standard one
transposed (`VariantsAgree`). The models have these as the code does. blb3's flags are written as one word for each 32 cabs and
read from words one byte apart (blb3.c:273): from the 33rd cab on they are those of other cabs, and a repack
loses them. `Blb3Read` has it so; no property is about those flags.

## 4. What is proved

Every theorem is about all values of the constants that meet the modules' ASSUMEs.

**BlockPacker** (BlockPackerProofs): `InvHolds == Spec => []Inv`, and from it
`TypesHold` (`TypeOK`) and `IndexSafety` (`IndexSafe`): in each format and however many cabs, of
whatever size, empty or wrapping the 32-bit total, every turn of the block loop reads
a stream that is open and below `cab_cnt` and writes inside `dec_buf`. `IndexSafe`
alone is not inductive, because the loop counts blocks and never looks at `j`. The
invariant is

    Inv == TypeOK /\ TableInv /\ BeforeLoopInv /\ CountInv /\ LoopInv

`TableInv`: `start` holds the unwrapped prefix sums of the table, and the wrapped
total is at most their sum. `CountInv`: the last block starts before the total.
`LoopInv` bounds the cursor, the position in the concatenation of the cabs, by
`i * BlockSize + read_off`: the loop never consumes more than the blocks it counted.
Were `j` to reach `cab_cnt` with blocks left, the cursor would be at the end of the
data, which by the bound is at most `i * BlockSize` and by `CountInv` is more than
that for every `i` below `blk_cnt`: hence `j < cab_cnt`. Assumptions: `BlockSize`
and `MaxCabs` positive, `Word > BlockSize`.

`Streams` (`StreamsClosed`) is about all cabs too. `ClosedInv`: the `.cabN` streams that are closed are
those below `j`, a `.cabN.hdr` is counted as open for each that encr and blb3 have measured and
for none of mhy0 and mhy1, and under `Regular` no cab remains when no block is left.

**BlockPacker, without empty cabs and wraps** (BlockPackerProofs): `Placed`
(`Placement`), `Full` (`FullBlocks`) and
`Implements == Spec => ImplementsArchive`. Under `Regular` the bound of `LoopInv` becomes an
equality:

    RegularInv == RegularTableInv /\ RegularLoopInv /\ Placement /\ FullBlocks

`RegularTableInv`: a cab's offset in the table is its prefix sum, neither has wrapped, and
`total_blk_sz` is the last sum. `RegularLoopInv`: the cursor is exactly
`i * BlockSize + read_off`, so the byte that the loop copies next belongs where it is put;
every block written while cabs remain is full; the blocks counted hold all the data. Each of
the three branches of a turn keeps the equality, and from it each new byte is in place. The refinement follows: CountBlocks is Archive's Start, a turn that
writes a block is Emit, since by `Placement` its bytes are the next ones of the
concatenation, Return is Finish, failures are Fail, and the rest stutters.

`RoundTrips` (`RoundTrip`) is about the archive that is left in the end: cutting the blocks at
the offsets of the header gives each cab its bytes back. `ArchiveInv == CopyInv /\ MetaInv /\
LastInv` carries the blocks from `.blocks` into the archive and the table into the header.
Since full blocks precede block `b`, its bytes are those from `(b - 1) * BlockSize` on
(`Euclid` and `ModUnique` find the block and the place of a byte); since the intervals of
the cabs are disjoint, the byte at a cab's place is that cab's.

`AbortsAtTail` (`AbortsOnShortTail`) says when mhy1's assertion ends a pack. A block is written when
no room is left or no cab, so a short one is written only after the last cab, with the cursor at the
end of the data (`ShortIsTail`); by `CountInv` it is the last block. `LongInv`, that no
short block is in `.blocks`, gives the converse: the last block of a pack that returns is what `LastInv`
says, the remainder of the total or a full block.

**Unpack** (UnpackProofs): `TypesHold` (`TypeOK`), `FilesHold` (`FilesIntact`),
`NothingTurnedDownHolds`, `CompleteHolds` (`Complete`), `MetadataHolds` (`MetadataFirst`) and
`OnceHolds == Spec => WrittenOnce` (no file is written twice; proved only, no run checks it), for any
number of archives of any sizes.

    UnpackInv == TypeOK /\ PlaceInv /\ OffsetInv /\ CellsInv /\ DataInv /\ OutInv /\ FailedInv
                 /\ FilesIntact /\ NothingTurnedDown

`PlaceInv` and `OffsetInv`: the offsets that extract adds up as it goes are those of the archive
and of its block or cab `n`, sums of the sizes before it. `CellsInv`: as long as every block
deciphered so far fits its window, no window has reached what comes next. `DataInv`: then the plain
data is that of the archive as far as it goes. `OutInv`: the files written are exactly
those of the steps done (`Written`). `FailedInv`: a run that fails leaves `MetadataFirst` as it
was. The invariant rests on `InputsAssumption`: the plain sizes of an archive's blocks add up to
those of its cabs, as a packer leaves them, and its header is longer than a window.

**Workspace** (WorkspaceProofs): `TypesHold` (`TypeOK`), `OnlyLastHolds` (`OnlyLastUnpacked`) and
`DescribedHolds` (`DescribedByItsOwn`), for every number of runs, each killed anywhere.

    WorkspaceInv == TypesInv /\ CabsInv /\ UnpackInv /\ WholeInv /\ PackInv /\ DescribedByItsOwn

`CabsInv`: beside a cab lie its header and the archive's, and neither is from an earlier run
than the cab, since an unpack writes the cabs last. `UnpackInv`: the parts before the one that the
running unpack is at are there, and so are the files of that part up to `file`, from this
run; `WholeInv`: once it has returned 0 all are, and nobody writes over them before
`whole` is reset. `PackInv`: `OnlyLastUnpacked`, for the parts packed so far. Assumption: an
archive with keys has one for every block (`Parts`).

**LZ4, encoder** (CodecsProofs): `EncoderWithinCapacity` (no byte is stored past
`dstCapacity`, wild copies included) and `EncoderBoundSuffices` (with
`LZ4_compressBound(srcSize)` it never gives up), for every input size, capacity and choice
of literals and matches. Both come from `EncoderInv`, whose strengthening is
`Expansion`: while the parse goes on, `255 * (written - anchor) <= anchor`, what has been
written is ahead of what was consumed by at most one byte in 255. A sequence
costs a token, two offset bytes and extra length bytes, and consumes at least four bytes of
match, so only the extra bytes of long literal runs add to it (`SequenceExpansion`); the
bound has one byte per 255 and 16 more, which is what the last run needs
(`AheadWithinBound`, `LastWithinBound`). `PackersGiveRoom` then says that the buffers of mhy0,
mhy1 and encr are at least that large: 320 KiB less a block's own header for its 128 KiB, and 2.5
times the size of a header that lists a cab. So the 0 that the packers would take for
success never comes.

**LZ4, decoder** (CodecsProofs): `DecoderInBounds`, `DecoderMatchesInside` and
`DecoderLoopAssertions`, for `SpecAnyBlock`: every block, announced size and
sequence, valid or not. The strengthening is the room each label stands for: `SrcRoom` and
`DstRoom` say how many bytes of src and dst are left at a label beyond what the wild
copies of its next step touch, and each of the limits of the loops (64, 32, 18 or 12 bytes before
`oend`) is what establishes the room of the label it leads to.

**LZ4, both** (CodecsProofs): `DecodedHolds == SpecLz4 => []Decoded`: whatever the parse, every block that
the encoder completes decodes to its text, for every size of input.

    PackInv == Encoding /\ Decoding

`Encoding` says of the sequences written so far that they follow each other in the
text (`Open` while the parse goes on, `Complete` after it) and that each match lies inside of
what precedes it (`BlockFits`). `Decoding` says that the decoder is on its way (`OnWay`): its place in
the block and in the text are those of its sequence `current`, sums over the sequences
before it (`BlockAt`, `TextAt`), and what it has produced up to there is the text. Each step is
then a lemma about one copy: literals and matches that are copied in chunks past
their end leave the text right up to their end (`Holds`, `Copied`), and a match that overlaps
itself repeats its period (`Repeats`, `Matches`). That the fast loop's limits never turn a valid
block down needs the end of the block: the last sequence has at least five literals, so
behind any other sequence lie at least six bytes. The only assumption is the encoder's own
(`Lz4EncoderAssumption`).

**Blk** (BlkProofs): `Recovery == Spec => []RecoversSampled`. The argument: xor is an
involution (`XorTwice`), so xoring a text twice with one pad gives it back
(`XoredTwice`); the key half that encrypt computes makes decrypt's sum equal to the
seed (`XorSolved`, `SeedFound`), since both sum the encrypted body; storing the key
loses nothing because the transformation is a permutation (`KeyStored`).
`EncryptedDecrypts` puts these together for one file, and `BlkInv` (files are
well-formed, the running command names files, and the property itself) carries it
through sessions of any length, `BlkStep` with one step per command. Assumptions:
the permutation, the pad's length of at least one word, and texts of whole words.

**Blk, sessions** (BlkProofs): `Types` (`TypeOK`) and `Again == Spec => []SameAgain`. The
core is `EncryptsAgain`: given the seed file that decrypt wrote, the half of the key that
encrypt solves for is the half that decrypt used (`XorUndone`), and since the transformation
is injective the stored key is the same too. What has to be carried through a session is

    AgainInv == TypeOK /\ AlignedInv /\ MadeInv /\ OutInv /\ SameAgain

`AlignedInv`: sizes in .blk files are whole words, so rounding does not change them again;
`MadeInv`: a text or seed file that decrypt wrote is still what its .blk file says; `OutInv`: the
output of the running command, created before its inputs are read, counts as made from
nothing, which is what keeps coinciding names from breaking `MadeInv`.

**Ec2b** (Ec2bProofs): `Types` (`TypeOK`), `Printed` (`SeedPrinted`) and `Spared`
(`EditSparesInput`), for every command line, directory, key, data and permutation, kills
included. `Ec2bInv` adds to them `ReadyInv`, what has been made sure of before a file is touched (the
arguments are there, the file edit has read is an .ec2b, a seed that was asked for is a
word), and `FilesInv`: only the target of an edit differs from what the run found, and the
input can be the target only in place, after success. That the seed printed is
the file's is `KeyForGives`: the key half that `genNewEc2b` solves for makes the sum the seed, and storing a
key loses nothing (`StoredKey`).

`GivenSeed` (`GivenSeedWins`) and `KeptUnasked` (`KeepsUnasked`) are about the loop over
the arguments. `OptInv` relates what the loop has recorded to the options met so far, each once and of
the seeds the last; which arguments are options and which are values of the option before is
`TakesNext`, a recursion over the line. `KeptInv` says what the edit takes over from its
input: data and key half that no option asked for.

**The ciphers** (CodecsProofs): `CodecRecovered` (`Recovered`), `CodecNextSpared` (`NextSpared`) and
`CodecVariantsAgree` (`VariantsAgree`), for every number of bits in a byte, key, substitution and
scramble table, memory and size. They are built from the bits up:

* exclusive or: `LowXor` is a recursion over bits; `XorBits` says that it is the symmetric
  difference of the sets of 1 bits, and `XorLaws` follow (associative, commutative, each byte its
  own inverse);
* `mixCols`: the tables of products are linear maps that commute with doubling (`Mul2Linear`,
  `MapsLinear`, `Commuting`), and both directions apply one row of four of them, turned by a
  place from byte to byte (`CirculantIn`). The 14, 11, 13, 9 of the one and the 2, 3, 1, 1 of the
  other cancel out (`MatrixInverse`) in sums of doublings: the field and its polynomial do not
  matter;
* aes: each step has its inverse, so has a round, and the rounds are undone from the last
  to the first (`RoundsBack`), in the standard direction and in the swapped one
  (`AesInverse`, `AesMhyInverse`). Encryption and decryption use the same round keys, so nothing
  has to be known of the key schedule;
* blb3's aes: each step of its unrolled schedule makes the transposed key of the standard one
  (`NextTransposed`), and its `roundKeyBlb3` transposes it back (`AesAgree`);
* the three rounds with lookup tables: division in the field undoes multiplication since 3
  generates it (`Logarithms`, `Divided`), the search for a value in a scramble table ends as the
  table is injective (`OntoFinite`), and the rounds are undone in the order of
  decryption (`Unmixes`);
* rc4: both directions run the same stream, since neither the table nor the second key
  depends on the data, and the operation that a byte of the second key selects is undone
  byte by byte (`OpsInverse`, `StreamBack`). That the initial table is no permutation does no harm;
* memory: `Slice`, `Put` and `XorCrypt` on ranges that do and do not overlap, and
  `Joined(p, b, n)`, a block followed by other bytes: what works inside of the
  first `n` bytes commutes with it (`JoinPut`, `PutJoined`, `XorJoined`).

`Mhy0Back`, `Mhy1Back`, `Blb3Back` and `Mr0kBack` put these together, each for the order of steps of its
cipher: decrypting a ciphertext joined with any `b` gives the plain block joined with `b`. What mr0k
derives its seed from has to be the same in both directions, though encryption derives it from
bytes that it changes later. Then

    CodecInv == ... /\ Contained /\ pc = "decrypted" =>
                  \E b \in Mem : stored = Ciphertext(b) /\ mem = Joined(plain, b, case.size)

carries this through the four steps. Assumptions: the substitution table is a bijection,
lookup and scramble tables are injective, the multipliers are not 0, 3 generates the
field (`GeneratorAssumption`), `CryptMax` covers a header's rounds, `EncMax` is a multiple of 16,
all of which hold of the code's tables and limits; `rc4_init_tbl` is arbitrary.

**Headers** (HeadersProofs): `TypesHold` (`TypeOK`), `ReadBack` (`ReadsBack`), `HeadersExact`
(`HeaderExact`), `KeepsMetadata` (`MetadataKept`) and `KeepsBytes` (`BytesKept`), for the four
layouts, any number of cabs and blocks, names and bytes of unknown meaning, and any number of packs.
Of the flags of the cabs `ReadBack` and `KeepsMetadata` say that those of mhy0, mhy1 and the first 32
cabs of a blb3 are read and kept, and that those of encr are with their four bytes turned around; the order
of these is what headers_flags refutes, and blb3's flags from the 33rd cab on, which the code misreads,
are left out.
All five follow from `Invariant == Spec => []HInv`:

    HInv == /\ ArchiveInv /\ FilesTyped
            /\ Unpacked => SizesThere
            /\ Unpacked /\ ~edited => UnpackedFrom(before)
            /\ pc = "archive" /\ packs > 0 => PackedFrom

`ReadsBack` alone is not inductive: whether a pack can be read depends on files that an unpack of
an earlier archive wrote. `ArchiveInv`: the archive, and the one before it, are `WellFormed`, and
this one reads as it was meant. `FilesTyped`: whatever files are there have the types of their format,
so that a name has an end or fills its field and a flag of blb3 is one bit. `SizesThere`: for each cab
that the `.hdr` counts there is one. `UnpackedFrom`: as long as nobody touched them, the files are what
was read of `before`. `PackedFrom`: what was packed is what the packer makes of the files. Only
PackHolds is hard. It goes

* from writes to bytes: each part of a header is a sequence of writes at offsets (`Laid`), and a
  lemma per part (`MhyCabWrites`, `Blb3FixedWrites` and so on) says which bytes it sets and what they
  are; tables whose entries follow each other do not overlap (`TableLaid`, `AdjacentLaid`,
  `HalvedLaid`), so each entry is found in the whole (`Holds`);
* from bytes to numbers: a number of 32 bits is its four digits in each of the encodings
  (`NumberOfDigits`, `ReadLe`, `ReadBe`, `ReadShuffled`), and lengths and offsets stay below 2^31
  (`Small`), as what the packers store has to;
* over the names: encr's reader walks from name to name by `strlen` and arrives where the packer put
  each cab (`EncrWalks`, `EncrCabPlaces`); blb3 points at each name from its table (`Blb3NameOrder`);
* over the flags of blb3, which are bits of words behind the tables or, when a count has the same
  value, of that count (`FlagByte`, `FlagsThere`, `FlagReads`);
* to what a reader returns (`Mhy0Reads`, `Mhy1Reads`, `EncrPackReads`, `Blb3PackReads`), and then for
  any format `PackedSound`.

`HeaderExact` is the same account of the bytes that are set, now that they fill the header (`HolesFill`,
`PackedExact`). `KeepsBytes` goes the other way: what was read of arbitrary bytes is written again
where it was (`MhyBlockAgain`, `Mhy1OuterAgain`, `InnerAgain`, `CabsAgain`). Assumptions:
`OriginalsAssumption` about the archives there are to begin with, `BytesAssumption` and
`SizesAssumption` about random bytes and sizes.

**Induction.** The library's induction theorems take an operator as a parameter, which no
prover here can instantiate. `UpTo` (a set that holds 0 and is closed under adding 1 up to `d`
holds all numbers up to `d`) and `Recursion` (a recursive function over `0 .. n` has exactly one
solution, of the type of its steps) are first-order, and follow from what
FiniteSetTheorems says of injections; every induction here is an instance of one of them.

**Model-checked only**: liveness (`Terminates` of BlockPacker and Unpack), since fairness and
ENABLED are out of the prover's reach, and the four refuted properties. Every invariant and the
refinement that a run checks are theorems too.

## 5. Not modelled

* mr0k parts of an encr archive: with one, `hdr_size_cmp` has lost 0x14 bytes (encr.c:107) when
  `data_off` is computed from it (encr.c:188), and `mr0k_decrypt`'s result is ignored. The
  cipher is modelled, its use in encr is not.
* `mr0k_main`, `xor_main` and the dispatch in `main`: a read, a call and a write each.
  `mr0k_main` ignores the call's result; `xor_main` divides by the length of its key file.
* The generator of mt19937-64.c: 312 words of 64 bits are beyond TLC, and its users need
  no more of it than that it is a function of the seed.
* LZ4's entry points that the tool never calls (streaming, dictionaries, the fast compressor,
  partial decoding) and the search for matches, of which only the limits are in the model;
  inputs above `LZ4_MAX_INPUT_SIZE` and negative sizes.
* Short writes: no line looks at their count, so each property about contents would fail in
  the same way. Reads past the end of a truncated header.
* `.blk` files whose blkSz is no multiple of 8, which the tool does not write: those that are decrypted were
  made by it.
* Two spellings of one path (`a` and `./a`), which `ec2b edit` takes for two files.
* Damaged headers in Unpack: the sizes that encr and blb3 find there are true ones, so a next
  pointer that does not move is not covered by `Terminates`.
* Headers whose block and cab table is so large that the sizes computed for it wrap 32 bits.
* That `.blocks` is never removed, and the wording of messages.

## 6. Plan

What is left, in this order:

1. mr0k parts of an encr in Unpack and Headers;
2. the generator's in-place regeneration against its recurrence, with fewer words.
