---------------------------- MODULE BlockPacker ----------------------------
(***************************************************************************)
(* One call of pack_mhy0, pack_mhy1, pack_encr or pack_blb3.               *)
(*                                                                         *)
(* The four functions share one algorithm, copied from mhy0.c: read the    *)
(* archive's .hdr file, measure and open its .cabN files, cut their        *)
(* concatenation into blocks of BlockSize bytes that each go through       *)
(* dec_buf, the compressor and the temporary .blocks file, and finally     *)
(* write a header that says where each cab starts in the unpacked data.    *)
(* Each definition is mapped to one of the four copies; where they differ, *)
(* the definition depends on format.                                       *)
(*                                                                         *)
(* A byte of a cab is the pair <<cab, position>>; compression and          *)
(* encryption keep it, so a block is the function of the bytes it holds.   *)
(***************************************************************************)
EXTENDS Integers, Sequences, FiniteSets, Sums

CONSTANTS
  BlockSize,   \* 0x20000: bytes of unpacked data per block, size of dec_buf
  MaxCabs,     \* 256: the most cabs a pack handles
  MinBlock,    \* 7: a shorter block is too short for mhy1's cipher
  Word,        \* 2^32: where a uint32_t wraps
  Files,       \* how many .cabN files can exist beside the archive
  FileSizes,   \* the sizes a .cabN file can have
  HdrCounts,   \* the cab counts a .hdr file can hold
  Formats      \* the functions to look at: mhy0, mhy1, encr, blb3

ASSUME BlockSizeAssumption == BlockSize \in Nat \ {0}
ASSUME MaxCabsAssumption   == MaxCabs \in Nat \ {0}
ASSUME MinBlockAssumption  == MinBlock \in 0 .. BlockSize
ASSUME WordAssumption      == Word \in Nat /\ Word > BlockSize
ASSUME FilesAssumption     == Files \in Nat
ASSUME FileSizesAssumption == FileSizes \subseteq Nat
ASSUME HdrCountsAssumption == HdrCounts \subseteq Nat
ASSUME FormatsAssumption   == Formats \subseteq {"mhy0", "mhy1", "encr", "blb3"}

NoFile  == -1          \* a .hdr or .cabN file that does not exist
Closed  == -1          \* a stream after fclose
Garbage == <<-1, -1>>  \* a byte of dec_buf that was never written

CabName == 0 .. Files - 1
Byte    == (Nat \X Nat) \cup {Garbage}

VARIABLES
  format,       \* which of the functions it is               (input)
  hdr,          \* cab count of the .hdr file, or NoFile       (input)
  file,         \* size of each .cabN file, or NoFile          (input)
  cab_hdr,      \* the .cabN.hdr files that exist              (input)
  pc,           \* where the function is
  cab_cnt,      \* cabs to pack
  i,            \* cab being measured, then block being filled
  j,            \* cab being read
  cab_blk_off,  \* offset of the next cab, then position in cab j
  total_blk_sz, \* bytes of all cabs, a uint32_t
  s_cab,        \* the header's entry of each cab measured so far
  infp,         \* position of each opened cab stream, or Closed
  open_hdrs,    \* .cabN.hdr streams opened and never closed
  blk_cnt,      \* blocks the header will announce
  remaining_sz, \* room left in the current block
  read_off,     \* where the next fread lands in dec_buf
  blk_sz,       \* bytes of the current block
  dec_buf,      \* the block being filled
  tmp,          \* the blocks in the .blocks file
  written,      \* blocks written to .blocks and not copied yet
  tmp_pos,      \* position of the .blocks stream, in blocks
  out,          \* what out_fp received: cab table, block table, blocks
  start,        \* history: where each cab measured so far starts, and the
                \*   end of the last one, without any wrap
  wrapped       \* history: a size or an offset has passed Word

input   == <<format, hdr, file, cab_hdr>>
scan    == <<cab_cnt, total_blk_sz, s_cab, open_hdrs, start,
             wrapped>>
loop    == <<j, blk_cnt, remaining_sz, read_off, blk_sz, dec_buf, tmp>>
copy    == <<written, tmp_pos, out>>
vars    == <<input, scan, loop, copy, pc, i, cab_blk_off, infp>>

U32(n) == n % Word

\* encr and blb3 do not close the .cabN.hdr streams.
ClosesCabHdr == format \in {"mhy0", "mhy1"}

\* The running offset is a uint64_t in encr and blb3, a table entry only in
\* encr. total_blk_sz is a uint32_t in all four.
OffWord   == IF format \in {"mhy0", "mhy1"} THEN Word ELSE Word * Word
EntryWord == IF format = "encr" THEN Word * Word ELSE Word

Init ==
  /\ format \in Formats
  /\ hdr \in HdrCounts \cup {NoFile}
  /\ file \in [CabName -> FileSizes \cup {NoFile}]
  /\ cab_hdr \in SUBSET CabName
  /\ pc = "hdr"
  /\ cab_cnt = 0 /\ i = 0 /\ j = 0 /\ cab_blk_off = 0 /\ total_blk_sz = 0
  /\ s_cab = <<>> /\ infp = <<>> /\ open_hdrs = 0
  /\ blk_cnt = 0 /\ remaining_sz = BlockSize /\ read_off = 0 /\ blk_sz = 0
  /\ dec_buf = [o \in 0 .. BlockSize - 1 |-> Garbage]
  /\ tmp = <<>> /\ written = 0 /\ tmp_pos = 0
  /\ out = [cabs |-> <<>>, dec_sz |-> <<>>, blocks |-> <<>>]
  /\ start = [c \in {0} |-> 0] /\ wrapped = FALSE

-----------------------------------------------------------------------------
(* The .hdr file gives the cab count; without one a single cab is assumed. *)
ReadHdr ==
  /\ pc = "hdr"
  /\ cab_cnt' = LET n == IF hdr = NoFile THEN 1 ELSE hdr
                IN  IF n >= MaxCabs THEN MaxCabs ELSE n
  /\ pc' = "scan"
  /\ UNCHANGED <<input, loop, i, cab_blk_off, total_blk_sz, s_cab, infp,
                 open_hdrs, start, wrapped, copy>>

Exists(c) == c \in CabName /\ file[c] # NoFile

\* Mutant of Entry: the running offset is advanced before it is recorded.
EntryAfterAdvance(c, off) ==
  [blk_off |-> (off + file[c]) % EntryWord, blk_sz |-> file[c] % EntryWord,
   meta |-> IF c \in cab_hdr THEN "stored" ELSE "made"]

(* The header's entry of cab c; off is where it starts. Name and flag come *)
(* from .cab<c>.hdr, offset and size never do.                             *)
Entry(c, off) ==
  [blk_off |-> off % EntryWord, blk_sz |-> file[c] % EntryWord,
   meta |-> IF c \in cab_hdr THEN "stored" ELSE "made"]

\* Mutant of LeftOpen: the fclose of .cab<c>.hdr is missing.
LeftOpenAlways(c) == c \in cab_hdr

\* The stream of .cab<c>.hdr outlives the turn that read it.
LeftOpen(c) == c \in cab_hdr /\ ~ClosesCabHdr

(* One turn of the measuring loop: open .cab<i>, take its size, read its   *)
(* .hdr if there is one, and place it after the cabs before it.            *)
MeasureCab ==
  /\ pc = "scan" /\ i < cab_cnt /\ Exists(i)
  /\ total_blk_sz' = U32(total_blk_sz + file[i])
  /\ s_cab' = [c \in 0 .. i |->
                IF c = i THEN Entry(i, cab_blk_off) ELSE s_cab[c]]
  /\ infp' = [c \in 0 .. i |-> IF c = i THEN 0 ELSE infp[c]]
  /\ open_hdrs' = open_hdrs + (IF LeftOpen(i) THEN 1 ELSE 0)
  /\ cab_blk_off' = (cab_blk_off + file[i]) % OffWord
  /\ start' = [c \in 0 .. i + 1 |->
                IF c = i + 1 THEN start[i] + s_cab'[i].blk_sz ELSE start[c]]
  /\ wrapped' = (wrapped \/ total_blk_sz + file[i] >= Word)
  /\ i' = i + 1
  /\ UNCHANGED <<input, loop, copy, pc, cab_cnt>>

(* A cab the header counts cannot be opened: the pack fails.               *)
CabMissing ==
  /\ pc = "scan" /\ i < cab_cnt /\ ~Exists(i)
  /\ pc' = "failed"
  /\ UNCHANGED <<input, scan, loop, copy, i, cab_blk_off, infp>>

\* Mutant of BlocksFor: one more block without looking at the remainder.
OneBlockMore(total) == (total \div BlockSize) + 1

BlocksFor(total) ==
  (total \div BlockSize) + (IF total % BlockSize # 0 THEN 1 ELSE 0)

(* All cabs are measured: count the blocks and open the .blocks file.      *)
CountBlocks ==
  /\ pc = "scan" /\ i >= cab_cnt
  /\ blk_cnt' = BlocksFor(total_blk_sz)
  /\ pc' = "loop"
  /\ i' = 0
  /\ cab_blk_off' = 0
  /\ UNCHANGED <<input, scan, j, remaining_sz, read_off, blk_sz, dec_buf, tmp,
                 infp, copy>>

(* .blocks cannot be created, or a buffer cannot be allocated.             *)
NoResources ==
  /\ \/ pc = "hdr"
     \/ pc = "scan" /\ i >= cab_cnt
     \/ pc = "loop" /\ i >= blk_cnt
  /\ pc' = "failed"
  /\ UNCHANGED <<input, scan, loop, copy, i, cab_blk_off, infp>>

-----------------------------------------------------------------------------
(* The block loop. A block is started when the previous one left no room,  *)
(* or all of it.                                                           *)
Fresh == remaining_sz <= 0 \/ remaining_sz >= BlockSize
Room == IF Fresh THEN BlockSize ELSE remaining_sz
\* Mutant of Held: blk_sz is not reset when a block is started.
HeldNotReset == blk_sz

Held == IF Fresh THEN 0 ELSE blk_sz
\* Mutant of Rest: what was read of cab j already is not subtracted.
RestFromStart == s_cab[j].blk_sz

Rest == s_cab[j].blk_sz - cab_blk_off   \* bytes of cab j not read yet

\* Mutant of Filled: every fread lands at the start of dec_buf.
FilledFromStart(n) ==
  [o \in 0 .. BlockSize - 1 |->
     IF o < n THEN <<j, infp[j] + o>> ELSE dec_buf[o]]

(* dec_buf after fread(dec_buf + read_off, 1, n, infp[j]).                 *)
Filled(n) ==
  [o \in 0 .. BlockSize - 1 |->
     IF o >= read_off /\ o < read_off + n
       THEN <<j, infp[j] + (o - read_off)>>
       ELSE dec_buf[o]]

\* Mutant of HasRoom: a block is written after every cab.
NeverRoom(room) == FALSE

\* There is room left for the next cab in a block that was started.
HasRoom(room) == room > 0 /\ room < BlockSize

(* The part of a turn after the three branches: read n bytes of cab j,     *)
(* close the cab when it is used up (off is then 0), and either go on      *)
(* filling the block or compress it and write it to .blocks.               *)
Read(n, off, room, size) ==
  /\ cab_blk_off' = off
  /\ remaining_sz' = room
  /\ blk_sz' = size
  /\ dec_buf' = Filled(n)
  /\ infp' = [infp EXCEPT ![j] = IF off <= 0 THEN Closed ELSE infp[j] + n]
  /\ j' = IF off <= 0 THEN j + 1 ELSE j
  /\ IF j' < cab_cnt /\ HasRoom(room)
       THEN /\ read_off' = read_off + n
            /\ UNCHANGED <<i, tmp, written>>
       ELSE /\ tmp' = Append(tmp, [dec_sz |-> size, data |-> Filled(n)])
            /\ written' = written + 1
            /\ read_off' = 0
            /\ i' = i + 1
  /\ UNCHANGED <<input, scan, pc, blk_cnt, tmp_pos, out>>

InLoop == pc = "loop" /\ i < blk_cnt

(* Mutant of TooShort: a block is enciphered with each cab put into it.     *)
TooShortForNow ==
  format = "mhy1" /\ InLoop /\ Rest <= Room /\ Held + Rest < MinBlock

(* mhy1_encrypt asserts that it is given 36 bytes, 28 of which are the     *)
(* block's key and its header. LZ4 makes fewer than 8 of a block only when *)
(* that has fewer than 7 bytes, which it then stores behind a token. Such  *)
(* a block holds the end of the last cab, or an empty cab met at its start.*)
TooShort ==
  /\ format = "mhy1" /\ InLoop
  /\ Rest <= Room /\ Held + Rest < MinBlock
  /\ ~(j + 1 < cab_cnt /\ HasRoom(Room - Rest))

(* The assertion fails and ends the process.                               *)
Abort ==
  /\ TooShort
  /\ pc' = "failed"
  /\ UNCHANGED <<input, scan, loop, copy, i, cab_blk_off, infp>>

(* The rest of the cab fits in the room of the block.                      *)
TakeRest ==
  /\ InLoop /\ Rest <= Room /\ ~TooShort
  /\ Read(Rest, 0, Room - Rest, Held + Rest)

(* The cab does not fit in a block that already holds other cabs.          *)
TopUp ==
  /\ InLoop /\ Rest > Room /\ HasRoom(Room)
  /\ Read(Room, cab_blk_off + Room, 0, Held + Room)

(* The cab does not fit in an empty block and fills it.                    *)
TakeBlock ==
  /\ InLoop /\ Rest > Room /\ ~HasRoom(Room)
  /\ Read(BlockSize, cab_blk_off + Held + Room, 0, Held + Room)

\* Mutant of Rewound: the fseek is missing.
NotRewound == Len(tmp)

\* Where fseek puts the .blocks stream before it is read back.
Rewound == 0

(* All blocks are in .blocks: write the header to the archive.             *)
WriteHeader ==
  /\ pc = "loop" /\ i >= blk_cnt
  /\ out' = [cabs |-> s_cab, dec_sz |-> [b \in DOMAIN tmp |-> tmp[b].dec_sz],
             blocks |-> <<>>]
  /\ tmp_pos' = Rewound
  /\ pc' = "copy"
  /\ UNCHANGED <<input, scan, loop, written, i, cab_blk_off, infp>>

(* One turn of the copy loop; a read at the end of .blocks copies nothing. *)
CopyBlock ==
  /\ pc = "copy" /\ written > 0
  /\ IF tmp_pos < Len(tmp)
       THEN /\ out' = [out EXCEPT !.blocks = Append(@, tmp[tmp_pos + 1])]
            /\ tmp_pos' = tmp_pos + 1
            /\ written' = written - 1
       ELSE UNCHANGED copy
  /\ UNCHANGED <<input, scan, loop, pc, i, cab_blk_off, infp>>

Return ==
  /\ pc = "copy" /\ written <= 0
  /\ pc' = "done"
  /\ UNCHANGED <<input, scan, loop, copy, i, cab_blk_off, infp>>

Terminated == pc \in {"done", "failed"} /\ UNCHANGED vars

Next ==
  \/ ReadHdr \/ MeasureCab \/ CabMissing \/ CountBlocks \/ NoResources
  \/ TakeRest \/ TopUp \/ TakeBlock \/ Abort
  \/ WriteHeader \/ CopyBlock \/ Return
  \/ Terminated

Spec == Init /\ [][Next]_vars /\ WF_vars(Next)

-----------------------------------------------------------------------------
(* Properties.                                                             *)

Cab == 0 .. cab_cnt - 1

(* Types, and the ranges the C variables stay in: a block never grows past *)
(* dec_buf, although blk_sz is only reset when a block is started.         *)
TypeOK ==
  /\ format \in Formats
  /\ hdr \in HdrCounts \cup {NoFile}
  /\ file \in [CabName -> FileSizes \cup {NoFile}]
  /\ cab_hdr \in SUBSET CabName
  /\ pc \in {"hdr", "scan", "loop", "copy", "done", "failed"}
  /\ cab_cnt \in 0 .. MaxCabs /\ i \in Nat /\ j \in Nat
  /\ cab_blk_off \in Nat /\ total_blk_sz \in 0 .. Word - 1
  /\ open_hdrs \in Nat /\ blk_cnt \in Nat
  /\ remaining_sz \in 0 .. BlockSize
  /\ read_off \in 0 .. BlockSize /\ blk_sz \in 0 .. BlockSize
  /\ dec_buf \in [0 .. BlockSize - 1 -> Byte]
  /\ tmp \in Seq([dec_sz : 0 .. BlockSize, data : [0 .. BlockSize - 1 -> Byte]])
  /\ written \in Nat /\ tmp_pos \in Nat
  /\ wrapped \in BOOLEAN

(* A turn of the block loop reads a cab that was opened and not closed,    *)
(* and writes inside dec_buf. The loop counts blocks, not cabs (its test   *)
(* of j is commented out), so this rests on blk_cnt, on every fclose and   *)
(* on read_off together.                                                   *)
IndexSafe ==
  InLoop => /\ j < cab_cnt
            /\ infp[j] # Closed
            /\ Fresh => read_off = 0
            /\ read_off + (IF Rest <= Room THEN Rest ELSE Room) <= BlockSize

NoEmptyCab == \A c \in Cab : Exists(c) => file[c] > 0
Regular    == NoEmptyCab /\ ~wrapped

(* Every block but the last is full: blb3's header stores no block sizes   *)
(* and its reader relies on it.                                            *)
FullBlocks ==
  Regular => \A b \in 1 .. Len(tmp) - 1 : tmp[b].dec_sz = BlockSize

(* Bytes of the block being filled and of the finished blocks lie where    *)
(* the header will say: position blk_off + k of the unpacked data is byte  *)
(* k of the cab.                                                           *)
InPlace(data, n, from) ==
  \A o \in 0 .. n - 1 :
    /\ data[o][1] \in Cab
    /\ data[o][2] \in 0 .. s_cab[data[o][1]].blk_sz - 1
    /\ s_cab[data[o][1]].blk_off + data[o][2] = from + o

Placement ==
  Regular /\ pc \in {"loop", "copy", "done"} =>
    /\ \A b \in 1 .. Len(tmp) :
         InPlace(tmp[b].data, tmp[b].dec_sz, (b - 1) * BlockSize)
    /\ InPlace(dec_buf, read_off, i * BlockSize)

(* What extract_mhy0 makes of the archive: blocks are decompressed one     *)
(* after the other into data_buf and each cab is cut out of it. Memory     *)
(* that no block reached is Garbage.                                       *)
Unpacked(p) ==
  LET In == {b \in 1 .. Len(out.blocks) :
               p \in Before(out.dec_sz, b) .. Before(out.dec_sz, b + 1) - 1}
  IN  IF In = {} THEN Garbage
      ELSE LET b == CHOOSE x \in In : TRUE
           IN  out.blocks[b].data[p - Before(out.dec_sz, b)]

Extracted(c) ==
  [k \in 0 .. out.cabs[c].blk_sz - 1 |-> Unpacked(out.cabs[c].blk_off + k)]

Content(c) == [k \in 0 .. file[c] - 1 |-> <<c, k>>]

(* The archive of a successful pack unpacks to the cab files it was made   *)
(* from, in their order and with their metadata. RoundTrip says so for     *)
(* cabs that are not empty and stay below 4 GiB, Repacked for all.         *)
Repacked ==
  pc = "done" =>
    /\ Len(out.blocks) = Len(tmp)
    /\ \A c \in Cab : /\ Extracted(c) = Content(c)
                      /\ out.cabs[c].meta = "stored" <=> c \in cab_hdr

RoundTrip == Regular => Repacked

(* Which streams a successful pack leaves open; one process packs several  *)
(* archives (blktool.c's count argument), so they add up until fopen fails.*)
(* Of the .cabN.hdr streams, none in mhy0 and mhy1 and all in encr and     *)
(* blb3. Of the .cabN streams, those from cab j on: the cabs that no block *)
(* was left for. There are none without empty cabs and wraps.              *)
StreamsClosed ==
  pc = "done" =>
    /\ open_hdrs = IF format \in {"mhy0", "mhy1"} THEN 0
                   ELSE Cardinality({c \in Cab : c \in cab_hdr})
    /\ \A c \in Cab : infp[c] = Closed <=> c < j
    /\ Regular => j = cab_cnt

(* mhy1_encrypt's "TODO: Properly handle this case" (mhy1.c:44): the       *)
(* assertion ends a pack in its last block, and whether it does depends on *)
(* the size of all data and not on how cabs divide them. With empty cabs   *)
(* the last block can also be none of those that the bytes need.           *)
ShortTail == total_blk_sz % BlockSize \in 1 .. MinBlock - 1

AbortsOnShortTail ==
  Regular /\ format = "mhy1" =>
    /\ TooShort => ShortTail /\ i = blk_cnt - 1
    /\ pc = "done" => ~ShortTail

(* A pack returns, whatever the sizes: every turn of its three loops makes *)
(* progress.                                                               *)
Terminates == <>(pc \in {"done", "failed"})

(* The packer implements the specification of an archive. Nothing is       *)
(* promised of a pack with an empty cab or a total that wraps (Repacked):  *)
(* such a pack maps to an archive that is never begun.                     *)
Working == pc \in {"loop", "copy", "done"} /\ Regular

A == INSTANCE Archive WITH
       cabs   <- IF Working THEN s_cab ELSE <<>>,
       blocks <- IF Working THEN tmp ELSE <<>>,
       status <- IF ~Regular \/ pc \in {"hdr", "scan"} THEN "open"
                 ELSE IF pc \in {"loop", "copy"} THEN "packing" ELSE pc

ImplementsArchive == A!Spec
=============================================================================
