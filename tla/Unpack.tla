-------------------------------- MODULE Unpack --------------------------------
(***************************************************************************)
(* One run of `blktool mhy0|mhy1|encr|blb3 unpack`: the loop of the mains  *)
(* of blktool.c over the archives of one file, and extract_mhy0,           *)
(* extract_mhy1, extract_encr and extract_blb3, which are copies of each   *)
(* other. Each definition is mapped to one of the copies; what differs     *)
(* between them depends here on `format'.                                  *)
(*                                                                         *)
(* The file is read into one buffer and deciphered in place. A cipher      *)
(* works on the start of a header or block, and for mhy0 and blb3 on at    *)
(* least a fixed number of bytes, also when the block is shorter: the rest *)
(* of that window then belongs to what follows. The buffer is cut in cells *)
(* of some bytes; of a cell the model keeps the windows that have changed  *)
(* it. A deciphered block can be decompressed when its own window is the   *)
(* only one that did.                                                      *)
(*                                                                         *)
(* mr0k blocks inside an encr are left out (see Mr0k in the README).       *)
(***************************************************************************)
EXTENDS Integers, Sequences, FiniteSets, Sums

CONSTANTS
  Inputs, \* pairs of a format and a file: a sequence of archives
  Core,   \* cells that the cipher mixes: fewer of them cannot be deciphered
  Window  \* cells at the start of a block that the mhy0 cipher changes

\* An archive: cells of its header, whether the header is stored instead of
\* compressed, sizes of its cabs, compressed and plain sizes of its blocks.
Archive == [hdr : Nat, stored : BOOLEAN, cabs : Seq(Nat), cmp : Seq(Nat), dec : Seq(Nat)]

ASSUME InputsAssumption ==
  /\ Inputs \subseteq {"mhy0", "mhy1", "encr", "blb3"} \X Seq(Archive)
  /\ \A input \in Inputs : \A a \in DOMAIN input[2] :
       /\ input[2][a].hdr >= Window \* names alone take 0x104 bytes or more
       /\ input[2][a].cabs # <<>> /\ input[2][a].cmp # <<>>
       /\ Len(input[2][a].cmp) = Len(input[2][a].dec)
       /\ Sum(input[2][a].cabs) = Sum(input[2][a].dec)
       /\ input[2][a].stored => input[1] = "encr"
ASSUME WindowAssumption == Core \in Nat /\ Window \in Nat /\ Core <= Window

VARIABLES
  format, file,
  changed,  \* cell of the buffer -> starts of the windows that changed it
  current,  \* current_mhy0: where the archive starts
  i,        \* i of the main: the number in the output's names
  pc,       \* where extract is, or how the run ended
  n,        \* i of extract: the cab or block
  data_off, \* where the block starts, from current
  blk_data_off, data_buf, \* the plain data so far
  out       \* the files written: name -> content

vars == <<format, file, changed, current, i, pc, n, data_off, blk_data_off, data_buf, out>>

Ends == {"ok", "fail", "corrupt", "abort"}

-----------------------------------------------------------------------------
(* The input.                                                              *)

\* The magic and the sizes take one cell.
Length(archive) == 1 + archive.hdr + Sum(archive.cmp)
Start(f, a)     == Before([x \in 1 .. Len(f) |-> Length(f[x])], a)
BufSz(f)        == Start(f, Len(f) + 1)

\* Where block b of archive a is in the buffer.
BlockAt(a, b) == Start(file, a) + 1 + file[a].hdr + Before(file[a].cmp, b)

\* Cell x of the plain data of archive a; what LZ4 makes of an illegible block;
\* what malloc returns.
Plain(a, x) == <<a, x>>
Garbage == <<0, 0>>
Unset   == <<0, 1>>

Init ==
  /\ \E input \in Inputs : format = input[1] /\ file = input[2]
  /\ changed = [cell \in 0 .. BufSz(file) - 1 |-> {}]
  /\ current = 0 /\ i = 0 /\ pc = "next" /\ n = 1
  /\ data_off = 0 /\ blk_data_off = 0 /\ data_buf = <<>>
  /\ out = <<>>

-----------------------------------------------------------------------------
(* The ciphers, as far as which cells they need and touch.                 *)

\* How many cells from its start the cipher changes for size of them. mhy1 and
\* blb3 stop at 0x80 bytes or the end of the block; that limit is Window too.
\* For fewer than 16 bytes `size - 0x10 >= 16' of blb3_decrypt wraps, and aes
\* changes 16 bytes.
Touched(size) ==
  CASE format = "mhy0" -> Window
    [] format = "mhy1" -> IF size < Window THEN size ELSE Window
    [] format = "encr" -> 0
    [] format = "blb3" -> IF size < Core THEN Core
                          ELSE IF size < Window THEN size ELSE Window

Deciphered(start, size) ==
  [cell \in DOMAIN changed |->
     IF cell \in start .. start + Touched(size) - 1 THEN changed[cell] \cup {start}
     ELSE changed[cell]]

\* What was written as size cells at start, after the cipher: all of what the
\* cipher mixes is there and no other window has been over it.
Legible(cells, start, size) ==
  /\ format # "encr" => size >= Core
  /\ \A cell \in start .. start + size - 1 :
       /\ cell \in DOMAIN cells
       /\ cells[cell] = IF cell < start + Touched(size) THEN {start} ELSE {}

-----------------------------------------------------------------------------
(* One archive.                                                            *)

\* if (magic != ...). A changed magic is a bad one.
MagicAt(p) == \E a \in DOMAIN file : Start(file, a) = p /\ changed[p] = {}

Here    == CHOOSE a \in DOMAIN file : Start(file, a) = current
archive == file[Here]

Write(name, content) ==
  out' = [x \in DOMAIN out \cup {name} |-> IF x = name THEN content ELSE out[x]]

\* The header is deciphered and decompressed, and the .hdr file written.
ReadHeader ==
  /\ pc = "next" /\ current < BufSz(file) /\ MagicAt(current)
  /\ changed' = Deciphered(current + 1, archive.hdr)
  /\ Legible(changed', current + 1, archive.hdr)
  /\ Write(<<i, "hdr">>, Len(archive.cabs))
  /\ pc' = "cab.hdr" /\ n' = 1
  /\ data_off' = 1 + archive.hdr /\ blk_data_off' = 0
  /\ data_buf' = [x \in 0 .. Sum(archive.cabs) - 1 |-> Unset]
  /\ UNCHANGED <<format, file, current, i>>

BadMagic ==
  /\ pc = "next" /\ current < BufSz(file) /\ ~MagicAt(current)
  /\ pc' = "corrupt"
  /\ UNCHANGED <<format, file, changed, current, i, n, data_off, blk_data_off, data_buf, out>>

\* Mutant of MoreCabs: stops one early.
MoreCabsButOne == n + 1 < Len(archive.cabs)

MoreCabs == n < Len(archive.cabs)

\* The .cabN.hdr files.
WriteCabHeader ==
  /\ pc = "cab.hdr"
  /\ Write(<<i, "cab.hdr", n>>, <<Before(archive.cabs, n), archive.cabs[n]>>)
  /\ IF MoreCabs THEN n' = n + 1 /\ pc' = pc ELSE n' = 1 /\ pc' = "block"
  /\ UNCHANGED <<format, file, changed, current, i, data_off, blk_data_off, data_buf>>

\* Every format but blb3 keeps what is not compressed of a block in a file.
WriteKey(legible) ==
  IF format = "blb3" THEN UNCHANGED out
  ELSE Write(<<i, "blk.key", n>>, IF legible THEN <<Here, n>> ELSE Garbage)

\* assert(size >= (roundSize + 20)) of mhy1_decrypt.
TooShort(size) == format = "mhy1" /\ size < Core

\* What LZ4_decompress_safe leaves in data_buf.
Decompressed(legible) ==
  [x \in DOMAIN data_buf |->
     IF x \notin blk_data_off .. blk_data_off + archive.dec[n] - 1 THEN data_buf[x]
     ELSE IF legible THEN Plain(Here, Before(archive.dec, n) + x - blk_data_off)
     ELSE Garbage]

\* Mutant of PlainSize.
CompressedSize == archive.cmp[n]

\* blk_data_off advances by the plain size.
PlainSize == archive.dec[n]

\* Mutant of MoreBlocks: stops one early.
MoreBlocksButOne == n + 1 < Len(archive.cmp)

MoreBlocks == n < Len(archive.cmp)

BlockDone ==
  /\ data_off' = data_off + archive.cmp[n]
  /\ blk_data_off' = blk_data_off + PlainSize
  /\ IF MoreBlocks THEN n' = n + 1 /\ pc' = pc
     ELSE n' = 1 /\ pc' = IF format = "encr" THEN "free" ELSE "cab"

\* LZ4_decompress_safe fails on a block that is not legible, or makes garbage.
Block ==
  /\ pc = "block" /\ ~TooShort(archive.cmp[n])
  /\ changed' = Deciphered(current + data_off, archive.cmp[n])
  /\ \E legible \in BOOLEAN :
       /\ legible <=> /\ current + data_off = BlockAt(Here, n)
                      /\ Legible(changed', current + data_off, archive.cmp[n])
       /\ WriteKey(legible)
       /\ \/ data_buf' = Decompressed(legible) /\ BlockDone
          \/ /\ ~legible /\ pc' = "corrupt"
             /\ UNCHANGED <<n, data_off, blk_data_off, data_buf>>
  /\ UNCHANGED <<format, file, current, i>>

\* The assertion fails, or the window reaches past the end of the buffer and
\* the heap notices.
Abort ==
  /\ pc = "block"
  /\ \/ TooShort(archive.cmp[n])
     \/ current + data_off + Touched(archive.cmp[n]) > BufSz(file)
  /\ pc' = "abort"
  /\ UNCHANGED <<format, file, changed, current, i, n, data_off, blk_data_off, data_buf, out>>

\* free(hdr_buf) of extract_encr. A stored header was never allocated: hdr_buf
\* points into the input, and free may abort.
FreeHeader ==
  /\ pc = "free"
  /\ pc' \in IF archive.stored THEN {"cab", "abort"} ELSE {"cab"}
  /\ UNCHANGED <<format, file, changed, current, i, n, data_off, blk_data_off, data_buf, out>>

\* Mutant of NextArchive: next_mhy0 without the header.
NextArchiveShort ==
  current + IF format \in {"mhy0", "mhy1"} THEN data_off - archive.hdr ELSE Length(archive)

\* Where the next archive is: mhy0 and mhy1 add up what they have read, encr
\* and blb3 take the size of the header.
NextArchive ==
  current + IF format \in {"mhy0", "mhy1"} THEN data_off ELSE Length(archive)

\* Cab n is cut out of the plain data and written.
Cut == [x \in 0 .. archive.cabs[n] - 1 |-> data_buf[Before(archive.cabs, n) + x]]

\* Mutant of Advance: both assignments are missing.
NoAdvance == UNCHANGED <<current, i>>

\* current_mhy0 = next_mhy0; i++;
Advance == current' = NextArchive /\ i' = i + 1

WriteCab ==
  /\ pc = "cab"
  /\ Write(<<i, "cab", n>>, Cut)
  /\ IF MoreCabs THEN n' = n + 1 /\ UNCHANGED <<pc, current, i>>
     ELSE n' = 1 /\ pc' = "next" /\ Advance
  /\ UNCHANGED <<format, file, changed, data_off, blk_data_off, data_buf>>

\* while (current_mhy0 < buf + bufSz) ends.
Finish ==
  /\ pc = "next" /\ current >= BufSz(file)
  /\ pc' = "ok"
  /\ UNCHANGED <<format, file, changed, current, i, n, data_off, blk_data_off, data_buf, out>>

\* An fopen or malloc fails.
Refused ==
  /\ pc \in {"next", "cab.hdr", "block", "cab"} /\ current < BufSz(file)
  /\ pc = "next" => MagicAt(current)
  /\ pc = "block" /\ format = "blb3" => n = 1 \* only malloc, before its loop
  /\ pc' = "fail"
  /\ UNCHANGED <<format, file, changed, current, i, n, data_off, blk_data_off, data_buf, out>>

Next ==
  \/ ReadHeader \/ BadMagic \/ WriteCabHeader \/ Block \/ Abort
  \/ FreeHeader \/ WriteCab \/ Finish \/ Refused

\* One sequential process: nothing keeps it from its next statement.
Spec == Init /\ [][Next]_vars /\ WF_vars(Next)

-----------------------------------------------------------------------------
(* Properties.                                                             *)

\* Types, and the offsets of extract stay inside the buffers they index.
TypeOK ==
  /\ <<format, file>> \in Inputs
  /\ changed \in [0 .. BufSz(file) - 1 -> SUBSET (0 .. BufSz(file) - 1)]
  /\ current \in 0 .. BufSz(file) /\ i \in 0 .. Len(file)
  /\ pc \in {"next", "cab.hdr", "block", "free", "cab"} \cup Ends
  /\ n \in Nat \ {0}
  /\ current + data_off \in 0 .. 2 * BufSz(file)
  /\ blk_data_off \in 0 .. Cardinality(DOMAIN data_buf)

\* The cipher of block b of archive a stays inside the block.
Fits(a, b) ==
  LET size == file[a].cmp[b]
  IN  /\ Touched(size) <= size
      /\ format # "encr" => size >= Core

\* Every block of the archives up to a stays inside itself; the last one of a
\* need only be long enough for itself.
Sheltered(a) ==
  /\ \A c \in 1 .. a : \A b \in DOMAIN file[c].cmp :
       c < a \/ b < Len(file[c].cmp) => Fits(c, b)
  /\ format # "encr" => file[a].cmp[Len(file[a].cmp)] >= Core

\* The files of archive a, and what has to be in them.
Names(a) ==
  {<<a - 1, "hdr">>} \cup {<<a - 1, "cab.hdr", c>> : c \in DOMAIN file[a].cabs}
  \cup {<<a - 1, "blk.key", b>> : b \in IF format = "blb3" THEN {} ELSE DOMAIN file[a].cmp}

CabNames(a) == {<<a - 1, "cab", c>> : c \in DOMAIN file[a].cabs}

\* Every cab file holds its own bytes of its own archive and every key file its
\* own key, whatever the archives after it are like: windows that reach past a
\* last block do no harm to it (the TODO of mhy0.c:107 and mhy0.c:153 matters to
\* what comes next).
FilesIntact ==
  \A a \in DOMAIN file : Sheltered(a) =>
    /\ \A c \in DOMAIN file[a].cabs : <<a - 1, "cab", c>> \in DOMAIN out =>
         out[<<a - 1, "cab", c>>] =
           [x \in 0 .. file[a].cabs[c] - 1 |-> Plain(a, Before(file[a].cabs, c) + x)]
    /\ \A b \in DOMAIN file[a].cmp : <<a - 1, "blk.key", b>> \in DOMAIN out =>
         out[<<a - 1, "blk.key", b>>] = <<a, b>>

\* A file whose blocks are all long enough is extracted to its end unless the
\* system refuses a file or memory: no window spoils a later magic or block.
NothingTurnedDown ==
  (\A a \in DOMAIN file : ~file[a].stored /\ \A b \in DOMAIN file[a].cmp : Fits(a, b))
    => pc \notin {"corrupt", "abort"}

\* Success means every file of every archive, under the archive's number.
Complete ==
  pc = "ok" => DOMAIN out = UNION {Names(a) \cup CabNames(a) : a \in DOMAIN file}

\* A cab is written only when the files that pack reads beside it are there,
\* and all of the archives before: a run that stops half way leaves whole
\* archives and at most one without all of its cabs.
MetadataFirst ==
  \A a \in DOMAIN file : CabNames(a) \cap DOMAIN out # {} =>
    /\ Names(a) \subseteq DOMAIN out
    /\ \A c \in 1 .. a - 1 : Names(c) \cup CabNames(c) \subseteq DOMAIN out

\* No file of this run is overwritten by a later archive or block.
WrittenOnce ==
  [][\A name \in DOMAIN out :
       name \in DOMAIN out' /\ out'[name] = out[name]]_vars

\* The loop over the archives ends.
Terminates == <>(pc \in Ends)

\* "Only ENCR files compressed with lz4 or lz4hc, or uncompressed, are
\* supported at the moment" (encr.c:95, encr.c:207): an uncompressed header
\* is supported.
StoredSupported ==
  format = "encr" => pc # "abort"
=============================================================================
