--------------------------- MODULE BlockPackerInv ---------------------------
(***************************************************************************)
(* The inductive invariant of BlockPacker, in named parts. TLC checks it   *)
(* on small instances, BlockPackerProofs proves it for all.                *)
(***************************************************************************)
EXTENDS BlockPacker

Measured == IF pc = "scan" THEN i ELSE cab_cnt  \* cabs in the table

(* The table is filled in order and start gives its unwrapped prefix sums. *)
TableInv ==
  pc \notin {"hdr", "failed"} =>
    /\ Measured <= cab_cnt
    /\ s_cab \in [0 .. Measured - 1 ->
                   [blk_off : Nat, blk_sz : Nat, meta : {"stored", "made"}]]
    /\ infp \in [0 .. Measured - 1 -> Nat \cup {Closed}]
    /\ start \in [0 .. Measured -> Nat]
    /\ start[0] = 0
    /\ \A c \in 0 .. Measured - 1 : start[c + 1] = start[c] + s_cab[c].blk_sz
    /\ total_blk_sz <= start[Measured]

(* Nothing is read before the loop starts.                                 *)
BeforeLoopInv ==
  pc \in {"hdr", "scan"} =>
    /\ j = 0 /\ read_off = 0 /\ remaining_sz = BlockSize /\ blk_sz = 0
    /\ tmp = <<>>
    /\ pc = "hdr" => /\ i = 0 /\ cab_blk_off = 0 /\ total_blk_sz = 0
                     /\ start = [c \in {0} |-> 0] /\ s_cab = <<>> /\ infp = <<>>
    /\ pc = "scan" => \A c \in 0 .. i - 1 : infp[c] = 0

(* Position in the concatenation of the cabs.                              *)
Cursor == IF j < cab_cnt THEN start[j] + cab_blk_off ELSE start[cab_cnt]

(* The last block starts before the end of the data.                       *)
CountInv ==
  pc = "loop" /\ blk_cnt > 0 => (blk_cnt - 1) * BlockSize < total_blk_sz

(* What each turn of the block loop finds.                                 *)
LoopInv ==
  InLoop =>
    /\ j < cab_cnt
    /\ infp[j] = cab_blk_off
    /\ cab_blk_off = 0 \/ cab_blk_off < s_cab[j].blk_sz
    /\ \A c \in j + 1 .. cab_cnt - 1 : infp[c] = 0
    /\ Fresh => read_off = 0
    /\ ~Fresh => read_off = blk_sz /\ blk_sz + remaining_sz = BlockSize
    /\ Cursor <= i * BlockSize + read_off

Inv == TypeOK /\ TableInv /\ BeforeLoopInv /\ CountInv /\ LoopInv

-----------------------------------------------------------------------------
(* What holds besides when no cab is empty and nothing has wrapped: the    *)
(* strengthening of Placement, FullBlocks and the step of the refinement.  *)

(* The table is the prefix sums of the files' sizes.                       *)
RegularTableInv ==
  Regular /\ pc \notin {"hdr", "failed"} =>
    /\ total_blk_sz = start[Measured]
    /\ pc = "scan" => cab_blk_off = start[i]
    /\ \A c \in 0 .. Measured - 1 :
         s_cab[c].blk_off = start[c] /\ s_cab[c].blk_sz = file[c] /\ file[c] > 0
    /\ \A c \in 0 .. Measured : start[c] <= start[Measured]

(* The blocks are the data before the cursor, and in the end all of it.    *)
RegularLoopInv ==
  Regular /\ pc \in {"loop", "copy", "done"} =>
    /\ Len(tmp) = i
    /\ total_blk_sz <= blk_cnt * BlockSize
    /\ pc # "loop" => i >= blk_cnt
    /\ InLoop => Cursor = i * BlockSize + read_off
    /\ \A b \in 1 .. Len(tmp) : b < Len(tmp) \/ j < cab_cnt => tmp[b].dec_sz = BlockSize

RegularInv == RegularTableInv /\ RegularLoopInv /\ Placement /\ FullBlocks

(* Streams: a cab is closed when it is used up and not before, and when no *)
(* block is left to fill all cabs are. The strengthening of StreamsClosed. *)
ClosedInv ==
  /\ pc = "hdr" => open_hdrs = 0
  /\ pc \notin {"hdr", "failed"} =>
       open_hdrs = IF ClosesCabHdr THEN 0
                   ELSE Cardinality({c \in 0 .. Measured - 1 : c \in cab_hdr})
  /\ pc \in {"loop", "copy", "done"} =>
       /\ \A c \in 0 .. cab_cnt - 1 : infp[c] = Closed <=> c < j
       /\ Regular /\ i >= blk_cnt => j = cab_cnt

(* The strengthening of RoundTrip. The archive receives the table, a size  *)
(* for each block of .blocks, and the blocks in their order.               *)
CopyInv ==
  /\ pc \in {"hdr", "scan", "loop"} => written = Len(tmp)
  /\ pc \in {"copy", "done"} =>
       /\ out = [cabs |-> s_cab, dec_sz |-> [b \in DOMAIN tmp |-> tmp[b].dec_sz],
                 blocks |-> SubSeq(tmp, 1, tmp_pos)]
       /\ tmp_pos <= Len(tmp) /\ written = Len(tmp) - tmp_pos
       /\ pc = "done" => written = 0

(* An entry takes its name from .cab<c>.hdr when there is one.             *)
MetaInv ==
  pc \notin {"hdr", "failed"} =>
    \A c \in 0 .. Measured - 1 : s_cab[c].meta = "stored" <=> c \in cab_hdr

(* The block that uses up the last cab ends where the data ends.           *)
LastInv ==
  Regular /\ pc \in {"loop", "copy", "done"} /\ j = cab_cnt /\ Len(tmp) > 0 =>
    (Len(tmp) - 1) * BlockSize + tmp[Len(tmp)].dec_sz = start[cab_cnt]

(* No block that mhy1_encrypt was given is too short for it.               *)
LongInv == format = "mhy1" => \A b \in 1 .. Len(tmp) : tmp[b].dec_sz >= MinBlock

ArchiveInv == CopyInv /\ MetaInv /\ LastInv
=============================================================================
