------------------------------ MODULE Archive ------------------------------
(***************************************************************************)
(* What packing promises, whatever the format: either an archive whose     *)
(* blocks are the concatenation of the .cabN files cut every BlockSize     *)
(* bytes, described by a table that says where each cab lies in that       *)
(* concatenation, or nothing at all. BlockPacker implements it.            *)
(***************************************************************************)
EXTENDS Integers, Sequences

CONSTANT BlockSize  \* assumed positive by the module that implements this one

VARIABLES
  file,    \* size of each .cabN file; the packer only reads it
  cabs,    \* the table: where each cab starts and how long it is
  blocks,  \* the blocks made so far
  status   \* "open", "packing", "done" or "failed"

aVars == <<file, cabs, blocks, status>>

Nothing == <<>>

\* The cabs follow each other without gap or overlap and have their files' size.
Laid(table) ==
  \A c \in DOMAIN table :
    /\ table[c].blk_sz = file[c]
    /\ table[c].blk_off = IF c = 0 THEN 0
                          ELSE table[c - 1].blk_off + table[c - 1].blk_sz

\* Byte k of cab c is at position p of the concatenation.
At(table, byte, p) ==
  /\ byte[1] \in DOMAIN table
  /\ byte[2] \in 0 .. table[byte[1]].blk_sz - 1
  /\ table[byte[1]].blk_off + byte[2] = p

\* Every byte of every cab has a position below n.
AllBelow(table, n) ==
  \A c \in DOMAIN table : table[c].blk_off + table[c].blk_sz <= n

Init ==
  /\ cabs = Nothing /\ blocks = <<>> /\ status = "open"

Start ==
  /\ status = "open" /\ status' = "packing"
  /\ Laid(cabs')
  /\ UNCHANGED <<file, blocks>>

\* The next block holds the next BlockSize bytes; only the last one is shorter.
Emit ==
  /\ status = "packing"
  /\ ~AllBelow(cabs, Len(blocks) * BlockSize)
  /\ Len(blocks') = Len(blocks) + 1
  /\ LET block == blocks'[Len(blocks) + 1]
         start == Len(blocks) * BlockSize
     IN  /\ blocks' = Append(blocks, block)
         /\ block.dec_sz \in 1 .. BlockSize
         /\ \A o \in 0 .. block.dec_sz - 1 : At(cabs, block.data[o], start + o)
         /\ block.dec_sz < BlockSize => AllBelow(cabs, start + block.dec_sz)
  /\ UNCHANGED <<file, cabs, status>>

Finish ==
  /\ status = "packing" /\ status' = "done"
  /\ AllBelow(cabs, Len(blocks) * BlockSize)
  /\ UNCHANGED <<file, cabs, blocks>>

Fail ==
  /\ status \in {"open", "packing"} /\ status' = "failed"
  /\ cabs' = Nothing /\ blocks' = <<>>
  /\ UNCHANGED file

Next == Start \/ Emit \/ Finish \/ Fail

Spec == Init /\ [][Next]_aVars
=============================================================================
