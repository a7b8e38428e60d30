------------------------- MODULE BlockPackerProofs -------------------------
(***************************************************************************)
(* Proofs about BlockPacker, for every block size, every number and size   *)
(* of cabs and every width of the counters. Inv is inductive; TypeOK and   *)
(* IndexSafe follow. RegularInv is inductive beside it for cabs that are   *)
(* not empty and stay below the wrap; Placement, FullBlocks, StreamsClosed *)
(* and the refinement of Archive follow, with ArchiveInv RoundTrip, and    *)
(* with LongInv AbortsOnShortTail.                                         *)
(***************************************************************************)
EXTENDS BlockPackerInv, SumsProofs

USE BlockSizeAssumption, MaxCabsAssumption, WordAssumption, FilesAssumption,
    FileSizesAssumption, HdrCountsAssumption

-----------------------------------------------------------------------------
(* Arithmetic.                                                             *)

(* Multiplying by a block size keeps the order of block numbers.          *)
LEMMA MulOrder ==
  ASSUME NEW a \in Int, NEW b \in Int, NEW w \in Nat \ {0}, a <= b
  PROVE  a * w <= b * w
  OBVIOUS

(* Adding to a wrapped counter never makes it larger than adding the       *)
(* wrapped amount.                                                         *)
LEMMA WrappedSum ==
  ASSUME NEW t \in Nat, NEW f \in Nat, NEW w \in Nat \ {0}
  PROVE  (t + f) % w <= t + (f % w)
<1>1. PICK p \in Nat : \E a \in 0 .. w - 1 : f % w = a /\ f = (w * p) + a
  BY Euclid, Zenon
<1>2. PICK a \in 0 .. w - 1 : f % w = a /\ f = (w * p) + a
  BY <1>1, Zenon
<1>3. t + a \in Nat
  BY <1>2
<1>4. PICK q \in Nat : \E r \in 0 .. w - 1 : (t + a) % w = r /\ t + a = (w * q) + r
  BY <1>3, Euclid, Zenon
<1>5. PICK r \in 0 .. w - 1 : t + a = (w * q) + r
  BY <1>4, Zenon
<1>6. t + f = (w * (p + q)) + r
  BY <1>2, <1>5
<1>7. p + q \in Nat
  OBVIOUS
<1>8. ((w * (p + q)) + r) % w = r
  BY <1>7, ModUnique, Zenon
<1>9. r <= t + a
  <2>1. w * q \in Nat
    OBVIOUS
  <2> QED BY <2>1, <1>5
<1> QED
  <2>1. (t + f) % w = r
    BY <1>6, <1>8, Zenon
  <2> QED BY <2>1, <1>2, <1>9, Zenon

(* Dividing by w * w and then by w gives the quotient and remainder by w.  *)
LEMMA TwoQuotients ==
  ASSUME NEW w \in Nat \ {0}, NEW k \in Nat, NEW q \in Nat, NEW r \in 0 .. w - 1
  PROVE  (((w * w) * k) + ((w * q) + r)) % w = r
<1>1. (w * k) \in Nat
  OBVIOUS
<1>2. (w * k) + q \in Nat
  BY <1>1
<1>3. ((w * w) * k) + ((w * q) + r) = (w * ((w * k) + q)) + r
  OBVIOUS
<1> QED BY <1>2, <1>3, ModUnique

(* A number wrapped at 2^64 is at least the same number wrapped at 2^32.   *)
LEMMA WiderWrap ==
  ASSUME NEW f \in Nat, NEW w \in Nat \ {0}
  PROVE  f % w <= f % (w * w)
<1>1. w * w \in Nat \ {0}
  OBVIOUS
<1>2. PICK k \in Nat : \E s \in 0 .. (w * w) - 1 :
        f % (w * w) = s /\ f = ((w * w) * k) + s
  BY <1>1, Euclid, Zenon
<1>3. PICK s \in 0 .. (w * w) - 1 : f % (w * w) = s /\ f = ((w * w) * k) + s
  BY <1>2, Zenon
<1>4. s \in Nat
  BY <1>1, <1>3
<1>5. PICK q \in Nat : \E r \in 0 .. w - 1 : s % w = r /\ s = (w * q) + r
  BY <1>4, Euclid, Zenon
<1>6. PICK r \in 0 .. w - 1 : s = (w * q) + r
  BY <1>5, Zenon
<1>7. (((w * w) * k) + ((w * q) + r)) % w = r
  BY TwoQuotients, Zenon
<1>8. f % w = r
  BY <1>3, <1>6, <1>7, Zenon
<1>9. r <= s
  <2>1. w * q \in Nat
    OBVIOUS
  <2> QED BY <2>1, <1>6
<1> QED BY <1>3, <1>8, <1>9, Zenon

-----------------------------------------------------------------------------
(* The initial states satisfy the invariant.                               *)
LEMMA InitInv == Init => Inv
<1> SUFFICES ASSUME Init PROVE Inv
  OBVIOUS
<1> USE DEF Init
<1>1. TypeOK
  <2>1. dec_buf \in [0 .. BlockSize - 1 -> Byte]
    BY DEF Byte, Garbage
  <2>2. tmp \in Seq([dec_sz : 0 .. BlockSize, data : [0 .. BlockSize - 1 -> Byte]])
    OBVIOUS
  <2>3. remaining_sz \in 0 .. BlockSize /\ read_off \in 0 .. BlockSize
        /\ blk_sz \in 0 .. BlockSize
    OBVIOUS
  <2>4. total_blk_sz \in 0 .. Word - 1 /\ cab_cnt \in 0 .. MaxCabs
    OBVIOUS
  <2> QED BY <2>1, <2>2, <2>3, <2>4 DEF TypeOK
<1>2. TableInv /\ BeforeLoopInv /\ CountInv /\ LoopInv
  BY DEF TableInv, BeforeLoopInv, CountInv, LoopInv, InLoop
<1> QED BY <1>1, <1>2 DEF Inv

(* Reading the .hdr file clamps the cab count and keeps the invariant.     *)
LEMMA ReadHdrInv == Inv /\ ReadHdr => Inv'
<1> SUFFICES ASSUME Inv, ReadHdr PROVE Inv'
  OBVIOUS
<1> USE DEF Inv, ReadHdr, input, loop, copy
<1>1. cab_cnt' \in 0 .. MaxCabs
  BY DEF TypeOK, NoFile
<1>2. TypeOK'
  BY <1>1 DEF TypeOK
<1>3. TableInv'
  BY <1>1 DEF TypeOK, TableInv, BeforeLoopInv, Measured
<1>4. BeforeLoopInv' /\ CountInv' /\ LoopInv'
  BY DEF TypeOK, BeforeLoopInv, CountInv, LoopInv, InLoop
<1> QED BY <1>2, <1>3, <1>4 DEF Inv

(* Measuring a cab extends the table and its prefix sums by one entry.     *)
LEMMA MeasureCabInv == Inv /\ MeasureCab => Inv'
<1> SUFFICES ASSUME Inv, MeasureCab PROVE Inv'
  OBVIOUS
<1> USE DEF Inv, MeasureCab
<1>1. i \in Nat /\ i < cab_cnt /\ cab_cnt \in Nat /\ file[i] \in Nat
  <2>1. i \in CabName /\ file[i] # NoFile /\ file[i] \in FileSizes \cup {NoFile}
    BY DEF TypeOK, Exists
  <2>2. file[i] \in Nat
    BY <2>1
  <2> QED BY <2>2 DEF TypeOK
<1>2. Word * Word \in Nat \ {0}
  OBVIOUS
<1>3. EntryWord \in Nat \ {0} /\ OffWord \in Nat \ {0}
  BY <1>2 DEF EntryWord, OffWord
<1>4. cab_blk_off \in Nat /\ total_blk_sz \in Nat
  BY DEF TypeOK
<1>5. total_blk_sz' \in 0 .. Word - 1 /\ total_blk_sz' = (total_blk_sz + file[i]) % Word
  <2>1. total_blk_sz + file[i] \in Nat
    BY <1>1, <1>4
  <2>2. total_blk_sz' = (total_blk_sz + file[i]) % Word
    BY DEF U32
  <2>3. (total_blk_sz + file[i]) % Word \in 0 .. Word - 1
    BY <2>1
  <2> QED BY <2>2, <2>3
<1>6. cab_blk_off' \in Nat
  BY <1>1, <1>3, <1>4
<1>7. Entry(i, cab_blk_off) \in
        [blk_off : Nat, blk_sz : Nat, meta : {"stored", "made"}]
  <2>1. cab_blk_off % EntryWord \in Nat /\ file[i] % EntryWord \in Nat
    <3> HIDE DEF Inv, MeasureCab
    <3> QED BY <1>1, <1>3, <1>4
  <2>2. (IF i \in cab_hdr THEN "stored" ELSE "made") \in {"stored", "made"}
    OBVIOUS
  <2> HIDE DEF Inv, MeasureCab
  <2> QED BY <2>1, <2>2, Zenon DEF Entry
<1>8. total_blk_sz' <= total_blk_sz + Entry(i, cab_blk_off).blk_sz
  <2>1. total_blk_sz' <= total_blk_sz + (file[i] % Word)
    <3>1. Word \in Nat \ {0}
      OBVIOUS
    <3> QED BY <1>1, <1>4, <1>5, <3>1, WrappedSum, Zenon
  <2>2. file[i] % Word <= file[i] % EntryWord
    <3>1. Word \in Nat \ {0}
      OBVIOUS
    <3>2. file[i] % Word \in Nat
      BY <1>1
    <3>3. CASE EntryWord = Word
      BY <3>2, <3>3
    <3>4. CASE EntryWord = Word * Word
      BY <1>1, <3>1, <3>4, WiderWrap, Zenon
    <3> QED BY <3>3, <3>4 DEF EntryWord
  <2>3. Entry(i, cab_blk_off).blk_sz = file[i] % EntryWord
    BY DEF Entry
  <2>4. file[i] % Word \in Nat /\ file[i] % EntryWord \in Nat
    BY <1>1, <1>3
  <2> QED BY <1>4, <1>5, <2>1, <2>2, <2>3, <2>4
<1>9. TypeOK'
  <2>1. open_hdrs' \in Nat /\ wrapped' \in BOOLEAN
    BY <1>1, <1>4 DEF TypeOK
  <2>2. TypeOK /\ i' = i + 1 /\ i \in Nat
    BY <1>1
  <2>3. UNCHANGED <<input, loop, copy, pc, cab_cnt>>
    OBVIOUS
  <2> HIDE DEF Inv, MeasureCab
  <2> QED BY <1>5, <1>6, <2>1, <2>2, <2>3 DEF TypeOK, input, loop, copy
<1>10. TableInv'
  <2>1. Measured = i /\ Measured' = i + 1 /\ pc' = "scan" /\ cab_cnt' = cab_cnt
    BY DEF Measured
  <2>2. s_cab' \in [0 .. i -> [blk_off : Nat, blk_sz : Nat, meta : {"stored", "made"}]]
    <3> DEFINE E == [blk_off : Nat, blk_sz : Nat, meta : {"stored", "made"}]
    <3>1. s_cab \in [0 .. i - 1 -> E] /\ Entry(i, cab_blk_off) \in E /\ i \in Nat
      BY <1>1, <1>7, <2>1 DEF TableInv
    <3>2. s_cab' = [c \in 0 .. i |-> IF c = i THEN Entry(i, cab_blk_off) ELSE s_cab[c]]
      BY <1>1
    <3>3. \A c \in 0 .. i : c # i => c \in 0 .. i - 1
      BY <3>1
    <3>4. s_cab' \in [0 .. i -> E]
      <4> HIDE DEF E, MeasureCab, Inv
      <4> QED BY <3>1, <3>2, <3>3
    <3> QED BY <3>4, Zenon
  <2>3. infp' \in [0 .. i -> Nat \cup {Closed}]
    BY <1>1, <2>1 DEF TableInv
  <2>4. s_cab'[i] = Entry(i, cab_blk_off) /\ \A c \in 0 .. i - 1 : s_cab'[c] = s_cab[c]
    BY <1>1
  <2>5. start' \in [0 .. i + 1 -> Nat]
    BY <1>1, <1>7, <2>1, <2>4 DEF TableInv
  <2>6. start'[0] = 0 /\ \A c \in 0 .. i : start'[c] = start[c]
    BY <1>1, <2>1 DEF TableInv
  <2>7. start'[i + 1] = start[i] + s_cab'[i].blk_sz
    BY <1>1
  <2>8. \A c \in 0 .. i : start'[c + 1] = start'[c] + s_cab'[c].blk_sz
    BY <1>1, <2>1, <2>4, <2>6, <2>7 DEF TableInv
  <2>9. total_blk_sz' <= start'[i + 1]
    BY <1>1, <1>4, <1>5, <1>7, <1>8, <2>1, <2>4, <2>7 DEF TableInv
  <2>10. Measured' <= cab_cnt' /\ Measured' - 1 = i
    BY <1>1, <2>1
  <2> QED BY <2>1, <2>2, <2>3, <2>5, <2>6, <2>8, <2>9, <2>10 DEF TableInv
<1>11. BeforeLoopInv' /\ CountInv' /\ LoopInv'
  BY <1>1 DEF BeforeLoopInv, CountInv, LoopInv, InLoop, loop
<1> QED BY <1>9, <1>10, <1>11 DEF Inv

(* A missing cab file ends the pack and keeps the invariant.               *)
LEMMA CabMissingInv == Inv /\ CabMissing => Inv'
<1> SUFFICES ASSUME Inv, CabMissing PROVE Inv'
  OBVIOUS
<1> USE DEF Inv, CabMissing, input, scan, loop, copy
<1>1. TypeOK'
  BY DEF TypeOK
<1>2. TableInv' /\ BeforeLoopInv' /\ CountInv' /\ LoopInv'
  BY DEF TableInv, BeforeLoopInv, CountInv, LoopInv, InLoop
<1> QED BY <1>1, <1>2 DEF Inv

(* The blocks counted are those that start before the end of the data.     *)
LEMMA BlocksForBound ==
  ASSUME NEW total \in Nat
  PROVE  /\ BlocksFor(total) \in Nat
         /\ BlocksFor(total) > 0 => (BlocksFor(total) - 1) * BlockSize < total
<1>1. PICK q \in Nat : \E r \in 0 .. BlockSize - 1 :
        total % BlockSize = r /\ total = (BlockSize * q) + r
  BY Euclid, Zenon
<1>2. PICK r \in 0 .. BlockSize - 1 :
        total % BlockSize = r /\ total = (BlockSize * q) + r
  BY <1>1, Zenon
<1>3. total \div BlockSize = q
  BY <1>2
<1>4. BlocksFor(total) = q + (IF r # 0 THEN 1 ELSE 0)
  BY <1>2, <1>3 DEF BlocksFor
<1>5. CASE r = 0
  <2>1. (q - 1) * BlockSize = (BlockSize * q) - BlockSize
    OBVIOUS
  <2>2. BlocksFor(total) = q
    BY <1>4, <1>5
  <2>3. total = BlockSize * q
    BY <1>2, <1>5
  <2>4. (q - 1) * BlockSize < total
    <3>1. BlockSize * q \in Nat
      OBVIOUS
    <3> QED BY <2>1, <2>3, <3>1
  <2>5. (BlocksFor(total) - 1) * BlockSize < total
    BY <2>2, <2>4, Zenon
  <2>6. BlocksFor(total) \in Nat
    BY <2>2, Zenon
  <2> QED BY <2>5, <2>6
<1>6. CASE r # 0
  <2>1. ((q + 1) - 1) * BlockSize = BlockSize * q
    OBVIOUS
  <2>2. BlocksFor(total) = q + 1 /\ BlockSize * q \in Nat
    BY <1>4, <1>6
  <2>3. BlockSize * q < total
    BY <1>2, <1>6, <2>2
  <2>4. (BlocksFor(total) - 1) * BlockSize < total
    BY <2>1, <2>2, <2>3, Zenon
  <2> QED BY <2>2, <2>4
<1> QED BY <1>5, <1>6

(* Counting the blocks opens the loop at the first cab.                    *)
LEMMA CountBlocksInv == Inv /\ CountBlocks => Inv'
<1> SUFFICES ASSUME Inv, CountBlocks PROVE Inv'
  OBVIOUS
<1> USE DEF Inv, CountBlocks, input, scan, copy
<1>1. total_blk_sz \in Nat /\ total_blk_sz' = total_blk_sz
  BY DEF TypeOK
<1>2. /\ blk_cnt' \in Nat
      /\ blk_cnt' > 0 => (blk_cnt' - 1) * BlockSize < total_blk_sz
  BY <1>1, BlocksForBound
<1>3. i = cab_cnt /\ Measured' = Measured /\ Measured = i
  BY DEF TableInv, TypeOK, Measured
<1>4. TypeOK'
  BY <1>2 DEF TypeOK
<1>5. TableInv' /\ BeforeLoopInv' /\ CountInv'
  BY <1>1, <1>2, <1>3 DEF TableInv, BeforeLoopInv, CountInv
<1>6. LoopInv'
  <2> SUFFICES ASSUME InLoop' PROVE LoopInv'
    BY DEF LoopInv
  <2>1. total_blk_sz > 0
    <3>1. (blk_cnt' - 1) * BlockSize >= 0
      BY <1>2, <1>1 DEF InLoop
    <3> QED BY <1>1, <1>2, <3>1 DEF InLoop
  <2>2. /\ j' = 0 /\ i' = 0 /\ cab_blk_off' = 0 /\ read_off' = 0 /\ remaining_sz' = BlockSize
        /\ infp' = infp /\ start' = start /\ cab_cnt' = cab_cnt
    BY DEF BeforeLoopInv
  <2>3. cab_cnt > 0
    BY <1>1, <1>3, <2>1 DEF TableInv, TypeOK
  <2>4. \A c \in 0 .. cab_cnt - 1 : infp[c] = 0
    BY <1>3 DEF BeforeLoopInv
  <2>5. Fresh'
    BY <2>2 DEF Fresh
  <2>6. Cursor' = 0
    BY <2>2, <2>3 DEF Cursor, TableInv
  <2> QED BY <2>2, <2>3, <2>4, <2>5, <2>6 DEF LoopInv, TypeOK
<1> QED BY <1>4, <1>5, <1>6 DEF Inv

(* Running out of memory or files, or a block that is too short, ends the  *)
(* pack and keeps the invariant.                                           *)
LEMMA StoppedInv == Inv /\ (NoResources \/ Abort) => Inv'
<1> SUFFICES ASSUME Inv, NoResources \/ Abort PROVE Inv'
  OBVIOUS
<1> USE DEF Inv, NoResources, Abort, input, scan, loop, copy
<1>1. TypeOK'
  BY DEF TypeOK
<1>2. TableInv' /\ BeforeLoopInv' /\ CountInv' /\ LoopInv'
  BY DEF TableInv, BeforeLoopInv, CountInv, LoopInv, InLoop
<1> QED BY <1>1, <1>2 DEF Inv

-----------------------------------------------------------------------------
(* Writing a block to the .blocks file keeps it a sequence of blocks.      *)
LEMMA AppendType ==
  ASSUME NEW S, NEW s \in Seq(S), NEW e \in S
  PROVE  Append(s, e) \in Seq(S)
  OBVIOUS

(* The block loop. What the invariant says to the three branches.          *)
LEMMA LoopFacts ==
  ASSUME Inv, InLoop
  PROVE  /\ Room \in 1 .. BlockSize /\ Held \in 0 .. BlockSize
         /\ Held + Room = BlockSize /\ read_off = Held
         /\ j \in 0 .. cab_cnt - 1 /\ cab_cnt \in Nat
         /\ s_cab[j].blk_sz \in Nat /\ cab_blk_off \in Nat
         /\ Rest \in Nat /\ (cab_blk_off > 0 => Rest > 0)
         /\ infp[j] = cab_blk_off
<1> USE DEF Inv, InLoop
<1>1. j \in 0 .. cab_cnt - 1 /\ cab_cnt \in Nat /\ infp[j] = cab_blk_off
  BY DEF TypeOK, LoopInv
<1>2. s_cab[j].blk_sz \in Nat
  BY <1>1 DEF TableInv, Measured
<1>3. cab_blk_off \in Nat /\ (cab_blk_off = 0 \/ cab_blk_off < s_cab[j].blk_sz)
  BY DEF TypeOK, LoopInv
<1>4. Rest \in Nat /\ (cab_blk_off > 0 => Rest > 0)
  BY <1>2, <1>3 DEF Rest
<1>5. /\ Room \in 1 .. BlockSize /\ Held \in 0 .. BlockSize
      /\ Held + Room = BlockSize /\ read_off = Held
  BY DEF TypeOK, LoopInv, Fresh, Room, Held
<1> QED BY <1>1, <1>2, <1>3, <1>4, <1>5

(* The three branches agree on what they do to the block.                  *)
LEMMA BranchesRead ==
  ASSUME Inv, TakeRest \/ TopUp \/ TakeBlock
  PROVE  /\ InLoop
         /\ \E n \in 0 .. Room, off \in Nat :
              /\ Read(n, off, Room - n, Held + n)
              /\ \/ off = 0 /\ n = Rest
                 \/ /\ off = cab_blk_off + n /\ n = Room
                    /\ off > 0 /\ off < s_cab[j].blk_sz
<1> InLoop
  BY DEF TakeRest, TopUp, TakeBlock
<1>0. /\ Room \in 1 .. BlockSize /\ Held \in 0 .. BlockSize
      /\ Held + Room = BlockSize
      /\ s_cab[j].blk_sz \in Nat /\ cab_blk_off \in Nat /\ Rest \in Nat
  BY LoopFacts
<1>1. CASE TakeRest
  <2>1. Rest \in 0 .. Room /\ Read(Rest, 0, Room - Rest, Held + Rest)
    BY <1>0, <1>1 DEF TakeRest
  <2> QED BY <2>1
<1>2. CASE TopUp
  <2>1. /\ Room \in 0 .. Room /\ cab_blk_off + Room \in Nat /\ Room - Room = 0
        /\ cab_blk_off + Room > 0 /\ cab_blk_off + Room < s_cab[j].blk_sz
    BY <1>0, <1>2 DEF TopUp, Rest
  <2>2. Read(Room, cab_blk_off + Room, Room - Room, Held + Room)
    BY <1>2, <2>1 DEF TopUp
  <2> QED BY <2>1, <2>2
<1>3. CASE TakeBlock
  <2>1. Room = BlockSize /\ Held = 0
    BY <1>0, <1>3 DEF TakeBlock, HasRoom
  <2>2. /\ Room \in 0 .. Room /\ cab_blk_off + Room \in Nat /\ Room - Room = 0
        /\ cab_blk_off + Room > 0 /\ cab_blk_off + Room < s_cab[j].blk_sz
        /\ cab_blk_off + Held + Room = cab_blk_off + Room
    BY <1>0, <1>3, <2>1 DEF TakeBlock, Rest
  <2>3. Read(Room, cab_blk_off + Room, Room - Room, Held + Room)
    BY <1>3, <2>1, <2>2 DEF TakeBlock
  <2> QED BY <2>2, <2>3
<1> QED BY <1>1, <1>2, <1>3

(* A turn of the loop that reads n bytes keeps the invariant, whichever    *)
(* branch chose n. The count of turns that finish a block bounds the       *)
(* cursor, so the loop ends before it runs out of cabs.                    *)
LEMMA ReadInv ==
  ASSUME Inv, InLoop,
         NEW n \in 0 .. Room, NEW off \in Nat,
         Read(n, off, Room - n, Held + n),
         \/ off = 0 /\ n = Rest
         \/ /\ off = cab_blk_off + n /\ n = Room
            /\ off > 0 /\ off < s_cab[j].blk_sz
  PROVE  Inv'
<1> DEFINE room == Room - n
           goesOn == j' < cab_cnt /\ HasRoom(room)
<1>0. /\ Room \in 1 .. BlockSize /\ Held \in 0 .. BlockSize
      /\ Held + Room = BlockSize /\ read_off = Held
      /\ j \in 0 .. cab_cnt - 1 /\ cab_cnt \in Nat
      /\ s_cab[j].blk_sz \in Nat /\ cab_blk_off \in Nat
      /\ Rest \in Nat /\ (cab_blk_off > 0 => Rest > 0)
      /\ infp[j] = cab_blk_off
  BY LoopFacts
<1>1. /\ pc' = pc /\ cab_cnt' = cab_cnt /\ start' = start /\ s_cab' = s_cab
      /\ blk_cnt' = blk_cnt /\ total_blk_sz' = total_blk_sz
      /\ format' = format /\ hdr' = hdr /\ file' = file /\ cab_hdr' = cab_hdr
      /\ wrapped' = wrapped
      /\ open_hdrs' = open_hdrs /\ tmp_pos' = tmp_pos /\ pc = "loop"
      /\ remaining_sz' = room /\ blk_sz' = Held + n /\ cab_blk_off' = off
  BY DEF Read, input, scan, InLoop
<1>2. room \in 0 .. BlockSize /\ Held + n \in 0 .. BlockSize
      /\ read_off + n \in 0 .. BlockSize
  BY <1>0
<1>3. /\ j' = IF off = 0 THEN j + 1 ELSE j
      /\ infp' = [infp EXCEPT ![j] = IF off = 0 THEN Closed ELSE infp[j] + n]
  <2>1. off <= 0 <=> off = 0
    OBVIOUS
  <2>2. CASE off = 0
    BY <2>1, <2>2 DEF Read
  <2>3. CASE off # 0
    BY <2>1, <2>3 DEF Read
  <2> QED BY <2>2, <2>3
<1>4. Filled(n) \in [0 .. BlockSize - 1 -> Byte]
  <2> SUFFICES ASSUME NEW o \in 0 .. BlockSize - 1
               PROVE  Filled(n)[o] \in Byte
    BY DEF Filled
  <2>1. CASE o >= read_off /\ o < read_off + n
    <3>1. infp[j] + (o - read_off) \in Nat /\ j \in Nat
      BY <1>0, <2>1
    <3> QED BY <2>1, <3>1 DEF Filled, Byte
  <2>2. CASE ~(o >= read_off /\ o < read_off + n)
    BY <2>2 DEF Filled, Inv, TypeOK
  <2> QED BY <2>1, <2>2
<1>5. TypeOK'
  <2>1. i' \in Nat /\ j' \in Nat /\ read_off' \in 0 .. BlockSize /\ written' \in Nat
    <3>1. i \in Nat /\ written \in Nat /\ j \in Nat
      BY DEF Inv, TypeOK
    <3>2. j' \in Nat
      BY <1>3, <3>1
    <3>3. /\ i' = i \/ i' = i + 1
          /\ written' = written \/ written' = written + 1
          /\ read_off' = 0 \/ read_off' = read_off + n
      BY DEF Read
    <3> QED BY <1>2, <3>1, <3>2, <3>3
  <2>2. dec_buf' \in [0 .. BlockSize - 1 -> Byte]
    BY <1>4 DEF Read
  <2>3. tmp' \in Seq([dec_sz : 0 .. BlockSize, data : [0 .. BlockSize - 1 -> Byte]])
    <3> DEFINE Blocks == [dec_sz : 0 .. BlockSize, data : [0 .. BlockSize - 1 -> Byte]]
               new == [dec_sz |-> Held + n, data |-> Filled(n)]
    <3>1. new \in Blocks
      BY <1>2, <1>4
    <3>2. tmp \in Seq(Blocks)
      BY DEF Inv, TypeOK
    <3>3. tmp' = tmp \/ tmp' = Append(tmp, new)
      BY DEF Read
    <3> HIDE DEF Blocks, new
    <3>4. Append(tmp, new) \in Seq(Blocks)
      BY <3>1, <3>2, AppendType
    <3>5. tmp' \in Seq(Blocks)
      BY <3>2, <3>3, <3>4
    <3> QED BY <3>5 DEF Blocks
  <2> QED BY <1>1, <1>2, <2>1, <2>2, <2>3 DEF Inv, TypeOK
<1>6. TableInv'
  <2>1. Measured = cab_cnt /\ Measured' = cab_cnt
    BY <1>1 DEF Measured
  <2>2. infp' \in [0 .. cab_cnt - 1 -> Nat \cup {Closed}]
    <3>1. infp \in [0 .. cab_cnt - 1 -> Nat \cup {Closed}]
      BY <1>1, <2>1 DEF Inv, TableInv
    <3>2. (IF off = 0 THEN Closed ELSE infp[j] + n) \in Nat \cup {Closed}
      BY <1>0
    <3> QED BY <1>3, <3>1, <3>2
  <2> QED BY <1>1, <2>1, <2>2 DEF Inv, TableInv
<1>7. BeforeLoopInv' /\ CountInv'
  BY <1>1 DEF Inv, BeforeLoopInv, CountInv
<1>8. Cursor' = Cursor + n
  <2>1. Cursor = start[j] + cab_blk_off
    BY <1>0 DEF Cursor
  <2>2. /\ start \in [0 .. cab_cnt -> Nat]
        /\ start[j + 1] = start[j] + s_cab[j].blk_sz
    BY <1>0, <1>1 DEF Inv, TableInv, Measured
  <2>5. start[j] \in Nat
    BY <1>0, <2>2
  <2>3. CASE off = 0
    <3>1. Cursor' = start[j + 1]
      <4>1. j' = j + 1 /\ cab_blk_off' = 0 /\ start' = start /\ cab_cnt' = cab_cnt
        BY <1>1, <1>3, <2>3
      <4>2. Cursor' = IF j + 1 < cab_cnt THEN start[j + 1] + 0 ELSE start[cab_cnt]
        BY <4>1, Zenon DEF Cursor
      <4> HIDE DEF room, goesOn
      <4>3. j + 1 \in 0 .. cab_cnt /\ (j + 1 < cab_cnt \/ j + 1 = cab_cnt)
        BY <1>0
      <4>4. start[j + 1] \in Nat
        BY <2>2, <4>3
      <4> QED BY <4>2, <4>3, <4>4
    <3>2. n = s_cab[j].blk_sz - cab_blk_off
      BY <2>3 DEF Rest
    <3>3. start[j + 1] = start[j] + s_cab[j].blk_sz
      BY <2>2
    <3> HIDE DEF room, goesOn
    <3> QED BY <1>0, <2>1, <2>5, <3>1, <3>2, <3>3
  <2>4. CASE off # 0
    <3>1. Cursor' = start[j] + off
      BY <1>0, <1>1, <1>3, <2>4 DEF Cursor
    <3>2. off = cab_blk_off + n
      BY <2>4
    <3> QED BY <1>0, <2>1, <2>5, <3>1, <3>2
  <2> QED BY <2>3, <2>4
<1>9. Cursor <= (i * BlockSize) + read_off /\ Cursor \in Nat /\ i \in Nat
  <2>1. start[j] \in Nat
    BY <1>0, <1>1 DEF Inv, TableInv, Measured
  <2>2. Cursor \in Nat /\ i \in Nat
    <3>1. Cursor = start[j] + cab_blk_off
      BY <1>0 DEF Cursor
    <3>2. cab_blk_off \in Nat /\ i \in Nat
      BY DEF Inv, TypeOK
    <3> HIDE DEF room, goesOn
    <3> QED BY <2>1, <3>1, <3>2
  <2> QED BY <2>2 DEF Inv, LoopInv
<1>10. \A c \in j' + 1 .. cab_cnt - 1 : infp'[c] = 0
  <2> SUFFICES ASSUME NEW c \in j' + 1 .. cab_cnt - 1 PROVE infp'[c] = 0
    OBVIOUS
  <2>1. c \in j + 1 .. cab_cnt - 1 /\ c # j
    BY <1>0, <1>3
  <2>2. infp[c] = 0
    BY <2>1 DEF Inv, LoopInv
  <2>3. infp \in [0 .. cab_cnt - 1 -> Nat \cup {Closed}]
    BY <1>1 DEF Inv, TableInv, Measured
  <2> QED BY <1>0, <1>3, <2>1, <2>2, <2>3
<1>11. ASSUME j' < cab_cnt PROVE infp'[j'] = cab_blk_off'
  <2>1. infp \in [0 .. cab_cnt - 1 -> Nat \cup {Closed}]
    BY <1>1 DEF Inv, TableInv, Measured
  <2>2. CASE off = 0
    <3>1. j' = j + 1 /\ j' \in j + 1 .. cab_cnt - 1 /\ j' # j
      BY <1>0, <1>3, <1>11, <2>2
    <3>2. infp[j'] = 0
      BY <3>1 DEF Inv, LoopInv
    <3> QED BY <1>0, <1>1, <1>3, <2>1, <2>2, <3>1, <3>2
  <2>3. CASE off # 0
    BY <1>0, <1>1, <1>3, <2>1, <2>3
  <2> QED BY <2>2, <2>3
<1>12. cab_blk_off' = 0 \/ cab_blk_off' < s_cab'[j'].blk_sz
  BY <1>0, <1>1, <1>3
<1>13. CASE goesOn
  <2>1. read_off' = read_off + n /\ i' = i
    BY <1>1, <1>13 DEF Read
  <2>2. ~Fresh' /\ blk_sz' + remaining_sz' = BlockSize /\ read_off' = blk_sz'
    BY <1>0, <1>1, <1>2, <1>13, <2>1 DEF Fresh, HasRoom
  <2>3. Cursor' <= (i' * BlockSize) + read_off'
    <3>1. i * BlockSize \in Nat
      BY <1>9
    <3> QED BY <1>0, <1>8, <1>9, <2>1, <3>1
  <2>4. LoopInv'
    BY <1>1, <1>10, <1>11, <1>12, <1>13, <2>2, <2>3 DEF LoopInv
  <2> QED BY <1>5, <1>6, <1>7, <2>4 DEF Inv
<1>14. CASE ~goesOn
  <2>1. read_off' = 0 /\ i' = i + 1
    BY <1>1, <1>14 DEF Read
  <2> SUFFICES ASSUME InLoop' PROVE LoopInv'
    BY <1>5, <1>6, <1>7 DEF Inv, LoopInv
  <2>2. Cursor' <= i' * BlockSize
    <3>1. i' * BlockSize = (i * BlockSize) + BlockSize
      BY <1>9, <2>1
    <3>2. i * BlockSize \in Nat
      BY <1>9
    <3> QED BY <1>0, <1>8, <1>9, <3>1, <3>2
  <2>3. i' * BlockSize <= (blk_cnt - 1) * BlockSize
    <3>1. i' <= blk_cnt - 1 /\ i' \in Int /\ blk_cnt - 1 \in Int
      BY <1>1, <1>9, <2>1 DEF InLoop, Inv, TypeOK
    <3> QED BY <3>1, MulOrder
  <2>4. (blk_cnt - 1) * BlockSize < total_blk_sz /\ blk_cnt \in Nat
        /\ total_blk_sz \in Nat
    BY <1>1, <1>9 DEF InLoop, Inv, CountInv, TypeOK
  <2>5. total_blk_sz <= start[cab_cnt] /\ start[cab_cnt] \in Nat
    BY <1>0, <1>1 DEF Inv, TableInv, Measured
  <2>6. Cursor' < start[cab_cnt]
    <3>1. /\ i' * BlockSize \in Nat /\ (blk_cnt - 1) * BlockSize \in Int
          /\ Cursor' \in Nat
      BY <1>8, <1>9, <2>1, <2>4
    <3> QED BY <2>2, <2>3, <2>4, <2>5, <3>1
  <2>7. j' < cab_cnt
    BY <1>0, <1>1, <1>3, <2>5, <2>6 DEF Cursor
  <2>8. Fresh'
    BY <1>1, <1>2, <1>14, <2>7 DEF Fresh, HasRoom
  <2> QED BY <1>1, <1>10, <1>11, <1>12, <2>1, <2>2, <2>7, <2>8 DEF LoopInv
<1> QED BY <1>13, <1>14

(* Once the loop is over only pc and the copy move.                        *)
LEMMA FinishInv == Inv /\ (WriteHeader \/ CopyBlock \/ Return) => Inv'
<1> SUFFICES ASSUME Inv, WriteHeader \/ CopyBlock \/ Return PROVE Inv'
  OBVIOUS
<1> USE DEF Inv, input, scan, loop, copy
<1>1. CASE WriteHeader
  <2>1. TypeOK'
    BY <1>1 DEF TypeOK, WriteHeader, Rewound
  <2>2. TableInv'
    BY <1>1 DEF TableInv, WriteHeader, Measured
  <2>3. BeforeLoopInv' /\ CountInv' /\ LoopInv'
    BY <1>1 DEF BeforeLoopInv, CountInv, LoopInv, InLoop, WriteHeader
  <2> QED BY <2>1, <2>2, <2>3
<1>2. CASE CopyBlock
  <2>1. written' \in Nat /\ tmp_pos' \in Nat
    <3>1. written \in Nat /\ tmp_pos \in Nat /\ written > 0
      BY <1>2 DEF TypeOK, CopyBlock
    <3>2. CASE tmp_pos < Len(tmp)
      <4>1. tmp_pos' = tmp_pos + 1 /\ written' = written - 1
        BY <1>2, <3>2 DEF CopyBlock
      <4> QED BY <3>1, <4>1
    <3>3. CASE ~(tmp_pos < Len(tmp))
      <4>1. tmp_pos' = tmp_pos /\ written' = written
        BY <1>2, <3>3 DEF CopyBlock
      <4> QED BY <3>1, <4>1
    <3> QED BY <3>2, <3>3
  <2>2. TypeOK'
    BY <1>2, <2>1 DEF TypeOK, CopyBlock
  <2>3. TableInv'
    BY <1>2 DEF TableInv, CopyBlock, Measured
  <2>4. BeforeLoopInv' /\ CountInv' /\ LoopInv'
    BY <1>2 DEF BeforeLoopInv, CountInv, LoopInv, InLoop, CopyBlock
  <2> QED BY <2>2, <2>3, <2>4
<1>3. CASE Return
  <2>1. TypeOK'
    BY <1>3 DEF TypeOK, Return
  <2>2. TableInv'
    BY <1>3 DEF TableInv, Return, Measured
  <2>3. BeforeLoopInv' /\ CountInv' /\ LoopInv'
    BY <1>3 DEF BeforeLoopInv, CountInv, LoopInv, InLoop, Return
  <2> QED BY <2>1, <2>2, <2>3
<1> QED BY <1>1, <1>2, <1>3

(* The invariant speaks of the variables only.                             *)
LEMMA StutterInv == Inv /\ UNCHANGED vars => Inv'
<1> SUFFICES ASSUME Inv, UNCHANGED vars PROVE Inv'
  OBVIOUS
<1> USE DEF Inv, vars, input, scan, loop, copy
<1>1. TypeOK'
  BY DEF TypeOK
<1>2. TableInv'
  BY DEF TableInv, Measured
<1>3. BeforeLoopInv' /\ CountInv'
  BY DEF BeforeLoopInv, CountInv
<1>4. LoopInv'
  BY DEF LoopInv, InLoop, Fresh, Cursor
<1> QED BY <1>1, <1>2, <1>3, <1>4

(* Every step of the pack keeps the invariant.                             *)
LEMMA NextInv == Inv /\ [Next]_vars => Inv'
<1> SUFFICES ASSUME Inv, [Next]_vars PROVE Inv'
  OBVIOUS
<1>1. CASE ReadHdr
  BY <1>1, ReadHdrInv
<1>2. CASE MeasureCab
  BY <1>2, MeasureCabInv
<1>3. CASE CabMissing
  BY <1>3, CabMissingInv
<1>4. CASE CountBlocks
  BY <1>4, CountBlocksInv
<1>5. CASE NoResources \/ Abort
  BY <1>5, StoppedInv
<1>6. CASE TakeRest \/ TopUp \/ TakeBlock
  <2>1. PICK n \in 0 .. Room, off \in Nat :
          /\ Read(n, off, Room - n, Held + n)
          /\ \/ off = 0 /\ n = Rest
             \/ /\ off = cab_blk_off + n /\ n = Room
                /\ off > 0 /\ off < s_cab[j].blk_sz
    BY <1>6, BranchesRead
  <2>2. InLoop
    BY <1>6, BranchesRead
  <2> QED BY <2>1, <2>2, ReadInv
<1>7. CASE WriteHeader \/ CopyBlock \/ Return
  BY <1>7, FinishInv
<1>8. CASE Terminated \/ UNCHANGED vars
  BY <1>8, StutterInv DEF Terminated
<1> QED BY <1>1, <1>2, <1>3, <1>4, <1>5, <1>6, <1>7, <1>8 DEF Next

-----------------------------------------------------------------------------
(* Results.                                                                *)

(* Inv is an invariant of every execution of a pack function.              *)
THEOREM InvHolds == Spec => []Inv
<1>1. Init => Inv
  BY InitInv
<1>2. Inv /\ [Next]_vars => Inv'
  BY NextInv
<1> QED BY <1>1, <1>2, PTL DEF Spec

(* The variables keep the ranges their C types and buffers give them, for  *)
(* every block size, every counter width and every set of cab sizes.       *)
THEOREM TypesHold == Spec => []TypeOK
<1>1. Inv => TypeOK
  BY DEF Inv
<1> QED BY <1>1, InvHolds, PTL

(* The block loop, which counts blocks and never compares j with cab_cnt,  *)
(* always finds an open cab and never writes behind dec_buf: also with     *)
(* empty cabs and with a total size that wrapped.                          *)
THEOREM IndexSafety == Spec => []IndexSafe
<1>1. Inv => IndexSafe
  <2> SUFFICES ASSUME Inv, InLoop PROVE IndexSafe
    BY DEF IndexSafe
  <2>1. /\ Room \in 1 .. BlockSize /\ Held \in 0 .. BlockSize
        /\ Held + Room = BlockSize /\ read_off = Held
        /\ j \in 0 .. cab_cnt - 1 /\ cab_cnt \in Nat
        /\ Rest \in Nat /\ infp[j] = cab_blk_off /\ cab_blk_off \in Nat
    BY LoopFacts
  <2>2. Fresh => read_off = 0
    BY DEF Inv, LoopInv
  <2>3. infp[j] # Closed
    BY <2>1 DEF Closed
  <2>4. read_off + (IF Rest <= Room THEN Rest ELSE Room) <= BlockSize
    BY <2>1
  <2> QED BY <2>1, <2>2, <2>3, <2>4 DEF IndexSafe
<1> QED BY <1>1, InvHolds, PTL

-----------------------------------------------------------------------------
(* Arithmetic.                                                             *)

(* A number below the wrap is not changed by it.                           *)
LEMMA NoWrap ==
  ASSUME NEW w \in Nat \ {0}, NEW x \in 0 .. w - 1
  PROVE  x % w = x
<1>1. (w * 0) + x = x
  OBVIOUS
<1>2. ((w * 0) + x) % w = x
  BY ModUnique
<1> QED BY <1>1, <1>2

(* Offsets and table entries are at least as wide as total_blk_sz.         *)
LEMMA Widths ==
  /\ EntryWord \in Nat \ {0} /\ Word <= EntryWord
  /\ OffWord \in Nat \ {0} /\ Word <= OffWord
<1>1. Word * Word \in Nat \ {0} /\ Word <= Word * Word
  <2>1. Word \in Nat /\ Word >= 1
    OBVIOUS
  <2>2. 1 * Word <= Word * Word
    BY <2>1, MulOrder
  <2> QED BY <2>1, <2>2
<1> QED BY <1>1 DEF EntryWord, OffWord

(* What Append adds to a sequence, and keeps of it.                        *)
LEMMA AppendFacts ==
  ASSUME NEW s, NEW e, \E S : s \in Seq(S)
  PROVE  /\ Len(Append(s, e)) = Len(s) + 1 /\ Append(s, e)[Len(s) + 1] = e
         /\ \A b \in 1 .. Len(s) : Append(s, e)[b] = s[b]
  OBVIOUS

(* The blocks counted hold all the data.                                   *)
LEMMA BlocksForCover ==
  ASSUME NEW total \in Nat
  PROVE  total <= BlocksFor(total) * BlockSize
<1>1. PICK q \in Nat : \E r \in 0 .. BlockSize - 1 :
        total % BlockSize = r /\ total = (BlockSize * q) + r
  BY Euclid, Zenon
<1>2. PICK r \in 0 .. BlockSize - 1 :
        total % BlockSize = r /\ total = (BlockSize * q) + r
  BY <1>1, Zenon
<1>3. total \div BlockSize = q
  BY <1>2
<1>4. BlocksFor(total) = q + (IF r # 0 THEN 1 ELSE 0)
  BY <1>2, <1>3 DEF BlocksFor
<1>5. CASE r = 0
  <2>1. BlocksFor(total) * BlockSize = BlockSize * q
    BY <1>4, <1>5
  <2>2. total = BlockSize * q /\ BlockSize * q \in Nat
    BY <1>2, <1>5
  <2> QED BY <2>1, <2>2
<1>6. CASE r # 0
  <2>1. BlocksFor(total) = q + 1
    BY <1>4, <1>6
  <2>2. (q + 1) * BlockSize = (BlockSize * q) + BlockSize /\ BlockSize * q \in Nat
    OBVIOUS
  <2>3. total = (BlockSize * q) + r /\ r < BlockSize
    BY <1>2
  <2>4. total <= (q + 1) * BlockSize
    BY <2>2, <2>3
  <2> QED BY <2>1, <2>4, Zenon
<1> QED BY <1>5, <1>6

-----------------------------------------------------------------------------
(* The steps before the block loop.                                        *)

(* The table begins empty.                                                 *)
LEMMA ReadHdrRegular == Inv /\ ReadHdr => RegularInv'
<1> SUFFICES ASSUME Inv, ReadHdr PROVE RegularInv'
  OBVIOUS
<1>1. /\ pc' = "scan" /\ i' = 0 /\ total_blk_sz' = 0 /\ cab_blk_off' = 0
      /\ start' = [c \in {0} |-> 0]
  BY DEF Inv, ReadHdr, BeforeLoopInv
<1>2. Measured' = 0
  BY <1>1 DEF Measured
<1>3. RegularTableInv'
  BY <1>1, <1>2 DEF RegularTableInv
<1>4. RegularLoopInv' /\ Placement'
  BY <1>1 DEF RegularLoopInv, Placement
<1>5. FullBlocks'
  <2>1. 1 .. Len(tmp') - 1 = {}
    BY DEF Inv, BeforeLoopInv, ReadHdr, loop
  <2> QED BY <2>1 DEF FullBlocks
<1> QED BY <1>3, <1>4, <1>5 DEF RegularInv

(* A cab that does not make the total wrap is placed at the exact sum of   *)
(* the sizes before it.                                                    *)
LEMMA MeasureCabRegular == Inv /\ RegularInv /\ MeasureCab => RegularInv'
<1> SUFFICES ASSUME Inv, RegularInv, MeasureCab PROVE RegularInv'
  OBVIOUS
<1>1. pc = "scan" /\ pc' = "scan" /\ i' = i + 1 /\ cab_cnt' = cab_cnt /\ file' = file
  BY DEF MeasureCab, input
<1>2. RegularLoopInv' /\ Placement' /\ FullBlocks'
  <2>1. 1 .. Len(tmp') - 1 = {}
    BY DEF Inv, BeforeLoopInv, MeasureCab, loop
  <2> QED BY <1>1, <2>1 DEF RegularLoopInv, Placement, FullBlocks
<1> SUFFICES ASSUME Regular' PROVE RegularTableInv'
  BY <1>2 DEF RegularInv, RegularTableInv
<1>3. Regular /\ total_blk_sz + file[i] < Word
  <2>1. wrapped \in BOOLEAN /\ total_blk_sz \in Nat
    BY DEF Inv, TypeOK
  <2>2. i \in CabName /\ file[i] \in Nat
    BY DEF MeasureCab, Exists, Inv, TypeOK, NoFile
  <2>3. NoEmptyCab /\ ~wrapped'
    BY <1>1 DEF Regular, NoEmptyCab, Cab, Exists
  <2>4. ~wrapped /\ ~(total_blk_sz + file[i] >= Word)
    BY <2>3 DEF MeasureCab
  <2> QED BY <2>1, <2>2, <2>3, <2>4 DEF Regular
<1>4. i \in Nat /\ i < cab_cnt /\ cab_cnt \in Nat /\ file[i] \in Nat /\ file[i] > 0
  <2>1. i \in CabName /\ i < cab_cnt /\ Exists(i)
    BY DEF MeasureCab, Exists
  <2>2. i \in Nat /\ cab_cnt \in Nat
    BY DEF Inv, TypeOK
  <2>3. file[i] > 0
    BY <1>3, <2>1, <2>2 DEF Regular, NoEmptyCab, Cab
  <2>4. file[i] \in Nat
    BY <2>1 DEF Exists, Inv, TypeOK, NoFile
  <2> QED BY <2>1, <2>2, <2>3, <2>4
<1>5. Measured = i /\ Measured' = i + 1
  BY <1>1 DEF Measured
<1>6. /\ total_blk_sz = start[i] /\ cab_blk_off = start[i] /\ start[i] \in Nat
      /\ start \in [0 .. i -> Nat]
      /\ \A c \in 0 .. i - 1 :
           s_cab[c].blk_off = start[c] /\ s_cab[c].blk_sz = file[c] /\ file[c] > 0
      /\ \A c \in 0 .. i : start[c] <= start[i]
  BY <1>1, <1>3, <1>4, <1>5 DEF RegularInv, RegularTableInv, Inv, TableInv
<1>7. /\ (start[i] + file[i]) % Word = start[i] + file[i]
      /\ (start[i] + file[i]) % OffWord = start[i] + file[i]
      /\ start[i] % EntryWord = start[i] /\ file[i] % EntryWord = file[i]
  <2>1. /\ start[i] + file[i] \in 0 .. Word - 1
        /\ start[i] + file[i] \in 0 .. OffWord - 1
        /\ start[i] \in 0 .. EntryWord - 1 /\ file[i] \in 0 .. EntryWord - 1
    BY <1>3, <1>4, <1>6, Widths
  <2>2. Word \in Nat \ {0} /\ OffWord \in Nat \ {0} /\ EntryWord \in Nat \ {0}
    BY Widths
  <2> QED BY <2>1, <2>2, NoWrap, Zenon
<1>8. total_blk_sz' = start[i] + file[i] /\ cab_blk_off' = start[i] + file[i]
  BY <1>6, <1>7 DEF MeasureCab, U32
<1>9. /\ s_cab'[i].blk_off = start[i] /\ s_cab'[i].blk_sz = file[i]
      /\ \A c \in 0 .. i - 1 : s_cab'[c] = s_cab[c]
  <2>1. s_cab'[i] = Entry(i, cab_blk_off) /\ \A c \in 0 .. i - 1 : s_cab'[c] = s_cab[c]
    BY <1>4 DEF MeasureCab
  <2>2. Entry(i, cab_blk_off).blk_off = start[i] /\ Entry(i, cab_blk_off).blk_sz = file[i]
    BY <1>6, <1>7 DEF Entry
  <2> QED BY <2>1, <2>2
<1>10. start'[i + 1] = start[i] + file[i] /\ \A c \in 0 .. i : start'[c] = start[c]
  BY <1>4, <1>9 DEF MeasureCab
<1>11. \A c \in 0 .. i :
         s_cab'[c].blk_off = start'[c] /\ s_cab'[c].blk_sz = file'[c] /\ file'[c] > 0
  <2> SUFFICES ASSUME NEW c \in 0 .. i
               PROVE  /\ s_cab'[c].blk_off = start'[c] /\ s_cab'[c].blk_sz = file[c]
                      /\ file[c] > 0
    BY <1>1
  <2>1. CASE c = i
    BY <1>4, <1>9, <1>10, <2>1
  <2>2. CASE c # i
    <3>1. c \in 0 .. i - 1
      BY <1>4, <2>2
    <3> QED BY <1>6, <1>9, <1>10, <3>1
  <2> QED BY <2>1, <2>2
<1>12. \A c \in 0 .. i + 1 : start'[c] <= start'[i + 1]
  <2> SUFFICES ASSUME NEW c \in 0 .. i + 1 PROVE start'[c] <= start'[i + 1]
    OBVIOUS
  <2>1. CASE c = i + 1
    BY <1>4, <1>6, <1>10, <2>1
  <2>2. CASE c # i + 1
    <3>1. c \in 0 .. i /\ start[c] \in Nat
      BY <1>4, <1>6, <2>2
    <3> QED BY <1>4, <1>6, <1>10, <3>1
  <2> QED BY <2>1, <2>2
<1>13. Measured' - 1 = i
  BY <1>4, <1>5
<1> QED BY <1>1, <1>5, <1>8, <1>10, <1>11, <1>12, <1>13 DEF RegularTableInv

(* The blocks announced hold all the data; none of it is read yet.         *)
LEMMA CountBlocksRegular == Inv /\ RegularInv /\ CountBlocks => RegularInv'
<1> SUFFICES ASSUME Inv, RegularInv, CountBlocks PROVE RegularInv'
  OBVIOUS
<1>1. /\ pc = "scan" /\ pc' = "loop" /\ i' = 0 /\ cab_cnt' = cab_cnt /\ file' = file
      /\ wrapped' = wrapped /\ start' = start /\ s_cab' = s_cab
      /\ total_blk_sz' = total_blk_sz /\ blk_cnt' = BlocksFor(total_blk_sz)
      /\ tmp' = tmp /\ j' = j /\ read_off' = read_off /\ cab_blk_off' = 0
  BY DEF CountBlocks, input, scan
<1>2. tmp = <<>> /\ j = 0 /\ read_off = 0 /\ total_blk_sz \in Nat
  BY <1>1 DEF Inv, BeforeLoopInv, TypeOK
<1>3. Regular' => Regular
  BY <1>1 DEF Regular, NoEmptyCab, Cab, Exists
<1>4. i = cab_cnt /\ Measured' = i /\ Measured = i
  BY <1>1 DEF Inv, TableInv, TypeOK, Measured, CountBlocks
<1>5. RegularTableInv'
  BY <1>1, <1>3, <1>4 DEF RegularTableInv, RegularInv
<1>6. RegularLoopInv'
  <2>1. total_blk_sz' <= blk_cnt' * BlockSize
    BY <1>1, <1>2, BlocksForCover
  <2>2. InLoop' => Cursor' = (i' * BlockSize) + read_off'
    <3> SUFFICES ASSUME InLoop' PROVE Cursor' = (i' * BlockSize) + read_off'
      OBVIOUS
    <3>1. j' < cab_cnt'
      BY CountBlocksInv DEF Inv, LoopInv
    <3>2. start[0] = 0
      BY <1>1 DEF Inv, TableInv
    <3>3. Cursor' = start[0] + 0
      BY <1>1, <1>2, <3>1 DEF Cursor
    <3>4. (i' * BlockSize) + read_off' = 0
      BY <1>1, <1>2
    <3> QED BY <3>2, <3>3, <3>4
  <2>3. Len(tmp') = 0
    BY <1>1, <1>2
  <2> QED BY <1>1, <2>1, <2>2, <2>3 DEF RegularLoopInv
<1>7. Placement'
  <2>1. 1 .. Len(tmp') = {} /\ 0 .. read_off' - 1 = {}
    BY <1>1, <1>2
  <2> QED BY <2>1 DEF Placement, InPlace
<1>8. FullBlocks'
  <2>1. 1 .. Len(tmp') - 1 = {}
    BY <1>1, <1>2
  <2> QED BY <2>1 DEF FullBlocks
<1> QED BY <1>5, <1>6, <1>7, <1>8 DEF RegularInv

-----------------------------------------------------------------------------
(* The block loop.                                                         *)

(* What RegularInv says to a turn of the loop: every cab has bytes left to *)
(* read, and the cursor is where the block being filled ends.              *)
LEMMA RegularFacts ==
  ASSUME Inv, RegularInv, Regular, InLoop
  PROVE  /\ start \in [0 .. cab_cnt -> Nat] /\ i \in Nat /\ read_off \in Nat
         /\ \A c \in 0 .. cab_cnt - 1 :
              /\ s_cab[c].blk_off = start[c] /\ s_cab[c].blk_sz \in Nat \ {0}
              /\ start[c + 1] = start[c] + s_cab[c].blk_sz
         /\ \A c \in 0 .. cab_cnt : start[c] <= start[cab_cnt]
         /\ Cursor = start[j] + cab_blk_off
         /\ Cursor = (i * BlockSize) + read_off
         /\ Rest > 0
         /\ Len(tmp) = i
<1>1. pc = "loop" /\ Measured = cab_cnt
  BY DEF InLoop, Measured
<1>2. /\ j \in 0 .. cab_cnt - 1 /\ Rest \in Nat /\ (cab_blk_off > 0 => Rest > 0)
      /\ cab_blk_off \in Nat /\ cab_cnt \in Nat
  BY LoopFacts
<1>3. start \in [0 .. cab_cnt -> Nat] /\ i \in Nat /\ read_off \in Nat
  BY <1>1 DEF Inv, TableInv, TypeOK
<1>4. \A c \in 0 .. cab_cnt - 1 :
        /\ s_cab[c].blk_off = start[c] /\ s_cab[c].blk_sz \in Nat \ {0}
        /\ start[c + 1] = start[c] + s_cab[c].blk_sz
  <2> SUFFICES ASSUME NEW c \in 0 .. cab_cnt - 1
               PROVE  /\ s_cab[c].blk_off = start[c] /\ s_cab[c].blk_sz \in Nat \ {0}
                      /\ start[c + 1] = start[c] + s_cab[c].blk_sz
    OBVIOUS
  <2>1. s_cab[c].blk_sz \in Nat /\ start[c + 1] = start[c] + s_cab[c].blk_sz
    BY <1>1 DEF Inv, TableInv
  <2>2. s_cab[c].blk_off = start[c] /\ s_cab[c].blk_sz = file[c] /\ file[c] > 0
    BY <1>1 DEF RegularInv, RegularTableInv
  <2> QED BY <2>1, <2>2
<1>5. \A c \in 0 .. cab_cnt : start[c] <= start[cab_cnt]
  BY <1>1 DEF RegularInv, RegularTableInv
<1>6. Cursor = start[j] + cab_blk_off
  BY <1>2 DEF Cursor
<1>7. Cursor = (i * BlockSize) + read_off /\ Len(tmp) = i
  BY <1>1 DEF RegularInv, RegularLoopInv
<1>8. Rest > 0
  BY <1>2, <1>4 DEF Rest
<1> QED BY <1>3, <1>4, <1>5, <1>6, <1>7, <1>8

(* A read moves the cursor by the bytes it read.                           *)
LEMMA ReadMoves ==
  ASSUME Inv, InLoop,
         NEW n \in 0 .. Room, NEW off \in Nat,
         Read(n, off, Room - n, Held + n),
         \/ off = 0 /\ n = Rest
         \/ off = cab_blk_off + n /\ n = Room /\ off > 0 /\ off < s_cab[j].blk_sz
  PROVE  Cursor' = Cursor + n /\ j' \in 0 .. cab_cnt
<1>1. /\ j \in 0 .. cab_cnt - 1 /\ cab_cnt \in Nat /\ cab_blk_off \in Nat
      /\ s_cab[j].blk_sz \in Nat /\ Room \in Nat /\ Rest \in Nat
  BY LoopFacts
<1>2. /\ start \in [0 .. cab_cnt -> Nat] /\ start[j + 1] = start[j] + s_cab[j].blk_sz
      /\ start[j] \in Nat
  <2>1. Measured = cab_cnt /\ pc = "loop"
    BY DEF InLoop, Measured
  <2>2. TableInv
    BY DEF Inv
  <2>3. /\ start \in [0 .. Measured -> Nat]
        /\ \A c \in 0 .. Measured - 1 : start[c + 1] = start[c] + s_cab[c].blk_sz
    BY <2>1, <2>2 DEF TableInv
  <2>4. j \in 0 .. Measured /\ j \in 0 .. Measured - 1
    BY <1>1, <2>1
  <2> QED BY <2>1, <2>3, <2>4
<1>3. /\ start' = start /\ cab_cnt' = cab_cnt /\ cab_blk_off' = off
      /\ j' = IF off <= 0 THEN j + 1 ELSE j
  BY DEF Read, scan
<1>4. Cursor = start[j] + cab_blk_off
  BY <1>1 DEF Cursor
<1>5. CASE off = 0
  <2>1. j' = j + 1
    BY <1>3, <1>5
  <2>2. Cursor' = IF j + 1 < cab_cnt THEN start[j + 1] + 0 ELSE start[cab_cnt]
    BY <1>3, <1>5, <2>1, Zenon DEF Cursor
  <2>3. j + 1 \in 0 .. cab_cnt /\ (j + 1 < cab_cnt \/ j + 1 = cab_cnt)
    BY <1>1
  <2>4. start[j + 1] \in Nat
    BY <1>2, <2>3
  <2>5. Cursor' = start[j + 1]
    BY <2>2, <2>3, <2>4
  <2>6. n = s_cab[j].blk_sz - cab_blk_off
    BY <1>5 DEF Rest
  <2>7. Cursor' = Cursor + n
    <3>1. start[j + 1] = start[j] + s_cab[j].blk_sz /\ start[j] \in Nat
      BY <1>2
    <3>2. cab_blk_off \in Nat /\ s_cab[j].blk_sz \in Nat
      BY <1>1
    <3> QED BY <1>4, <2>5, <2>6, <3>1, <3>2
  <2> QED BY <2>1, <2>3, <2>7
<1>6. CASE off # 0
  <2>1. j' = j /\ off = cab_blk_off + n
    BY <1>3, <1>6
  <2>2. Cursor' = start[j] + off
    BY <1>1, <1>3, <2>1 DEF Cursor
  <2>3. Cursor' = Cursor + n
    BY <1>1, <1>2, <1>4, <2>1, <2>2
  <2> QED BY <1>1, <2>1, <2>3
<1> QED BY <1>5, <1>6

(* The bytes a read adds lie behind those of the block before it.          *)
LEMMA FilledInPlace ==
  ASSUME Inv, RegularInv, Regular, InLoop,
         NEW n \in 0 .. Room, n <= Rest
  PROVE  InPlace(Filled(n), read_off + n, i * BlockSize)
<1>1. /\ j \in 0 .. cab_cnt - 1 /\ cab_cnt \in Nat /\ cab_blk_off \in Nat
      /\ s_cab[j].blk_sz \in Nat /\ infp[j] = cab_blk_off
      /\ Room \in 1 .. BlockSize /\ Held \in 0 .. BlockSize
      /\ Held + Room = BlockSize /\ read_off = Held
  BY LoopFacts
<1>2. /\ start[j] \in Nat /\ s_cab[j].blk_off = start[j] /\ i \in Nat
      /\ start[j] + cab_blk_off = (i * BlockSize) + read_off
  BY <1>1, RegularFacts
<1>3. InPlace(dec_buf, read_off, i * BlockSize)
  BY DEF RegularInv, Placement, InLoop
<1>4. read_off + n <= BlockSize /\ n \in Nat /\ n <= s_cab[j].blk_sz - cab_blk_off
  BY <1>1 DEF Rest
<1> SUFFICES ASSUME NEW o \in 0 .. (read_off + n) - 1
             PROVE  /\ Filled(n)[o][1] \in Cab
                    /\ Filled(n)[o][2] \in 0 .. s_cab[Filled(n)[o][1]].blk_sz - 1
                    /\ s_cab[Filled(n)[o][1]].blk_off + Filled(n)[o][2]
                         = (i * BlockSize) + o
  BY DEF InPlace
<1>5. o \in 0 .. BlockSize - 1
  BY <1>1, <1>4
<1>6. CASE o < read_off
  <2>1. Filled(n)[o] = dec_buf[o]
    BY <1>1, <1>5, <1>6 DEF Filled
  <2>2. o \in 0 .. read_off - 1
    BY <1>1, <1>5, <1>6
  <2> QED BY <1>3, <2>1, <2>2 DEF InPlace
<1>7. CASE o >= read_off
  <2>1. o < read_off + n
    BY <1>1, <1>4
  <2>2. Filled(n)[o] = <<j, cab_blk_off + (o - read_off)>>
    BY <1>1, <1>5, <1>7, <2>1 DEF Filled
  <2>3. cab_blk_off + (o - read_off) \in 0 .. s_cab[j].blk_sz - 1
    BY <1>1, <1>4, <1>5, <1>7, <2>1
  <2>4. start[j] + (cab_blk_off + (o - read_off)) = (i * BlockSize) + o
    <3>1. (i * BlockSize) \in Nat
      BY <1>2
    <3> QED BY <1>1, <1>2, <1>5, <3>1
  <2> QED BY <1>1, <1>2, <2>2, <2>3, <2>4 DEF Cab
<1> QED BY <1>1, <1>5, <1>6, <1>7

(* A turn of the loop appends what it read to the block and, unless there  *)
(* is room for more, the block to .blocks: then it is full or the last.    *)
LEMMA ReadRegular ==
  ASSUME Inv, RegularInv, InLoop,
         NEW n \in 0 .. Room, NEW off \in Nat,
         Read(n, off, Room - n, Held + n),
         \/ off = 0 /\ n = Rest
         \/ off = cab_blk_off + n /\ n = Room /\ off > 0 /\ off < s_cab[j].blk_sz
  PROVE  RegularInv'
<1>1. /\ pc = "loop" /\ pc' = "loop" /\ cab_cnt' = cab_cnt /\ start' = start
      /\ s_cab' = s_cab /\ blk_cnt' = blk_cnt /\ total_blk_sz' = total_blk_sz
      /\ file' = file /\ wrapped' = wrapped /\ dec_buf' = Filled(n)
  BY DEF Read, input, scan, InLoop
<1>2. Regular' => Regular
  BY <1>1 DEF Regular, NoEmptyCab, Cab, Exists
<1>3. Measured = cab_cnt /\ Measured' = cab_cnt
  BY <1>1 DEF Measured
<1>4. RegularTableInv'
  BY <1>1, <1>2, <1>3 DEF RegularTableInv, RegularInv
<1> SUFFICES ASSUME Regular' PROVE RegularLoopInv' /\ Placement' /\ FullBlocks'
  BY <1>4 DEF RegularInv, RegularLoopInv, Placement, FullBlocks
<1>5. Regular
  BY <1>2
<1>6. /\ i \in Nat /\ read_off \in Nat /\ Len(tmp) = i
      /\ Cursor = (i * BlockSize) + read_off /\ Rest > 0
  BY <1>5, RegularFacts
<1>7. /\ Room \in 1 .. BlockSize /\ Held + Room = BlockSize /\ read_off = Held
      /\ Held \in Nat /\ j < cab_cnt /\ cab_cnt \in Nat /\ Rest \in Nat
      /\ cab_blk_off \in Nat /\ s_cab[j].blk_sz \in Nat
  BY LoopFacts
<1>8. n > 0 /\ n <= Rest
  BY <1>6, <1>7 DEF Rest
<1>9. Cursor' = Cursor + n /\ j' \in 0 .. cab_cnt
  BY ReadMoves
<1>10. InPlace(Filled(n), read_off + n, i * BlockSize)
  BY <1>5, <1>8, FilledInPlace
<1>11. SUFFICES /\ RegularLoopInv'
                /\ \A b \in 1 .. Len(tmp') :
                     InPlace(tmp'[b].data, tmp'[b].dec_sz, (b - 1) * BlockSize)
                /\ InPlace(dec_buf', read_off', i' * BlockSize)
  <2>1. RegularLoopInv' => FullBlocks'
    <3>1. Len(tmp') \in Nat
      <4>1. \E S : tmp' \in Seq(S)
        BY ReadInv DEF Inv, TypeOK
      <4> QED BY <4>1
    <3> QED BY <1>1, <3>1 DEF RegularLoopInv, FullBlocks
  <2> QED BY <1>1, <2>1 DEF Placement, InPlace, Cab
<1>12. \A b \in 1 .. Len(tmp) :
         /\ InPlace(tmp[b].data, tmp[b].dec_sz, (b - 1) * BlockSize)
         /\ tmp[b].dec_sz = BlockSize
  BY <1>1, <1>5, <1>7 DEF RegularInv, Placement, RegularLoopInv
<1>13. total_blk_sz' <= blk_cnt' * BlockSize
  BY <1>1, <1>5 DEF RegularInv, RegularLoopInv
<1>14. CASE j' < cab_cnt' /\ HasRoom(Room - n)
  <2>1. tmp' = tmp /\ i' = i /\ read_off' = read_off + n
    BY <1>1, <1>14 DEF Read
  <2>2. Cursor' = (i' * BlockSize) + read_off'
    <3>1. i * BlockSize \in Nat
      BY <1>6
    <3> QED BY <1>6, <1>9, <2>1, <3>1
  <2>3. RegularLoopInv'
    BY <1>1, <1>6, <1>12, <1>13, <2>1, <2>2 DEF RegularLoopInv
  <2> QED BY <1>1, <1>10, <1>12, <2>1, <2>3
<1>15. CASE ~(j' < cab_cnt' /\ HasRoom(Room - n))
  <2> DEFINE new == [dec_sz |-> Held + n, data |-> Filled(n)]
  <2>1. tmp' = Append(tmp, new) /\ i' = i + 1 /\ read_off' = 0
    BY <1>1, <1>15 DEF Read
  <2>2. /\ Len(tmp') = i + 1 /\ tmp'[i + 1] = new
        /\ \A b \in 1 .. Len(tmp) : tmp'[b] = tmp[b]
    <3>1. \E S : tmp \in Seq(S)
      BY DEF Inv, TypeOK
    <3> HIDE DEF new
    <3> QED BY <1>6, <2>1, <3>1
  <2>3. j' < cab_cnt => Held + n = BlockSize
    <3>1. j' < cab_cnt => ~HasRoom(Room - n)
      BY <1>1, <1>15
    <3> QED BY <1>7, <1>8, <3>1 DEF HasRoom
  <2>4. \A b \in 1 .. Len(tmp') :
          InPlace(tmp'[b].data, tmp'[b].dec_sz, (b - 1) * BlockSize)
    <3> SUFFICES ASSUME NEW b \in 1 .. Len(tmp')
                 PROVE  InPlace(tmp'[b].data, tmp'[b].dec_sz, (b - 1) * BlockSize)
      OBVIOUS
    <3>1. CASE b \in 1 .. Len(tmp)
      BY <1>12, <2>2, <3>1
    <3>2. CASE b = i + 1
      <4>1. b - 1 = i /\ tmp'[b].data = Filled(n) /\ tmp'[b].dec_sz = read_off + n
        BY <1>6, <1>7, <2>2, <3>2
      <4> QED BY <1>10, <4>1
    <3> QED BY <1>6, <2>2, <3>1, <3>2
  <2>5. InPlace(dec_buf', read_off', i' * BlockSize)
    BY <2>1 DEF InPlace
  <2>6. \A b \in 1 .. Len(tmp') :
          b < Len(tmp') \/ j' < cab_cnt' => tmp'[b].dec_sz = BlockSize
    <3> SUFFICES ASSUME NEW b \in 1 .. Len(tmp'), b < Len(tmp') \/ j' < cab_cnt'
                 PROVE  tmp'[b].dec_sz = BlockSize
      OBVIOUS
    <3>1. CASE b \in 1 .. Len(tmp)
      BY <1>12, <2>2, <3>1
    <3>2. CASE b = i + 1
      <4>1. tmp'[b].dec_sz = Held + n
        BY <2>2, <3>2
      <4>2. j' < cab_cnt
        BY <1>1, <1>6, <2>2, <3>2
      <4> QED BY <2>3, <4>1, <4>2
    <3> QED BY <1>6, <2>2, <3>1, <3>2
  <2>7. InLoop' => Cursor' = (i' * BlockSize) + read_off'
    <3> SUFFICES ASSUME InLoop' PROVE Cursor' = (i' * BlockSize) + read_off'
      OBVIOUS
    <3>1. j' < cab_cnt
      BY <1>1, ReadInv DEF Inv, LoopInv
    <3>2. i \in Nat /\ i' = i + 1 /\ read_off' = 0
      BY <1>6, <2>1
    <3>3. (i' * BlockSize) + read_off' = (i * BlockSize) + BlockSize
          /\ i * BlockSize \in Nat
      <4> HIDE DEF new
      <4> QED BY <3>2
    <3>4. Held + n = BlockSize
      BY <2>3, <3>1
    <3>5. Cursor' = ((i * BlockSize) + Held) + n
      BY <1>6, <1>7, <1>9
    <3> HIDE DEF new
    <3> QED BY <1>7, <3>3, <3>4, <3>5
  <2>8. RegularLoopInv'
    BY <1>1, <1>13, <2>1, <2>2, <2>6, <2>7 DEF RegularLoopInv
  <2> QED BY <2>4, <2>5, <2>8
<1> QED BY <1>14, <1>15

(* After the loop the table, the blocks and the counters stay as they are. *)
LEMMA FinishRegular ==
  ASSUME Inv, RegularInv, WriteHeader \/ CopyBlock \/ Return \/ UNCHANGED vars
  PROVE  RegularInv'
<1>1. /\ cab_cnt' = cab_cnt /\ start' = start /\ s_cab' = s_cab /\ j' = j /\ i' = i
      /\ blk_cnt' = blk_cnt /\ total_blk_sz' = total_blk_sz /\ file' = file
      /\ wrapped' = wrapped /\ dec_buf' = dec_buf /\ tmp' = tmp
      /\ read_off' = read_off /\ cab_blk_off' = cab_blk_off
  BY DEF WriteHeader, CopyBlock, Return, vars, input, scan, loop
<1>2. \/ pc' = pc
      \/ pc = "loop" /\ i >= blk_cnt /\ pc' = "copy"
      \/ pc = "copy" /\ pc' = "done"
  BY DEF WriteHeader, CopyBlock, Return, vars
<1>3. Regular' <=> Regular
  BY <1>1 DEF Regular, NoEmptyCab, Cab, Exists
<1>4. RegularTableInv'
  <2>1. Measured' = Measured
    BY <1>1, <1>2 DEF Measured
  <2> QED BY <1>1, <1>2, <1>3, <2>1 DEF RegularInv, RegularTableInv
<1>5. RegularLoopInv'
  <2>1. (InLoop' => InLoop) /\ Cursor' = Cursor
    BY <1>1, <1>2 DEF InLoop, Cursor
  <2> QED BY <1>1, <1>2, <1>3, <2>1 DEF RegularInv, RegularLoopInv
<1>6. Placement'
  <2>1. /\ Placement
        /\ pc' \in {"loop", "copy", "done"} => pc \in {"loop", "copy", "done"}
    BY <1>2 DEF RegularInv
  <2> SUFFICES ASSUME Regular, Regular', pc' \in {"loop", "copy", "done"} PROVE Placement'
    BY <1>3 DEF Placement
  <2>2. /\ \A b \in 1 .. Len(tmp) :
             InPlace(tmp[b].data, tmp[b].dec_sz, (b - 1) * BlockSize)
        /\ InPlace(dec_buf, read_off, i * BlockSize)
    BY <2>1 DEF Placement
  <2> QED BY <1>1, <2>2 DEF Placement, InPlace, Cab
<1>7. FullBlocks'
  BY <1>1, <1>3 DEF RegularInv, FullBlocks
<1> QED BY <1>4, <1>5, <1>6, <1>7 DEF RegularInv

(* Every step of the pack keeps RegularInv.                                *)
LEMMA NextRegular == Inv /\ RegularInv /\ [Next]_vars => RegularInv'
<1> SUFFICES ASSUME Inv, RegularInv, [Next]_vars PROVE RegularInv'
  OBVIOUS
<1>1. CASE ReadHdr
  BY <1>1, ReadHdrRegular
<1>2. CASE MeasureCab
  BY <1>2, MeasureCabRegular
<1>3. CASE CountBlocks
  BY <1>3, CountBlocksRegular
<1>4. CASE CabMissing \/ NoResources \/ Abort
  <2>1. pc' = "failed" /\ tmp' = tmp /\ cab_cnt' = cab_cnt /\ file' = file
        /\ wrapped' = wrapped
    BY <1>4 DEF CabMissing, NoResources, Abort, input, scan, loop
  <2>2. FullBlocks'
    BY <2>1 DEF RegularInv, FullBlocks, Regular, NoEmptyCab, Cab, Exists
  <2> QED BY <2>1, <2>2 DEF RegularInv, RegularTableInv, RegularLoopInv, Placement
<1>5. CASE TakeRest \/ TopUp \/ TakeBlock
  <2>1. InLoop
    BY <1>5, BranchesRead
  <2>2. PICK n \in 0 .. Room, off \in Nat :
          /\ Read(n, off, Room - n, Held + n)
          /\ \/ off = 0 /\ n = Rest
             \/ off = cab_blk_off + n /\ n = Room /\ off > 0 /\ off < s_cab[j].blk_sz
    BY <1>5, BranchesRead
  <2> QED BY <2>1, <2>2, ReadRegular
<1>6. CASE WriteHeader \/ CopyBlock \/ Return \/ Terminated \/ UNCHANGED vars
  BY <1>6, FinishRegular DEF Terminated
<1> QED BY <1>1, <1>2, <1>3, <1>4, <1>5, <1>6 DEF Next

-----------------------------------------------------------------------------
(* Results.                                                                *)

(* Before the table is read nothing is claimed of it.                      *)
LEMMA InitRegular == Init => RegularInv
  BY DEF Init, RegularInv, RegularTableInv, RegularLoopInv, Placement, FullBlocks

(* Inv and RegularInv hold throughout a pack.                              *)
THEOREM RegularHolds == Spec => [](Inv /\ RegularInv)
<1>1. Init => Inv /\ RegularInv
  BY InitInv, InitRegular
<1>2. (Inv /\ RegularInv) /\ [Next]_vars => (Inv /\ RegularInv)'
  BY NextInv, NextRegular
<1> QED BY <1>1, <1>2, PTL DEF Spec

(* Each byte of the blocks and of the block being filled lies where the    *)
(* cab table says, for all sizes of blocks and cabs, when no cab is empty  *)
(* and no size wraps.                                                      *)
THEOREM Placed == Spec => []Placement
<1>1. RegularInv => Placement
  BY DEF RegularInv
<1> QED BY <1>1, RegularHolds, PTL

(* Only the last block is short, on which blb3's reader relies.            *)
THEOREM Full == Spec => []FullBlocks
<1>1. RegularInv => FullBlocks
  BY DEF RegularInv
<1> QED BY <1>1, RegularHolds, PTL

-----------------------------------------------------------------------------
(* The streams.                                                            *)

(* When the blocks of a pack that is not empty are counted there is one.   *)
LEMMA CountBlocksClosed == Inv /\ RegularInv /\ ClosedInv /\ CountBlocks => ClosedInv'
<1> SUFFICES ASSUME Inv, RegularInv, ClosedInv, CountBlocks PROVE ClosedInv'
  OBVIOUS
<1>1. /\ pc = "scan" /\ pc' = "loop" /\ i' = 0 /\ cab_cnt' = cab_cnt /\ file' = file
      /\ wrapped' = wrapped /\ blk_cnt' = BlocksFor(total_blk_sz) /\ j' = j /\ infp' = infp
      /\ format' = format /\ cab_hdr' = cab_hdr /\ open_hdrs' = open_hdrs
  BY DEF CountBlocks, input, scan
<1>2. /\ j = 0 /\ cab_cnt \in Nat /\ total_blk_sz \in Nat /\ i = cab_cnt /\ Measured = i
  BY <1>1 DEF Inv, BeforeLoopInv, TypeOK, TableInv, Measured, CountBlocks
<1>3. ASSUME Regular', i' >= blk_cnt' PROVE cab_cnt = 0
  <2>1. Regular
    BY <1>1, <1>3 DEF Regular, NoEmptyCab, Cab, Exists
  <2>2. total_blk_sz = 0
    <3>1. BlocksFor(total_blk_sz) = 0
      BY <1>1, <1>2, <1>3, BlocksForBound
    <3>2. total_blk_sz <= 0 * BlockSize
      BY <1>2, <3>1, BlocksForCover
    <3> QED BY <1>2, <3>2
  <2>3. total_blk_sz = start[cab_cnt] /\ \A c \in 0 .. cab_cnt : start[c] <= start[cab_cnt]
    BY <1>1, <1>2, <2>1 DEF RegularInv, RegularTableInv
  <2> SUFFICES ASSUME cab_cnt > 0 PROVE FALSE
    BY <1>2
  <2>4. start[1] > 0
    <3>1. 0 \in 0 .. cab_cnt - 1
      BY <1>2
    <3>2. start[0] = 0 /\ start[0 + 1] = start[0] + s_cab[0].blk_sz
      BY <1>1, <1>2, <3>1 DEF Inv, TableInv
    <3>3. s_cab[0].blk_sz \in Nat /\ s_cab[0].blk_sz = file[0] /\ file[0] > 0
      BY <1>1, <1>2, <2>1, <3>1 DEF Inv, TableInv, RegularInv, RegularTableInv
    <3> QED BY <3>2, <3>3
  <2>5. start[1] <= 0
    <3>1. 1 \in 0 .. cab_cnt
      BY <1>2
    <3> QED BY <2>2, <2>3, <3>1
  <2>6. start[1] \in Nat
    BY <1>1, <1>2 DEF Inv, TableInv
  <2> QED BY <2>4, <2>5, <2>6
<1>4. \A c \in 0 .. cab_cnt' - 1 : infp'[c] = Closed <=> c < j'
  BY <1>1, <1>2 DEF Inv, BeforeLoopInv, Closed
<1>5. Measured' = Measured
  BY <1>1, <1>2 DEF Measured
<1>6. open_hdrs' = IF ClosesCabHdr' THEN 0
                   ELSE Cardinality({c \in 0 .. Measured' - 1 : c \in cab_hdr'})
  BY <1>1, <1>5 DEF ClosedInv, ClosesCabHdr
<1> QED BY <1>1, <1>2, <1>3, <1>4, <1>6 DEF ClosedInv

(* A turn of the loop closes the cab it uses up; the one that fills the    *)
(* last block uses up the last cab.                                        *)
LEMMA ReadClosed ==
  ASSUME Inv, RegularInv, ClosedInv, InLoop,
         NEW n \in 0 .. Room, NEW off \in Nat,
         Read(n, off, Room - n, Held + n),
         \/ off = 0 /\ n = Rest
         \/ off = cab_blk_off + n /\ n = Room /\ off > 0 /\ off < s_cab[j].blk_sz
  PROVE  ClosedInv'
<1>1. /\ pc = "loop" /\ pc' = "loop" /\ cab_cnt' = cab_cnt /\ file' = file
      /\ wrapped' = wrapped /\ format' = format /\ open_hdrs' = open_hdrs
      /\ cab_hdr' = cab_hdr /\ blk_cnt' = blk_cnt /\ start' = start /\ cab_blk_off' = off
      /\ s_cab' = s_cab /\ total_blk_sz' = total_blk_sz
      /\ j' = IF off <= 0 THEN j + 1 ELSE j
      /\ infp' = [infp EXCEPT ![j] = IF off <= 0 THEN Closed ELSE infp[j] + n]
  BY DEF Read, input, scan, InLoop
<1>2. /\ Room \in 1 .. BlockSize /\ Held + Room = BlockSize /\ read_off = Held
      /\ Held \in Nat /\ j \in 0 .. cab_cnt - 1 /\ cab_cnt \in Nat /\ Rest \in Nat
      /\ cab_blk_off \in Nat /\ s_cab[j].blk_sz \in Nat
  BY LoopFacts
<1>3. infp \in [0 .. cab_cnt - 1 -> Nat \cup {Closed}]
  BY <1>1 DEF Inv, TableInv, Measured
<1>4. \A c \in 0 .. cab_cnt' - 1 : infp'[c] = Closed <=> c < j'
  <2> SUFFICES ASSUME NEW c \in 0 .. cab_cnt - 1 PROVE infp'[c] = Closed <=> c < j'
    BY <1>1
  <2>1. CASE c = j
    <3>1. infp[j] = cab_blk_off
      BY LoopFacts
    <3>2. infp'[j] = IF off <= 0 THEN Closed ELSE cab_blk_off + n
      BY <1>1, <1>2, <1>3, <3>1
    <3>3. cab_blk_off + n # Closed
      BY <1>2 DEF Closed
    <3> QED BY <1>1, <1>2, <2>1, <3>2, <3>3
  <2>2. CASE c # j
    <3>1. infp'[c] = infp[c]
      BY <1>1, <1>3, <2>2
    <3>2. infp[c] = Closed <=> c < j
      BY <1>1 DEF ClosedInv
    <3> QED BY <1>1, <1>2, <2>2, <3>1, <3>2
  <2> QED BY <2>1, <2>2
<1>5. ASSUME Regular', i' >= blk_cnt' PROVE j' = cab_cnt
  <2>1. Regular
    BY <1>1, <1>5 DEF Regular, NoEmptyCab, Cab, Exists
  <2>2. /\ start \in [0 .. cab_cnt -> Nat] /\ i \in Nat
        /\ \A c \in 0 .. cab_cnt - 1 :
             s_cab[c].blk_sz \in Nat \ {0} /\ start[c + 1] = start[c] + s_cab[c].blk_sz
        /\ \A c \in 0 .. cab_cnt : start[c] <= start[cab_cnt]
        /\ Cursor = (i * BlockSize) + read_off
    BY <2>1, RegularFacts
  <2>3. Rest > 0
    BY <2>1, RegularFacts
  <2>4. Cursor' = Cursor + n /\ j' \in 0 .. cab_cnt
    BY ReadMoves
  <2> SUFFICES ASSUME j' < cab_cnt PROVE FALSE
    BY <1>2, <2>4
  <2>5. i' = i + 1 /\ i + 1 = blk_cnt /\ ~HasRoom(Room - n)
    <3>1. i < blk_cnt /\ blk_cnt \in Nat
      BY DEF InLoop, Inv, TypeOK
    <3>2. CASE HasRoom(Room - n)
      <4>1. i' = i
        BY <3>2 DEF Read
      <4> QED BY <1>1, <1>5, <2>2, <3>1, <4>1
    <3>3. CASE ~HasRoom(Room - n)
      <4>1. i' = i + 1
        BY <3>3 DEF Read
      <4> QED BY <1>1, <1>5, <2>2, <3>1, <3>3, <4>1
    <3> QED BY <3>2, <3>3
  <2>6. Held + n = BlockSize
    <3>1. n > 0
      BY <1>2, <2>3
    <3> QED BY <1>2, <2>5, <3>1 DEF HasRoom
  <2>7. Cursor' = blk_cnt * BlockSize
    <3>1. Cursor' = (i * BlockSize) + BlockSize
      <4>1. i * BlockSize \in Nat
        BY <2>2
      <4>2. Cursor' = ((i * BlockSize) + Held) + n
        BY <1>2, <2>2, <2>4
      <4> QED BY <1>2, <2>6, <4>1, <4>2
    <3>2. i \in Nat /\ blk_cnt = i + 1
      BY <2>2, <2>5
    <3>3. blk_cnt * BlockSize = (i * BlockSize) + BlockSize
      BY <3>2
    <3> QED BY <3>1, <3>3
  <2>8. start[cab_cnt] <= blk_cnt * BlockSize
    BY <1>1, <2>1 DEF RegularInv, RegularTableInv, RegularLoopInv, Measured
  <2>9. Cursor' < start[j' + 1]
    <3>1. j' \in 0 .. cab_cnt - 1 /\ j' \in 0 .. cab_cnt
      BY <1>2, <2>4
    <3>2. /\ start[j' + 1] = start[j'] + s_cab[j'].blk_sz /\ s_cab[j'].blk_sz \in Nat \ {0}
          /\ start[j'] \in Nat
      <4>1. start[j'] \in Nat
        BY <2>2, <3>1
      <4>2. start[j' + 1] = start[j'] + s_cab[j'].blk_sz /\ s_cab[j'].blk_sz \in Nat \ {0}
        BY <2>2, <3>1
      <4> QED BY <4>1, <4>2
    <3>3. off < s_cab[j'].blk_sz
      BY <1>1, <1>2, <3>2
    <3>4. Cursor' = start[j'] + off
      BY <1>1 DEF Cursor
    <3> QED BY <3>2, <3>3, <3>4
  <2>10. start[j' + 1] <= start[cab_cnt] /\ start[j' + 1] \in Nat /\ start[cab_cnt] \in Nat
    <3>1. j' \in Nat /\ j' < cab_cnt /\ cab_cnt \in Nat
      BY <1>2, <2>4
    <3>2. \A a, b \in Nat : a < b => a + 1 \in 0 .. b /\ b \in 0 .. b
      OBVIOUS
    <3>3. j' + 1 \in 0 .. cab_cnt /\ cab_cnt \in 0 .. cab_cnt
      BY <3>1, <3>2, Zenon
    <3>4. start[j' + 1] \in Nat /\ start[cab_cnt] \in Nat
      BY <2>2, <3>3
    <3>5. start[j' + 1] <= start[cab_cnt]
      BY <2>2, <3>3
    <3> QED BY <3>4, <3>5
  <2>11. Cursor' \in Int /\ blk_cnt * BlockSize \in Int
    <3>1. blk_cnt \in Nat
      BY DEF Inv, TypeOK
    <3>2. blk_cnt * BlockSize \in Int
      BY <3>1
    <3> QED BY <2>7, <3>2
  <2> QED BY <2>7, <2>8, <2>9, <2>10, <2>11
<1>6. open_hdrs' = IF ClosesCabHdr' THEN 0
                   ELSE Cardinality({c \in 0 .. Measured' - 1 : c \in cab_hdr'})
  BY <1>1 DEF ClosedInv, ClosesCabHdr, Measured
<1> QED BY <1>1, <1>4, <1>5, <1>6 DEF ClosedInv

(* A cab that is measured adds its .cabN.hdr stream to those left open.    *)
LEMMA MeasureCabClosed == Inv /\ ClosedInv /\ MeasureCab => ClosedInv'
<1> SUFFICES ASSUME Inv, ClosedInv, MeasureCab PROVE ClosedInv'
  OBVIOUS
<1> DEFINE H(n) == {c \in 0 .. n - 1 : c \in cab_hdr}
<1>1. /\ pc = "scan" /\ pc' = "scan" /\ i' = i + 1 /\ i \in Nat
      /\ format' = format /\ cab_hdr' = cab_hdr
      /\ open_hdrs' = open_hdrs + (IF LeftOpen(i) THEN 1 ELSE 0)
  BY DEF MeasureCab, input, Inv, TypeOK
<1>2. Measured = i /\ Measured' = i + 1
  BY <1>1 DEF Measured
<1>3. IsFiniteSet(H(i)) /\ Cardinality(H(i)) \in Nat
  <2>1. IsFiniteSet(0 .. i - 1) /\ H(i) \subseteq 0 .. i - 1
    BY <1>1, FS_Interval
  <2> QED BY <2>1, FS_Subset, FS_CardinalityType
<1>4. CASE ClosesCabHdr
  <2>1. open_hdrs = 0 /\ ClosesCabHdr'
    BY <1>1, <1>4 DEF ClosedInv, ClosesCabHdr
  <2>2. open_hdrs' = 0
    BY <1>1, <1>4, <2>1 DEF LeftOpen
  <2> QED BY <1>1, <2>1, <2>2 DEF ClosedInv
<1>5. CASE ~ClosesCabHdr
  <2>1. open_hdrs = Cardinality(H(i)) /\ ~ClosesCabHdr'
    BY <1>1, <1>2, <1>5 DEF ClosedInv, ClosesCabHdr
  <2>2. open_hdrs' = Cardinality(H(i + 1))
    <3>1. CASE i \in cab_hdr
      <4>1. H(i + 1) = H(i) \cup {i} /\ i \notin H(i)
        BY <1>1, <3>1
      <4>2. Cardinality(H(i + 1)) = Cardinality(H(i)) + 1
        BY <1>3, <4>1, FS_AddElement
      <4>3. open_hdrs' = open_hdrs + 1
        BY <1>1, <1>5, <3>1 DEF LeftOpen
      <4> QED BY <2>1, <4>2, <4>3, Zenon
    <3>2. CASE i \notin cab_hdr
      <4>1. H(i + 1) = H(i)
        BY <1>1, <3>2
      <4>2. open_hdrs' = open_hdrs + 0
        BY <1>1, <3>2 DEF LeftOpen
      <4>3. open_hdrs' = open_hdrs
        BY <1>3, <2>1, <4>2
      <4> QED BY <2>1, <4>1, <4>3, Zenon
    <3> QED BY <3>1, <3>2
  <2>3. open_hdrs' = Cardinality({c \in 0 .. Measured' - 1 : c \in cab_hdr'})
    BY <1>1, <1>2, <2>2
  <2> QED BY <1>1, <2>1, <2>3 DEF ClosedInv
<1> QED BY <1>4, <1>5

(* Nothing is open before the first cab is measured.                       *)
LEMMA ReadHdrClosed == Inv /\ ClosedInv /\ ReadHdr => ClosedInv'
<1> SUFFICES ASSUME Inv, ClosedInv, ReadHdr PROVE ClosedInv'
  OBVIOUS
<1>1. pc' = "scan" /\ i' = 0 /\ open_hdrs' = 0
  BY DEF ReadHdr, ClosedInv, Inv, BeforeLoopInv
<1>2. {c \in 0 .. Measured' - 1 : c \in cab_hdr'} = {}
  BY <1>1 DEF Measured
<1> QED BY <1>1, <1>2, FS_EmptySet DEF ClosedInv

(* Every step of the pack keeps ClosedInv.                                 *)
LEMMA NextClosed == Inv /\ RegularInv /\ ClosedInv /\ [Next]_vars => ClosedInv'
<1> SUFFICES ASSUME Inv, RegularInv, ClosedInv, [Next]_vars PROVE ClosedInv'
  OBVIOUS
<1>1. CASE CabMissing \/ NoResources \/ Abort
  BY <1>1 DEF ClosedInv, CabMissing, NoResources, Abort
<1>2. CASE ReadHdr \/ MeasureCab
  BY <1>2, ReadHdrClosed, MeasureCabClosed
<1>3. CASE CountBlocks
  BY <1>3, CountBlocksClosed
<1>4. CASE TakeRest \/ TopUp \/ TakeBlock
  <2>1. InLoop
    BY <1>4, BranchesRead
  <2>2. PICK n \in 0 .. Room, off \in Nat :
          /\ Read(n, off, Room - n, Held + n)
          /\ \/ off = 0 /\ n = Rest
             \/ off = cab_blk_off + n /\ n = Room /\ off > 0 /\ off < s_cab[j].blk_sz
    BY <1>4, BranchesRead
  <2> QED BY <2>1, <2>2, ReadClosed
<1>5. CASE WriteHeader \/ CopyBlock \/ Return \/ Terminated \/ UNCHANGED vars
  <2>1. /\ cab_cnt' = cab_cnt /\ file' = file /\ wrapped' = wrapped /\ format' = format
        /\ cab_hdr' = cab_hdr /\ open_hdrs' = open_hdrs /\ j' = j /\ i' = i
        /\ blk_cnt' = blk_cnt /\ infp' = infp
        /\ pc' \in {"loop", "copy", "done"} => pc \in {"loop", "copy", "done"}
        /\ pc' = "scan" <=> pc = "scan"
        /\ pc' = "hdr" => pc = "hdr"
        /\ pc' \notin {"hdr", "failed"} => pc \notin {"hdr", "failed"}
    BY <1>5 DEF WriteHeader, CopyBlock, Return, Terminated, vars, input, scan, loop
  <2>2. Regular' <=> Regular
    BY <2>1 DEF Regular, NoEmptyCab, Cab, Exists
  <2>3. Measured' = Measured /\ ClosesCabHdr' = ClosesCabHdr
    BY <2>1 DEF Measured, ClosesCabHdr
  <2> QED BY <2>1, <2>2, <2>3 DEF ClosedInv
<1> QED BY <1>1, <1>2, <1>3, <1>4, <1>5 DEF Next

(* Which streams a pack that returns has left open: exactly the .cabN.hdr  *)
(* streams of encr and blb3, and those of the cabs that no block was left  *)
(* for, of which there are none when no cab is empty and no size wraps.    *)
THEOREM Streams == Spec => []StreamsClosed
<1>1. Init => ClosedInv
  BY DEF Init, ClosedInv
<1>2. Inv /\ RegularInv /\ ClosedInv /\ [Next]_vars => ClosedInv'
  BY NextClosed
<1>3. RegularInv /\ ClosedInv => StreamsClosed
  <2> SUFFICES ASSUME RegularInv, ClosedInv, pc = "done"
               PROVE  /\ open_hdrs = IF format \in {"mhy0", "mhy1"} THEN 0
                                      ELSE Cardinality({c \in Cab : c \in cab_hdr})
                      /\ \A c \in Cab : infp[c] = Closed <=> c < j
                      /\ Regular => j = cab_cnt
    BY DEF StreamsClosed
  <2>1. Regular => j = cab_cnt
    BY DEF RegularInv, RegularLoopInv, ClosedInv
  <2>2. Measured = cab_cnt
    BY DEF Measured
  <2> QED BY <2>1, <2>2 DEF ClosedInv, ClosesCabHdr, Cab
<1> QED BY <1>1, <1>2, <1>3, RegularHolds, PTL DEF Spec

-----------------------------------------------------------------------------
(* The refinement: what each step is in the terms of Archive.              *)

Regularity == <<cab_cnt, file, wrapped>>  \* all that Regular looks at

(* Regular depends on what the measuring loop found.                       *)
LEMMA RegularKept ==
  ASSUME UNCHANGED Regularity
  PROVE  Regular' <=> Regular
  BY DEF Regularity, Regular, NoEmptyCab, Cab, Exists

(* Until the block loop nothing of the archive is there.                   *)
LEMMA ScanStutters ==
  ASSUME ReadHdr \/ MeasureCab
  PROVE  UNCHANGED A!aVars
<1>1. pc \in {"hdr", "scan"} /\ pc' \in {"hdr", "scan"} /\ file' = file
  BY DEF ReadHdr, MeasureCab, input
<1>2. Working = FALSE /\ Working' = FALSE
  BY <1>1 DEF Working
<1> QED BY <1>1, <1>2 DEF A!aVars

(* A failure leaves no archive behind.                                     *)
LEMMA FailureFails ==
  ASSUME CabMissing \/ NoResources \/ Abort
  PROVE  [A!Next]_(A!aVars)
<1>1. /\ pc \in {"hdr", "scan", "loop"} /\ pc' = "failed" /\ file' = file
      /\ UNCHANGED Regularity
  BY DEF CabMissing, NoResources, Abort, TooShort, InLoop, input, scan, Regularity
<1>2. Regular' = Regular
  BY <1>1, RegularKept DEF Regular
<1>3. Working' = FALSE
  BY <1>1 DEF Working
<1>4. CASE Regular
  <2>1. A!Fail
    BY <1>1, <1>2, <1>3, <1>4 DEF A!Fail, A!Nothing
  <2> QED BY <2>1 DEF A!Next
<1>5. CASE ~Regular
  <2>1. Working = FALSE
    BY <1>5 DEF Working
  <2> QED BY <1>1, <1>2, <1>3, <1>5, <2>1 DEF A!aVars
<1> QED BY <1>4, <1>5

(* The table is complete when the block loop starts.                       *)
LEMMA CountStarts ==
  ASSUME Inv, RegularInv, CountBlocks
  PROVE  [A!Next]_(A!aVars)
<1>1. /\ pc = "scan" /\ pc' = "loop" /\ file' = file /\ UNCHANGED Regularity
      /\ s_cab' = s_cab /\ tmp' = tmp
  BY DEF CountBlocks, input, scan, Regularity
<1>2. Regular' = Regular
  BY <1>1, RegularKept DEF Regular
<1>3. Working = FALSE /\ Working' = Regular
  BY <1>1, <1>2 DEF Working, Regular
<1>4. CASE Regular
  <2>1. tmp = <<>> /\ Measured = i /\ i \in Nat
    BY <1>1 DEF Inv, BeforeLoopInv, Measured, TypeOK
  <2>2. /\ DOMAIN s_cab = 0 .. i - 1 /\ start[0] = 0
        /\ \A c \in 0 .. i - 1 :
             /\ s_cab[c].blk_off = start[c] /\ s_cab[c].blk_sz = file[c]
             /\ start[c + 1] = start[c] + s_cab[c].blk_sz
    BY <1>1, <1>4, <2>1 DEF Inv, TableInv, RegularInv, RegularTableInv
  <2>3. \A c \in DOMAIN s_cab :
          /\ s_cab[c].blk_sz = file[c]
          /\ s_cab[c].blk_off = IF c = 0 THEN 0
                                ELSE s_cab[c - 1].blk_off + s_cab[c - 1].blk_sz
    <3> SUFFICES ASSUME NEW c \in 0 .. i - 1
                 PROVE  /\ s_cab[c].blk_sz = file[c]
                        /\ s_cab[c].blk_off =
                             IF c = 0 THEN 0
                             ELSE s_cab[c - 1].blk_off + s_cab[c - 1].blk_sz
      BY <2>2
    <3>1. CASE c = 0
      BY <2>2, <3>1
    <3>2. CASE c # 0
      <4>1. c - 1 \in 0 .. i - 1 /\ (c - 1) + 1 = c
        BY <2>1, <3>2
      <4>2. start[c] = start[c - 1] + s_cab[c - 1].blk_sz
        BY <2>2, <4>1
      <4> QED BY <2>2, <3>2, <4>1, <4>2
    <3> QED BY <3>1, <3>2
  <2>4. A!Start
    BY <1>1, <1>2, <1>3, <1>4, <2>1, <2>3 DEF A!Start, A!Laid
  <2> QED BY <2>4 DEF A!Next
<1>5. CASE ~Regular
  BY <1>1, <1>2, <1>3, <1>5 DEF A!aVars
<1> QED BY <1>4, <1>5

(* A turn of the block loop emits the next block or nothing.               *)
LEMMA ReadEmits ==
  ASSUME Inv, RegularInv, InLoop,
         NEW n \in 0 .. Room, NEW off \in Nat,
         Read(n, off, Room - n, Held + n),
         \/ off = 0 /\ n = Rest
         \/ off = cab_blk_off + n /\ n = Room /\ off > 0 /\ off < s_cab[j].blk_sz
  PROVE  [A!Next]_(A!aVars)
<1>1. /\ pc = "loop" /\ pc' = "loop" /\ file' = file /\ UNCHANGED Regularity
      /\ s_cab' = s_cab /\ cab_cnt' = cab_cnt /\ start' = start
  BY DEF Read, input, scan, InLoop, Regularity
<1>2. Regular' = Regular
  BY <1>1, RegularKept DEF Regular
<1>3. Working = Regular /\ Working' = Regular
  BY <1>1, <1>2 DEF Working, Regular
<1>4. CASE ~Regular
  BY <1>1, <1>2, <1>3, <1>4 DEF A!aVars
<1>5. CASE Regular /\ j' < cab_cnt /\ HasRoom(Room - n)
  <2>1. tmp' = tmp
    BY <1>5 DEF Read
  <2> QED BY <1>1, <1>2, <1>3, <1>5, <2>1 DEF A!aVars
<1>6. CASE Regular /\ ~(j' < cab_cnt /\ HasRoom(Room - n))
  <2> DEFINE new == [dec_sz |-> Held + n, data |-> Filled(n)]
  <2> HIDE DEF new
  <2>1. /\ Room \in 1 .. BlockSize /\ Held + Room = BlockSize /\ read_off = Held
        /\ Held \in Nat /\ j \in 0 .. cab_cnt - 1 /\ cab_cnt \in Nat /\ Rest \in Nat
        /\ cab_blk_off \in Nat /\ s_cab[j].blk_sz \in Nat
    BY LoopFacts
  <2>2. /\ start \in [0 .. cab_cnt -> Nat] /\ i \in Nat /\ Len(tmp) = i
        /\ \A c \in 0 .. cab_cnt - 1 :
             /\ s_cab[c].blk_off = start[c] /\ s_cab[c].blk_sz \in Nat \ {0}
             /\ start[c + 1] = start[c] + s_cab[c].blk_sz
        /\ \A c \in 0 .. cab_cnt : start[c] <= start[cab_cnt]
        /\ Cursor = start[j] + cab_blk_off
        /\ Cursor = (i * BlockSize) + read_off
        /\ Rest > 0
    BY <1>6, RegularFacts
  <2>3. n > 0 /\ n <= Rest
    <3>1. Rest > 0
      BY <2>2
    <3>2. CASE n = Rest
      BY <2>1, <3>1, <3>2
    <3>3. CASE n = Room /\ cab_blk_off + n < s_cab[j].blk_sz
      BY <2>1, <3>3 DEF Rest
    <3> QED BY <3>2, <3>3
  <2>4. i * BlockSize \in Nat
    BY <2>2
  <2>5. DOMAIN s_cab = 0 .. cab_cnt - 1
    BY <1>1 DEF Inv, TableInv, Measured
  <2>6. tmp' = Append(tmp, new) /\ tmp'[i + 1] = new /\ Len(tmp') = i + 1
    <3>1. \E S : tmp \in Seq(S)
      BY DEF Inv, TypeOK
    <3>2. tmp' = Append(tmp, new)
      BY <1>6 DEF Read, new
    <3>3. Len(Append(tmp, new)) = Len(tmp) + 1 /\ Append(tmp, new)[Len(tmp) + 1] = new
      BY <3>1, AppendFacts, Zenon
    <3>4. Len(tmp) = i
      BY <2>2
    <3> QED BY <3>2, <3>3, <3>4, Zenon
  <2>7. ~(\A c \in 0 .. cab_cnt - 1 : s_cab[c].blk_off + s_cab[c].blk_sz <= i * BlockSize)
    <3>1. start[j] \in Nat /\ s_cab[j].blk_off = start[j]
      BY <2>1, <2>2
    <3>2. start[j] + cab_blk_off < s_cab[j].blk_off + s_cab[j].blk_sz
      <4>1. Rest > 0
        BY <2>2
      <4> QED BY <2>1, <3>1, <4>1 DEF Rest
    <3>3. start[j] + cab_blk_off >= i * BlockSize
      BY <2>1, <2>2, <2>4
    <3> QED BY <2>1, <2>4, <3>1, <3>2, <3>3
  <2>8. Held + n \in 1 .. BlockSize
    BY <2>1, <2>3
  <2>9. \A o \in 0 .. (Held + n) - 1 :
          /\ Filled(n)[o][1] \in 0 .. cab_cnt - 1
          /\ Filled(n)[o][2] \in 0 .. s_cab[Filled(n)[o][1]].blk_sz - 1
          /\ s_cab[Filled(n)[o][1]].blk_off + Filled(n)[o][2] = (i * BlockSize) + o
    BY <1>6, <2>1, <2>3, FilledInPlace DEF InPlace, Cab
  <2>10. ASSUME Held + n < BlockSize
         PROVE  \A c \in 0 .. cab_cnt - 1 :
                  s_cab[c].blk_off + s_cab[c].blk_sz <= (i * BlockSize) + (Held + n)
    <3>1. j' = cab_cnt
      <4>1. j' \in 0 .. cab_cnt
        BY ReadMoves
      <4>2. HasRoom(Room - n)
        BY <2>1, <2>3, <2>10 DEF HasRoom
      <4> QED BY <1>6, <2>1, <4>1, <4>2
    <3>2. Cursor' = start[cab_cnt]
      BY <1>1, <2>1, <3>1 DEF Cursor
    <3>3. Cursor' = Cursor + n
      BY ReadMoves
    <3>4. start[cab_cnt] = (i * BlockSize) + (Held + n)
      BY <2>1, <2>2, <2>4, <3>2, <3>3
    <3> SUFFICES ASSUME NEW c \in 0 .. cab_cnt - 1
                 PROVE  s_cab[c].blk_off + s_cab[c].blk_sz <= start[cab_cnt]
      BY <3>4
    <3>5. c + 1 \in 0 .. cab_cnt
      BY <2>1
    <3> QED BY <2>2, <3>5
  <2>11. A!Emit
    <3>1. new.dec_sz = Held + n /\ new.data = Filled(n)
      BY DEF new
    <3>2. ~A!AllBelow(s_cab, Len(tmp) * BlockSize)
      BY <2>2, <2>5, <2>7 DEF A!AllBelow
    <3>3. \A o \in 0 .. new.dec_sz - 1 : A!At(s_cab, new.data[o], (Len(tmp) * BlockSize) + o)
      BY <2>2, <2>5, <2>9, <3>1 DEF A!At
    <3>4. new.dec_sz < BlockSize => A!AllBelow(s_cab, (Len(tmp) * BlockSize) + new.dec_sz)
      BY <2>2, <2>5, <2>10, <3>1 DEF A!AllBelow
    <3>5. /\ tmp'[Len(tmp) + 1] = new /\ tmp' = Append(tmp, new)
          /\ Len(tmp') = Len(tmp) + 1 /\ new.dec_sz \in 1 .. BlockSize
      BY <2>2, <2>6, <2>8, <3>1
    <3> QED BY <1>1, <1>2, <1>3, <1>6, <3>2, <3>3, <3>4, <3>5 DEF A!Emit
  <2> QED BY <2>11 DEF A!Next
<1> QED BY <1>4, <1>5, <1>6

(* The pack only returns when every byte of every cab is in a block.       *)
LEMMA ReturnFinishes ==
  ASSUME Inv, RegularInv, Return
  PROVE  [A!Next]_(A!aVars)
<1>1. /\ pc = "copy" /\ pc' = "done" /\ file' = file /\ UNCHANGED Regularity
      /\ s_cab' = s_cab /\ tmp' = tmp
  BY DEF Return, input, scan, loop, Regularity
<1>2. Regular' = Regular
  BY <1>1, RegularKept DEF Regular
<1>3. Working = Regular /\ Working' = Regular
  BY <1>1, <1>2 DEF Working, Regular
<1>4. CASE ~Regular
  BY <1>1, <1>2, <1>3, <1>4 DEF A!aVars
<1>5. CASE Regular
  <2>1. Measured = cab_cnt /\ cab_cnt \in Nat /\ i \in Nat /\ blk_cnt \in Nat
    BY <1>1 DEF Measured, Inv, TypeOK
  <2>2. /\ start \in [0 .. cab_cnt -> Nat] /\ DOMAIN s_cab = 0 .. cab_cnt - 1
        /\ total_blk_sz = start[cab_cnt]
        /\ \A c \in 0 .. cab_cnt - 1 :
             /\ s_cab[c].blk_off = start[c]
             /\ start[c + 1] = start[c] + s_cab[c].blk_sz
        /\ \A c \in 0 .. cab_cnt : start[c] <= start[cab_cnt]
    BY <1>1, <1>5, <2>1 DEF Inv, TableInv, RegularInv, RegularTableInv
  <2>3. start[cab_cnt] <= Len(tmp) * BlockSize
    <3>1. Len(tmp) = i /\ start[cab_cnt] <= blk_cnt * BlockSize /\ i >= blk_cnt
      BY <1>1, <1>5, <2>2 DEF RegularInv, RegularLoopInv
    <3>2. blk_cnt * BlockSize <= i * BlockSize
      BY <2>1, <3>1, MulOrder
    <3>3. start[cab_cnt] \in Nat /\ blk_cnt * BlockSize \in Nat /\ i * BlockSize \in Nat
      BY <2>1, <2>2
    <3> QED BY <3>1, <3>2, <3>3
  <2>4. A!AllBelow(s_cab, Len(tmp) * BlockSize)
    <3> SUFFICES ASSUME NEW c \in 0 .. cab_cnt - 1
                 PROVE  s_cab[c].blk_off + s_cab[c].blk_sz <= Len(tmp) * BlockSize
      BY <2>2 DEF A!AllBelow
    <3>1. c + 1 \in 0 .. cab_cnt /\ start[c + 1] \in Nat /\ start[cab_cnt] \in Nat
      BY <2>1, <2>2
    <3>2. s_cab[c].blk_off + s_cab[c].blk_sz = start[c + 1]
      BY <2>2
    <3>3. start[c + 1] <= start[cab_cnt]
      BY <2>2, <3>1
    <3>4. Len(tmp) * BlockSize \in Int
      <4>1. \E S : tmp \in Seq(S)
        BY DEF Inv, TypeOK
      <4>2. Len(tmp) \in Nat
        BY <4>1
      <4> QED BY <4>2
    <3> QED BY <2>3, <3>1, <3>2, <3>3, <3>4
  <2>5. A!Finish
    BY <1>1, <1>2, <1>3, <1>5, <2>4 DEF A!Finish
  <2> QED BY <2>5 DEF A!Next
<1> QED BY <1>4, <1>5

(* Copying the blocks behind the header changes nothing Archive speaks of. *)
LEMMA CopyStutters ==
  ASSUME WriteHeader \/ CopyBlock \/ UNCHANGED vars
  PROVE  UNCHANGED A!aVars
<1>1. /\ file' = file /\ s_cab' = s_cab /\ tmp' = tmp /\ UNCHANGED Regularity
      /\ \/ pc' = pc
         \/ pc = "loop" /\ pc' = "copy"
  BY DEF WriteHeader, CopyBlock, vars, input, scan, loop, Regularity
<1>2. Regular' = Regular
  BY <1>1, RegularKept DEF Regular
<1>3. Working' = Working
  BY <1>1, <1>2 DEF Working, Regular
<1> QED BY <1>1, <1>2, <1>3 DEF A!aVars

(* The four pack functions implement Archive, for every block size, every  *)
(* number and size of cabs and every width of the counters: each turn of   *)
(* the block loop that writes a block is Archive's Emit, Return its Finish *)
(* and every failure its Fail.                                             *)
THEOREM Implements == Spec => ImplementsArchive
<1>1. Init => A!Init
  BY DEF Init, A!Init, A!Nothing, Working
<1>2. Inv /\ RegularInv /\ [Next]_vars => [A!Next]_(A!aVars)
  <2> SUFFICES ASSUME Inv, RegularInv, [Next]_vars PROVE [A!Next]_(A!aVars)
    OBVIOUS
  <2>1. CASE ReadHdr \/ MeasureCab
    BY <2>1, ScanStutters
  <2>2. CASE CabMissing \/ NoResources \/ Abort
    BY <2>2, FailureFails
  <2>3. CASE CountBlocks
    BY <2>3, CountStarts
  <2>4. CASE TakeRest \/ TopUp \/ TakeBlock
    <3>1. InLoop
      BY <2>4, BranchesRead
    <3>2. PICK n \in 0 .. Room, off \in Nat :
            /\ Read(n, off, Room - n, Held + n)
            /\ \/ off = 0 /\ n = Rest
               \/ off = cab_blk_off + n /\ n = Room /\ off > 0 /\ off < s_cab[j].blk_sz
      BY <2>4, BranchesRead
    <3> QED BY <3>1, <3>2, ReadEmits
  <2>5. CASE Return
    BY <2>5, ReturnFinishes
  <2>6. CASE WriteHeader \/ CopyBlock \/ Terminated \/ UNCHANGED vars
    BY <2>6, CopyStutters DEF Terminated
  <2> QED BY <2>1, <2>2, <2>3, <2>4, <2>5, <2>6 DEF Next
<1> QED BY <1>1, <1>2, RegularHolds, PTL DEF Spec, ImplementsArchive, A!Spec

-----------------------------------------------------------------------------
(* The archive.                                                            *)

(* One more element of a prefix.                                           *)
LEMMA PrefixGrows ==
  ASSUME NEW S, NEW s \in Seq(S), NEW p \in 0 .. Len(s) - 1
  PROVE  SubSeq(s, 1, p + 1) = Append(SubSeq(s, 1, p), s[p + 1])
  OBVIOUS

(* The .blocks file is a sequence.                                         *)
LEMMA BlocksSeq ==
  ASSUME Inv
  PROVE  /\ tmp \in Seq([dec_sz : 0 .. BlockSize, data : [0 .. BlockSize - 1 -> Byte]])
         /\ Len(tmp) \in Nat /\ DOMAIN tmp = 1 .. Len(tmp)
         /\ \A b \in 1 .. Len(tmp) : /\ tmp[b].dec_sz \in 0 .. BlockSize
                                     /\ tmp[b].data \in [0 .. BlockSize - 1 -> Byte]
<1> DEFINE Blocks == [dec_sz : 0 .. BlockSize, data : [0 .. BlockSize - 1 -> Byte]]
<1>1. tmp \in Seq(Blocks)
  BY DEF Inv, TypeOK
<1>2. /\ Len(tmp) \in Nat /\ DOMAIN tmp = 1 .. Len(tmp)
      /\ \A b \in 1 .. Len(tmp) : tmp[b] \in Blocks
  <2> HIDE DEF Blocks
  <2> QED BY <1>1
<1>3. \A x \in Blocks : x.dec_sz \in 0 .. BlockSize /\ x.data \in [0 .. BlockSize - 1 -> Byte]
  OBVIOUS
<1> HIDE DEF Blocks
<1>4. \A b \in 1 .. Len(tmp) : /\ tmp[b].dec_sz \in 0 .. BlockSize
                              /\ tmp[b].data \in [0 .. BlockSize - 1 -> Byte]
  BY <1>2, <1>3, Zenon
<1> QED BY <1>1, <1>2, <1>4, Zenon DEF Blocks

(* The header announces what is in .blocks, and the copy loop appends the  *)
(* blocks in their order.                                                  *)
LEMMA NextCopy == Inv /\ CopyInv /\ [Next]_vars => CopyInv'
<1> SUFFICES ASSUME Inv, CopyInv, [Next]_vars PROVE CopyInv'
  OBVIOUS
<1>1. CASE ReadHdr \/ MeasureCab \/ CabMissing \/ CountBlocks \/ NoResources \/ Abort
  <2>1. /\ tmp' = tmp /\ written' = written
        /\ pc \in {"hdr", "scan", "loop"} /\ pc' \in {"scan", "failed", "loop"}
    BY <1>1 DEF ReadHdr, MeasureCab, CabMissing, CountBlocks, NoResources, Abort, TooShort,
                InLoop, loop, copy
  <2> QED BY <2>1 DEF CopyInv
<1>2. CASE TakeRest \/ TopUp \/ TakeBlock
  <2>1. InLoop
    BY <1>2, BranchesRead
  <2>2. PICK n \in 0 .. Room, off \in Nat : Read(n, off, Room - n, Held + n)
    BY <1>2, BranchesRead
  <2>3. pc = "loop" /\ pc' = "loop" /\ written = Len(tmp)
    BY <2>1, <2>2 DEF InLoop, Read, CopyInv
  <2>4. \/ tmp' = tmp /\ written' = written
        \/ \E b : tmp' = Append(tmp, b) /\ written' = written + 1
    BY <2>2 DEF Read
  <2>5. ASSUME NEW b, tmp' = Append(tmp, b) PROVE Len(tmp') = Len(tmp) + 1
    BY <2>5, BlocksSeq, AppendFacts
  <2> QED BY <2>3, <2>4, <2>5 DEF CopyInv
<1>3. CASE WriteHeader
  <2>1. /\ pc = "loop" /\ pc' = "copy" /\ tmp' = tmp /\ s_cab' = s_cab
        /\ tmp_pos' = 0 /\ written' = written /\ written = Len(tmp)
        /\ out' = [cabs |-> s_cab, dec_sz |-> [b \in DOMAIN tmp |-> tmp[b].dec_sz],
                   blocks |-> <<>>]
    BY <1>3 DEF WriteHeader, Rewound, scan, loop, CopyInv
  <2>2. SubSeq(tmp, 1, 0) = <<>> /\ Len(tmp) \in Nat
    BY BlocksSeq
  <2>3. out' = [cabs |-> s_cab', dec_sz |-> [b \in DOMAIN tmp' |-> tmp'[b].dec_sz],
                blocks |-> SubSeq(tmp', 1, tmp_pos')]
    BY <2>1, <2>2, Zenon
  <2>4. tmp_pos' <= Len(tmp') /\ written' = Len(tmp') - tmp_pos' /\ pc' = "copy"
    BY <2>1, <2>2
  <2> QED BY <2>3, <2>4, Zenon DEF CopyInv
<1>4. CASE CopyBlock
  <2>1. /\ pc = "copy" /\ pc' = "copy" /\ tmp' = tmp /\ s_cab' = s_cab /\ written > 0
    BY <1>4 DEF CopyBlock, scan, loop
  <2> DEFINE Archive(blocks) ==
               [cabs |-> s_cab, dec_sz |-> [b \in DOMAIN tmp |-> tmp[b].dec_sz],
                blocks |-> blocks]
  <2>2. /\ out = Archive(SubSeq(tmp, 1, tmp_pos))
        /\ tmp_pos \in Nat /\ written = Len(tmp) - tmp_pos
    BY <2>1 DEF CopyInv, Inv, TypeOK
  <2>3. tmp_pos \in 0 .. Len(tmp) - 1 /\ tmp_pos < Len(tmp) /\ Len(tmp) \in Nat
    BY <2>1, <2>2, BlocksSeq
  <2>4. /\ out' = [out EXCEPT !.blocks = Append(out.blocks, tmp[tmp_pos + 1])]
        /\ tmp_pos' = tmp_pos + 1 /\ written' = written - 1
    BY <1>4, <2>3 DEF CopyBlock
  <2>5. out' = Archive(SubSeq(tmp, 1, tmp_pos + 1))
    <3>1. out' = Archive(Append(SubSeq(tmp, 1, tmp_pos), tmp[tmp_pos + 1]))
      BY <2>2, <2>4
    <3>2. SubSeq(tmp, 1, tmp_pos + 1) = Append(SubSeq(tmp, 1, tmp_pos), tmp[tmp_pos + 1])
      BY <2>3, PrefixGrows, BlocksSeq
    <3> QED BY <3>1, <3>2
  <2>6. out' = [cabs |-> s_cab', dec_sz |-> [b \in DOMAIN tmp' |-> tmp'[b].dec_sz],
                blocks |-> SubSeq(tmp', 1, tmp_pos')]
    BY <2>1, <2>4, <2>5, Zenon
  <2>7. tmp_pos' <= Len(tmp') /\ written' = Len(tmp') - tmp_pos' /\ pc' = "copy"
    BY <2>1, <2>2, <2>3, <2>4
  <2> QED BY <2>6, <2>7, Zenon DEF CopyInv
<1>5. CASE Return
  <2>1. /\ pc = "copy" /\ pc' = "done" /\ tmp' = tmp /\ s_cab' = s_cab /\ written <= 0
        /\ out' = out /\ tmp_pos' = tmp_pos /\ written' = written
    BY <1>5 DEF Return, scan, loop, copy
  <2>2. written \in Nat
    BY DEF Inv, TypeOK
  <2> QED BY <2>1, <2>2 DEF CopyInv
<1>6. CASE Terminated \/ UNCHANGED vars
  BY <1>6 DEF CopyInv, Terminated, vars, scan, loop, copy
<1> QED BY <1>1, <1>2, <1>3, <1>4, <1>5, <1>6 DEF Next

(* Each entry is made from the .cabN.hdr file of its own cab.              *)
LEMMA NextMeta == Inv /\ MetaInv /\ [Next]_vars => MetaInv'
<1> SUFFICES ASSUME Inv, MetaInv, [Next]_vars PROVE MetaInv'
  OBVIOUS
<1>1. CASE ReadHdr
  <2>1. pc' = "scan" /\ i' = 0
    BY <1>1 DEF ReadHdr, Inv, BeforeLoopInv
  <2>2. Measured' = 0
    BY <2>1 DEF Measured
  <2> QED BY <2>2 DEF MetaInv
<1>2. CASE MeasureCab
  <2>1. /\ pc = "scan" /\ pc' = "scan" /\ i' = i + 1 /\ cab_hdr' = cab_hdr /\ i \in Nat
        /\ s_cab' = [c \in 0 .. i |->
                      IF c = i THEN Entry(i, cab_blk_off) ELSE s_cab[c]]
    BY <1>2 DEF MeasureCab, input, Inv, TypeOK
  <2>2. Measured = i /\ Measured' = i + 1
    BY <2>1 DEF Measured
  <2> SUFFICES ASSUME NEW c \in 0 .. i
               PROVE  s_cab'[c].meta = "stored" <=> c \in cab_hdr
    BY <2>1, <2>2 DEF MetaInv
  <2>3. CASE c = i
    <3>1. s_cab'[c] = Entry(i, cab_blk_off)
      BY <2>1, <2>3
    <3> QED BY <2>3, <3>1 DEF Entry
  <2>4. CASE c # i
    <3>1. c \in 0 .. i - 1 /\ s_cab'[c] = s_cab[c]
      BY <2>1, <2>4
    <3> QED BY <2>1, <2>2, <3>1 DEF MetaInv
  <2> QED BY <2>3, <2>4
<1>3. CASE CabMissing \/ NoResources \/ Abort
  BY <1>3 DEF CabMissing, NoResources, Abort, MetaInv
<1>4. CASE CountBlocks
  <2>1. /\ pc = "scan" /\ pc' = "loop" /\ s_cab' = s_cab /\ cab_hdr' = cab_hdr
        /\ cab_cnt' = cab_cnt /\ i >= cab_cnt
    BY <1>4 DEF CountBlocks, input, scan
  <2>2. Measured' = cab_cnt /\ Measured = i /\ i \in Nat /\ cab_cnt \in Nat
    BY <2>1 DEF Measured, Inv, TypeOK
  <2> QED BY <2>1, <2>2 DEF MetaInv
<1>5. CASE TakeRest \/ TopUp \/ TakeBlock
  <2>1. InLoop
    BY <1>5, BranchesRead
  <2>2. PICK n \in 0 .. Room, off \in Nat : Read(n, off, Room - n, Held + n)
    BY <1>5, BranchesRead
  <2>3. /\ pc = "loop" /\ pc' = "loop" /\ s_cab' = s_cab /\ cab_hdr' = cab_hdr
        /\ cab_cnt' = cab_cnt
    BY <2>1, <2>2 DEF InLoop, Read, input, scan
  <2>4. Measured' = Measured
    BY <2>3 DEF Measured
  <2> QED BY <2>3, <2>4 DEF MetaInv
<1>6. CASE WriteHeader \/ CopyBlock \/ Return \/ Terminated \/ UNCHANGED vars
  <2>1. /\ s_cab' = s_cab /\ cab_hdr' = cab_hdr /\ cab_cnt' = cab_cnt /\ i' = i
        /\ pc = "scan" <=> pc' = "scan"
        /\ pc' \notin {"hdr", "failed"} => pc \notin {"hdr", "failed"}
    BY <1>6 DEF WriteHeader, CopyBlock, Return, Terminated, vars, input, scan
  <2>2. Measured' = Measured
    BY <2>1 DEF Measured
  <2> QED BY <2>1, <2>2 DEF MetaInv
<1> QED BY <1>1, <1>2, <1>3, <1>4, <1>5, <1>6 DEF Next

(* The turn of the loop that uses up the last cab also writes the last     *)
(* block, with what is left of the data.                                   *)
LEMMA NextLast == Inv /\ RegularInv /\ LastInv /\ [Next]_vars => LastInv'
<1> SUFFICES ASSUME Inv, RegularInv, LastInv, [Next]_vars PROVE LastInv'
  OBVIOUS
<1>1. CASE ReadHdr \/ MeasureCab \/ CabMissing \/ NoResources \/ Abort
  <2>1. pc' \in {"scan", "failed"}
    BY <1>1 DEF ReadHdr, MeasureCab, CabMissing, NoResources, Abort
  <2> QED BY <2>1 DEF LastInv
<1>2. CASE CountBlocks
  <2>1. Len(tmp') = 0
    BY <1>2 DEF CountBlocks, Inv, BeforeLoopInv
  <2> QED BY <2>1 DEF LastInv
<1>3. CASE TakeRest \/ TopUp \/ TakeBlock
  <2>1. InLoop
    BY <1>3, BranchesRead
  <2>2. PICK n \in 0 .. Room, off \in Nat :
          /\ Read(n, off, Room - n, Held + n)
          /\ \/ off = 0 /\ n = Rest
             \/ off = cab_blk_off + n /\ n = Room /\ off > 0 /\ off < s_cab[j].blk_sz
    BY <1>3, BranchesRead
  <2> SUFFICES ASSUME Regular', j' = cab_cnt'
               PROVE  (Len(tmp') - 1) * BlockSize + tmp'[Len(tmp')].dec_sz = start'[cab_cnt']
    BY DEF LastInv
  <2>3. /\ cab_cnt' = cab_cnt /\ start' = start /\ file' = file /\ wrapped' = wrapped
    BY <2>2 DEF Read, input, scan
  <2>4. Regular
    BY <2>3 DEF Regular, NoEmptyCab, Cab, Exists
  <2>5. Cursor = (i * BlockSize) + read_off /\ Len(tmp) = i /\ i \in Nat /\ read_off \in Nat
    BY <2>1, <2>4, RegularFacts
  <2>6. Held = read_off /\ Held + n \in Nat /\ cab_cnt \in Nat
    BY <2>1, LoopFacts
  <2>7. Cursor' = Cursor + n
    BY <2>1, <2>2, ReadMoves
  <2>8. Cursor' = start[cab_cnt]
    BY <2>3, <2>6 DEF Cursor
  <2>9. /\ Len(tmp') = Len(tmp) + 1
        /\ tmp'[Len(tmp) + 1] = [dec_sz |-> Held + n, data |-> Filled(n)]
    <3>1. ~(j' < cab_cnt)
      BY <2>3, <2>6
    <3>2. tmp' = Append(tmp, [dec_sz |-> Held + n, data |-> Filled(n)])
      BY <2>2, <3>1 DEF Read
    <3> QED BY <3>2, BlocksSeq, AppendFacts
  <2>10. tmp'[Len(tmp')].dec_sz = read_off + n
    BY <2>6, <2>9
  <2>11. (Len(tmp') - 1) * BlockSize = i * BlockSize /\ i * BlockSize \in Nat
    BY <2>5, <2>9
  <2>12. (i * BlockSize) + (read_off + n) = start[cab_cnt]
    BY <2>5, <2>7, <2>8, <2>11
  <2> QED BY <2>3, <2>10, <2>11, <2>12, Zenon
<1>4. CASE WriteHeader \/ CopyBlock \/ Return \/ Terminated \/ UNCHANGED vars
  <2>1. /\ cab_cnt' = cab_cnt /\ start' = start /\ file' = file /\ wrapped' = wrapped
        /\ tmp' = tmp /\ j' = j
        /\ pc' \in {"loop", "copy", "done"} => pc \in {"loop", "copy", "done"}
    BY <1>4 DEF WriteHeader, CopyBlock, Return, Terminated, vars, input, scan, loop
  <2>2. Regular' <=> Regular
    BY <2>1 DEF Regular, NoEmptyCab, Cab, Exists
  <2> QED BY <2>1, <2>2 DEF LastInv
<1> QED BY <1>1, <1>2, <1>3, <1>4 DEF Next

(* The offsets of the cabs are in their order.                             *)
LEMMA StartOrder ==
  ASSUME NEW n \in Nat, NEW st \in [0 .. n -> Nat], NEW sz \in [0 .. n - 1 -> Nat],
         \A c \in 0 .. n - 1 : st[c + 1] = st[c] + sz[c]
  PROVE  \A c, d \in 0 .. n : c <= d => st[c] <= st[d]
<1> SUFFICES ASSUME NEW c \in 0 .. n PROVE \A d \in 0 .. n : c <= d => st[c] <= st[d]
  OBVIOUS
<1> DEFINE S == {k \in 0 .. n - c : st[c] <= st[c + k]}
<1>1. n - c \in Nat /\ 0 \in S
  <2>1. c + 0 = c /\ st[c] \in Nat
    OBVIOUS
  <2> QED BY <2>1
<1>2. \A k \in 0 .. (n - c) - 1 : k \in S => k + 1 \in S
  <2> SUFFICES ASSUME NEW k \in 0 .. (n - c) - 1, k \in S PROVE k + 1 \in S
    OBVIOUS
  <2>1. c + k \in 0 .. n - 1 /\ c + (k + 1) = (c + k) + 1 /\ c + (k + 1) \in 0 .. n
        /\ c + k \in 0 .. n /\ k + 1 \in 0 .. n - c
    OBVIOUS
  <2>2. st[c + (k + 1)] = st[c + k] + sz[c + k]
    BY <2>1
  <2>3. st[c] \in Nat /\ st[c + k] \in Nat /\ sz[c + k] \in Nat /\ st[c] <= st[c + k]
    BY <2>1
  <2>4. st[c] <= st[c + (k + 1)]
    BY <2>2, <2>3
  <2> QED BY <2>1, <2>4
<1>3. 0 .. (n - c) \subseteq S
  <2> HIDE DEF S
  <2> QED BY <1>1, <1>2, UpTo
<1> SUFFICES ASSUME NEW d \in 0 .. n, c <= d PROVE st[c] <= st[d]
  OBVIOUS
<1>4. d - c \in 0 .. n - c /\ c + (d - c) = d
  OBVIOUS
<1>5. st[c] <= st[c + (d - c)]
  BY <1>3, <1>4
<1> QED BY <1>4, <1>5

(* The sizes of blocks that are full, all but the last, add up to          *)
(* multiples of BlockSize: what the reader adds up.                        *)
LEMMA FullSums ==
  ASSUME NEW seq \in Seq(Nat), \A b \in 1 .. Len(seq) - 1 : seq[b] = BlockSize
  PROVE  \A b \in 1 .. Len(seq) : Before(seq, b) = (b - 1) * BlockSize
<1>1. Len(seq) \in Nat
  OBVIOUS
<1>2. CASE Len(seq) = 0
  BY <1>2
<1>3. CASE Len(seq) > 0
  <2> DEFINE len == Len(seq)
             S == {k \in 0 .. len - 1 : Before(seq, k + 1) = k * BlockSize}
  <2>1. 0 \in S
    <3>1. Before(seq, 1) = 0 /\ 0 + 1 = 1 /\ 0 * BlockSize = 0 /\ 0 \in 0 .. len - 1
      BY <1>1, <1>3, BeforeFacts
    <3> HIDE DEF len
    <3> QED BY <3>1, Zenon
  <2>2. \A k \in 0 .. (len - 1) - 1 : k \in S => k + 1 \in S
    <3> SUFFICES ASSUME NEW k \in 0 .. (len - 1) - 1, k \in S PROVE k + 1 \in S
      OBVIOUS
    <3>1. k + 1 \in 1 .. len /\ k + 1 \in 1 .. len - 1 /\ k + 1 \in 0 .. len - 1 /\ k \in Nat
      BY <1>1
    <3>2. Before(seq, (k + 1) + 1) = Before(seq, k + 1) + seq[k + 1]
      BY <3>1, BeforeFacts
    <3>3. seq[k + 1] = BlockSize /\ Before(seq, k + 1) = k * BlockSize
      BY <3>1
    <3>4. (k + 1) * BlockSize = (k * BlockSize) + BlockSize
      BY <3>1
    <3>5. Before(seq, (k + 1) + 1) = (k + 1) * BlockSize
      BY <3>2, <3>3, <3>4, Zenon
    <3> QED BY <3>1, <3>5
  <2>3. len - 1 \in Nat
    BY <1>1, <1>3
  <2>4. 0 .. len - 1 \subseteq S
    <3> HIDE DEF S, len
    <3> QED BY <2>1, <2>2, <2>3, UpTo
  <2> SUFFICES ASSUME NEW b \in 1 .. len PROVE Before(seq, b) = (b - 1) * BlockSize
    OBVIOUS
  <2>5. b - 1 \in 0 .. len - 1 /\ (b - 1) + 1 = b
    BY <1>1
  <2>6. Before(seq, (b - 1) + 1) = (b - 1) * BlockSize
    BY <2>4, <2>5
  <2> QED BY <2>5, <2>6
<1> QED BY <1>1, <1>2, <1>3

(* A position in the blocks is in one of them.                             *)
LEMMA InBlock ==
  ASSUME NEW n \in Nat, NEW p \in Nat, p < n * BlockSize
  PROVE  \E b \in 1 .. n : (b - 1) * BlockSize <= p /\ p < ((b - 1) * BlockSize) + BlockSize
<1>1. PICK q \in Nat : \E r \in 0 .. BlockSize - 1 :
        p % BlockSize = r /\ p = (BlockSize * q) + r
  BY Euclid, Zenon
<1>2. PICK r \in 0 .. BlockSize - 1 : p = (BlockSize * q) + r
  BY <1>1, Zenon
<1>3. BlockSize * q = q * BlockSize /\ q * BlockSize \in Nat /\ n * BlockSize \in Nat
  OBVIOUS
<1>4. q * BlockSize <= p /\ p < (q * BlockSize) + BlockSize
  BY <1>2, <1>3
<1>5. q < n
  <2> SUFFICES ASSUME n <= q PROVE FALSE
    OBVIOUS
  <2>1. n * BlockSize <= q * BlockSize
    BY MulOrder
  <2> QED BY <1>3, <1>4, <2>1
<1>6. q + 1 \in 1 .. n /\ (q + 1) - 1 = q
  BY <1>5
<1> QED BY <1>4, <1>6

(* Where a finished pack has put each cab: every byte that the reader cuts *)
(* out of the unpacked data lies in a block, and whichever block it takes  *)
(* it from holds that byte of the cab there.                               *)
LEMMA CabUnpacks ==
  ASSUME Inv, RegularInv, ClosedInv, ArchiveInv, Regular, pc = "done",
         NEW c \in Cab, NEW k \in 0 .. file[c] - 1
  PROVE  Unpacked(start[c] + k) = <<c, k>>
<1> DEFINE n == Len(tmp)
           ds == out.dec_sz
           p == start[c] + k
<1>1. /\ tmp \in Seq([dec_sz : 0 .. BlockSize, data : [0 .. BlockSize - 1 -> Byte]])
      /\ n \in Nat /\ DOMAIN tmp = 1 .. n
      /\ \A b \in 1 .. n : /\ tmp[b].dec_sz \in 0 .. BlockSize
                           /\ tmp[b].data \in [0 .. BlockSize - 1 -> Byte]
  BY BlocksSeq
<1>2. /\ out = [cabs |-> s_cab, dec_sz |-> [b \in DOMAIN tmp |-> tmp[b].dec_sz],
                blocks |-> SubSeq(tmp, 1, tmp_pos)]
      /\ tmp_pos = n
  BY <1>1 DEF ArchiveInv, CopyInv, Inv, TypeOK
<1>3. out.blocks = tmp
  BY <1>1, <1>2
<1>4. /\ ds \in Seq(Nat) /\ Len(ds) = n
      /\ \A b \in 1 .. n : ds[b] = tmp[b].dec_sz /\ ds[b] \in 0 .. BlockSize
  <2>1. DOMAIN tmp = 1 .. n /\ \A b \in 1 .. n : tmp[b].dec_sz \in 0 .. BlockSize
    BY <1>1, Zenon
  <2>2. ds = [b \in DOMAIN tmp |-> tmp[b].dec_sz]
    BY <1>2
  <2>3. ds = [b \in 1 .. n |-> tmp[b].dec_sz]
    BY <2>1, <2>2, Zenon
  <2> HIDE DEF ds, n
  <2>4. \A b \in 1 .. n : ds[b] = tmp[b].dec_sz /\ ds[b] \in 0 .. BlockSize
    BY <2>1, <2>3
  <2>5. \A b \in 1 .. n : tmp[b].dec_sz \in Nat
    BY <2>1
  <2>6. ds \in [1 .. n -> Nat]
    BY <2>3, <2>5
  <2>7. n \in Nat
    BY <1>1
  <2>8. ds \in Seq(Nat) /\ Len(ds) = n
    BY <2>6, <2>7
  <2> QED BY <2>4, <2>8
<1>5. \A b \in 1 .. n : Before(ds, b) = (b - 1) * BlockSize
  <2>1. \A b \in 1 .. n - 1 : tmp[b].dec_sz = BlockSize
    BY DEF RegularInv, FullBlocks
  <2>2. \A b \in 1 .. Len(ds) - 1 : ds[b] = BlockSize
    <3> HIDE DEF ds, n
    <3>1. \A b \in 1 .. n - 1 : b \in 1 .. n
      BY <1>1
    <3> QED BY <1>4, <2>1, <3>1
  <2> HIDE DEF ds
  <2> QED BY <1>4, <2>2, FullSums
<1>6. \A b \in 1 .. n : Before(ds, b + 1) = Before(ds, b) + ds[b]
  <2> HIDE DEF ds
  <2> QED BY <1>4, BeforeFacts
<1>7. /\ cab_cnt \in Nat /\ Measured = cab_cnt
      /\ start \in [0 .. cab_cnt -> Nat]
      /\ \A d \in 0 .. cab_cnt - 1 :
           /\ s_cab[d].blk_off = start[d] /\ s_cab[d].blk_sz = file[d]
           /\ s_cab[d].blk_sz \in Nat /\ start[d + 1] = start[d] + s_cab[d].blk_sz
  BY DEF Measured, Inv, TypeOK, TableInv, RegularInv, RegularTableInv
<1>8. \A d, e \in 0 .. cab_cnt : d <= e => start[d] <= start[e]
  <2> DEFINE sz == [d \in 0 .. cab_cnt - 1 |-> s_cab[d].blk_sz]
  <2>1. sz \in [0 .. cab_cnt - 1 -> Nat] /\ \A d \in 0 .. cab_cnt - 1 : start[d + 1] = start[d] + sz[d]
    BY <1>7
  <2> HIDE DEF sz
  <2> QED BY <1>7, <2>1, StartOrder
<1>9. /\ c \in 0 .. cab_cnt - 1 /\ c \in 0 .. cab_cnt /\ c + 1 \in 0 .. cab_cnt
      /\ cab_cnt \in 0 .. cab_cnt
  BY <1>7 DEF Cab
<1>10. /\ start[c] \in Nat /\ start[c + 1] \in Nat /\ start[cab_cnt] \in Nat
       /\ start[c + 1] = start[c] + file[c] /\ file[c] \in Nat
       /\ start[c + 1] <= start[cab_cnt]
  <2>1. start[c] \in Nat /\ start[c + 1] \in Nat /\ start[cab_cnt] \in Nat
    BY <1>7, <1>9
  <2>2. /\ s_cab[c].blk_sz = file[c] /\ s_cab[c].blk_sz \in Nat
        /\ start[c + 1] = start[c] + s_cab[c].blk_sz
    BY <1>7, <1>9
  <2>3. c + 1 <= cab_cnt
    BY <1>7, <1>9
  <2>4. start[c + 1] <= start[cab_cnt]
    BY <1>8, <1>9, <2>3
  <2> QED BY <2>1, <2>2, <2>4
<1>11. p \in Nat /\ p < start[cab_cnt]
  BY <1>10
<1> HIDE DEF p
<1>12. start[cab_cnt] <= n * BlockSize
  <2>1. /\ start[cab_cnt] <= blk_cnt * BlockSize /\ n = i /\ i >= blk_cnt
        /\ i \in Nat /\ blk_cnt \in Nat
    BY <1>7 DEF RegularInv, RegularTableInv, RegularLoopInv, Inv, TypeOK
  <2>2. blk_cnt * BlockSize <= i * BlockSize
    BY <2>1, MulOrder
  <2>3. start[cab_cnt] \in Nat /\ blk_cnt * BlockSize \in Nat /\ i * BlockSize \in Nat
    BY <1>10, <2>1
  <2> QED BY <2>1, <2>2, <2>3
<1> DEFINE In == {b \in 1 .. Len(out.blocks) :
                    p \in Before(ds, b) .. Before(ds, b + 1) - 1}
<1>13. In # {}
  <2>1. p < n * BlockSize
    <3>1. n * BlockSize \in Nat
      BY <1>1
    <3> QED BY <1>10, <1>11, <1>12, <3>1
  <2>2. PICK b \in 1 .. n :
          (b - 1) * BlockSize <= p /\ p < ((b - 1) * BlockSize) + BlockSize
    <3> HIDE DEF n
    <3> QED BY <1>1, <1>11, <2>1, InBlock
  <2>3. (b - 1) * BlockSize \in Nat
    BY <1>1
  <2>4. p < ((b - 1) * BlockSize) + ds[b]
    <3>1. CASE b < n
      <4>1. ds[b] = BlockSize
        <5>1. b \in 1 .. n - 1
          BY <1>1, <3>1
        <5>2. tmp[b].dec_sz = BlockSize
          BY <5>1 DEF RegularInv, FullBlocks
        <5> QED BY <1>4, <5>2, Zenon
      <4> QED BY <2>2, <4>1
    <3>2. CASE b = n
      <4>1. j = cab_cnt
        BY DEF ClosedInv, RegularInv, RegularLoopInv
      <4>2. ((n - 1) * BlockSize) + tmp[n].dec_sz = start[cab_cnt]
        BY <1>1, <3>2, <4>1 DEF ArchiveInv, LastInv
      <4> QED BY <1>4, <1>11, <3>2, <4>2
    <3>3. b < n \/ b = n
      <4> HIDE DEF n
      <4> QED BY <1>1
    <3> QED BY <3>1, <3>2, <3>3
  <2>5. p \in Before(ds, b) .. Before(ds, b + 1) - 1
    <3>1. Before(ds, b) = (b - 1) * BlockSize /\ Before(ds, b + 1) = ((b - 1) * BlockSize) + ds[b]
          /\ ds[b] \in Nat
      <4>1. Before(ds, b) = (b - 1) * BlockSize /\ Before(ds, b + 1) = Before(ds, b) + ds[b]
        BY <1>5, <1>6
      <4>2. ds[b] \in Nat
        BY <1>4
      <4> HIDE DEF ds
      <4> QED BY <4>1, <4>2, Zenon
    <3> HIDE DEF ds
    <3> QED BY <1>11, <2>2, <2>3, <2>4, <3>1
  <2>6. b \in In
    BY <1>3, <2>5
  <2> QED BY <2>6
<1>14. ASSUME NEW b \in In PROVE tmp[b].data[p - Before(ds, b)] = <<c, k>>
  <2>1. /\ b \in 1 .. n /\ Before(ds, b) = (b - 1) * BlockSize
        /\ Before(ds, b + 1) = Before(ds, b) + ds[b]
        /\ p \in Before(ds, b) .. Before(ds, b + 1) - 1
    BY <1>3, <1>5, <1>6
  <2>2. ds[b] = tmp[b].dec_sz /\ ds[b] \in 0 .. BlockSize
    BY <1>4, <2>1
  <2> DEFINE base == (b - 1) * BlockSize
             o == p - base
             x == tmp[b].data[o]
  <2>3. base \in Nat
    BY <2>1
  <2>4. o \in 0 .. tmp[b].dec_sz - 1 /\ base + o = p /\ o \in 0 .. BlockSize - 1
    <3>1. base \in Nat /\ p \in base .. (base + ds[b]) - 1
      BY <2>1, <2>3
    <3>2. \A a, y, d, w \in Nat : y \in a .. (a + d) - 1 /\ d <= w =>
            y - a \in 0 .. d - 1 /\ a + (y - a) = y /\ y - a \in 0 .. w - 1
      OBVIOUS
    <3>3. ds[b] \in Nat /\ ds[b] <= BlockSize /\ BlockSize \in Nat
      BY <2>2
    <3> HIDE DEF base, ds
    <3>4. o \in 0 .. ds[b] - 1 /\ base + o = p /\ o \in 0 .. BlockSize - 1
      BY <1>11, <2>3, <3>1, <3>2, <3>3
    <3> QED BY <2>2, <3>4, Zenon
  <2>5. x[1] \in 0 .. cab_cnt - 1 /\ x[2] \in 0 .. s_cab[x[1]].blk_sz - 1
        /\ s_cab[x[1]].blk_off + x[2] = p
    <3>1. InPlace(tmp[b].data, tmp[b].dec_sz, base)
      BY <2>1 DEF RegularInv, Placement
    <3>2. x[1] \in Cab /\ x[2] \in 0 .. s_cab[x[1]].blk_sz - 1
          /\ s_cab[x[1]].blk_off + x[2] = base + o
      <4> HIDE DEF base, o
      <4> QED BY <2>4, <3>1 DEF InPlace
    <3> QED BY <2>4, <3>2 DEF Cab
  <2>6. x = <<x[1], x[2]>>
    <3>1. tmp[b].data \in [0 .. BlockSize - 1 -> Byte]
      BY <1>1, <2>1, Zenon
    <3>2. x \in Byte
      <4> HIDE DEF o
      <4> QED BY <2>4, <3>1
    <3> HIDE DEF x
    <3> QED BY <3>2 DEF Byte, Garbage
  <2> HIDE DEF x, o, base
  <2>7. start[x[1]] + x[2] = start[c] + k
    <3>1. s_cab[x[1]].blk_off = start[x[1]]
      BY <1>7, <2>5, Zenon
    <3> QED BY <2>5, <3>1, Zenon DEF p
  <2>8. x[1] = c
    <3>1. /\ x[1] \in 0 .. cab_cnt /\ x[1] + 1 \in 0 .. cab_cnt /\ x[1] \in Int
          /\ start[x[1] + 1] = start[x[1]] + s_cab[x[1]].blk_sz
          /\ s_cab[x[1]].blk_sz \in Nat /\ start[x[1]] \in Nat
      <4>1. \A d \in 0 .. cab_cnt - 1 : d \in 0 .. cab_cnt /\ d + 1 \in 0 .. cab_cnt /\ d \in Int
        BY <1>7
      <4>2. \A d \in 0 .. cab_cnt : start[d] \in Nat
        BY <1>7
      <4> QED BY <1>7, <2>5, <4>1, <4>2, Zenon
    <3>4. k \in 0 .. file[c] - 1
      OBVIOUS
    <3>2. CASE x[1] < c
      <4>1. x[1] + 1 <= c
        BY <1>9, <3>1, <3>2
      <4>2. start[x[1] + 1] <= start[c]
        BY <1>8, <1>9, <3>1, <4>1
      <4>3. \A a, b1, s, e, x2 \in Nat : a + s <= b1 /\ x2 < s => a + x2 # b1 + e
        OBVIOUS
      <4>4. start[x[1]] + s_cab[x[1]].blk_sz <= start[c] /\ x[2] \in Nat
            /\ x[2] < s_cab[x[1]].blk_sz /\ k \in Nat
        BY <2>5, <3>1, <3>4, <4>2
      <4> QED BY <1>10, <2>7, <3>1, <4>3, <4>4, Zenon
    <3>3. CASE c < x[1]
      <4>1. c + 1 <= x[1]
        BY <1>9, <3>1, <3>3
      <4>2. start[c + 1] <= start[x[1]]
        BY <1>8, <1>9, <3>1, <4>1
      <4>3. \A a, b1, s, e, x2 \in Nat : b1 + s <= a /\ e < s => a + x2 # b1 + e
        OBVIOUS
      <4>4. start[c] + file[c] <= start[x[1]] /\ x[2] \in Nat /\ k \in Nat /\ k < file[c]
        BY <1>10, <2>5, <3>1, <3>4, <4>2
      <4> QED BY <1>10, <2>7, <3>1, <4>3, <4>4, Zenon
    <3> QED BY <1>9, <3>1, <3>2, <3>3
  <2>9. x[2] = k
    BY <1>10, <2>5, <2>7, <2>8
  <2>10. x = <<c, k>>
    BY <2>6, <2>8, <2>9, Zenon
  <2> QED BY <2>1, <2>10, Zenon DEF x, o, base
<1>15. Unpacked(p) = out.blocks[CHOOSE b \in In : TRUE].data[p - Before(ds, CHOOSE b \in In : TRUE)]
  BY <1>13, Zenon DEF Unpacked
<1>16. (CHOOSE b \in In : TRUE) \in In
  <2> HIDE DEF In
  <2> QED BY <1>13, Zenon
<1>17. tmp[CHOOSE b \in In : TRUE].data[p - Before(ds, CHOOSE b \in In : TRUE)] = <<c, k>>
  <2> HIDE DEF In, ds
  <2> QED BY <1>14, <1>16, Zenon
<1>18. Unpacked(p) = <<c, k>>
  <2> HIDE DEF In, ds
  <2> QED BY <1>3, <1>15, <1>17, Zenon
<1> QED BY <1>18 DEF p

(* An archive that a successful pack made of cabs that are not empty and   *)
(* stay below the wrap unpacks to those cabs, in their order and with      *)
(* their metadata, for every block size and all numbers and sizes of cabs. *)
THEOREM RoundTrips == Spec => []RoundTrip
<1>1. Init => ClosedInv /\ ArchiveInv
  <2>1. Init => ClosedInv /\ MetaInv /\ LastInv
    BY DEF Init, ClosedInv, MetaInv, LastInv
  <2>2. Init => CopyInv
    BY DEF Init, CopyInv
  <2> QED BY <2>1, <2>2 DEF ArchiveInv
<1>2. Inv /\ RegularInv /\ ClosedInv /\ ArchiveInv /\ [Next]_vars => ClosedInv' /\ ArchiveInv'
  BY NextClosed, NextCopy, NextMeta, NextLast DEF ArchiveInv
<1>3. Inv /\ RegularInv /\ ClosedInv /\ ArchiveInv => RoundTrip
  <2> SUFFICES ASSUME Inv, RegularInv, ClosedInv, ArchiveInv, Regular, pc = "done"
               PROVE  /\ Len(out.blocks) = Len(tmp)
                      /\ \A c \in Cab : /\ Extracted(c) = Content(c)
                                        /\ out.cabs[c].meta = "stored" <=> c \in cab_hdr
    BY DEF RoundTrip, Repacked
  <2>1. /\ out.cabs = s_cab /\ out.blocks = SubSeq(tmp, 1, tmp_pos) /\ tmp_pos = Len(tmp)
    BY BlocksSeq DEF ArchiveInv, CopyInv, Inv, TypeOK
  <2>2. Len(out.blocks) = Len(tmp)
    BY <2>1, BlocksSeq
  <2> SUFFICES ASSUME NEW c \in Cab
               PROVE  /\ Extracted(c) = Content(c)
                      /\ s_cab[c].meta = "stored" <=> c \in cab_hdr
    BY <2>1, <2>2
  <2>3. Measured = cab_cnt /\ c \in 0 .. Measured - 1
    BY DEF Measured, Cab
  <2>4. s_cab[c].blk_off = start[c] /\ s_cab[c].blk_sz = file[c]
    BY <2>3 DEF RegularInv, RegularTableInv
  <2>5. \A k \in 0 .. file[c] - 1 : Unpacked(start[c] + k) = <<c, k>>
    BY CabUnpacks
  <2>6. Extracted(c) = [k \in 0 .. file[c] - 1 |-> Unpacked(start[c] + k)]
    BY <2>1, <2>4, Zenon DEF Extracted
  <2>7. Extracted(c) = Content(c)
    BY <2>5, <2>6 DEF Content
  <2>8. s_cab[c].meta = "stored" <=> c \in cab_hdr
    BY <2>3 DEF ArchiveInv, MetaInv
  <2> QED BY <2>7, <2>8
<1> QED BY <1>1, <1>2, <1>3, RegularHolds, PTL DEF Spec
-----------------------------------------------------------------------------
(* The blocks that are too short for mhy1's cipher.                        *)

(* No such block gets into .blocks.                                        *)
LEMMA NextLong == Inv /\ LongInv /\ [Next]_vars => LongInv'
<1> SUFFICES ASSUME Inv, LongInv, [Next]_vars, format' = "mhy1"
             PROVE  \A b \in 1 .. Len(tmp') : tmp'[b].dec_sz >= MinBlock
  BY DEF LongInv
<1>1. CASE TakeRest \/ TopUp \/ TakeBlock
  <2>1. InLoop
    BY <1>1, BranchesRead
  <2>2. PICK n \in 0 .. Room, off \in Nat :
          /\ Read(n, off, Room - n, Held + n)
          /\ \/ off = 0 /\ n = Rest
             \/ off = cab_blk_off + n /\ n = Room /\ off > 0 /\ off < s_cab[j].blk_sz
    BY <1>1, BranchesRead
  <2>3. format = "mhy1" /\ cab_cnt' = cab_cnt
    BY <2>2 DEF Read, input, scan
  <2>4. /\ Room \in 1 .. BlockSize /\ Held \in 0 .. BlockSize /\ Held + Room = BlockSize
        /\ j \in 0 .. cab_cnt - 1 /\ cab_cnt \in Nat /\ Rest \in Nat
    BY <2>1, LoopFacts
  <2>5. CASE j' < cab_cnt /\ HasRoom(Room - n)
    <3>1. tmp' = tmp
      BY <2>2, <2>5 DEF Read
    <3> QED BY <2>3, <3>1 DEF LongInv
  <2>6. CASE ~(j' < cab_cnt /\ HasRoom(Room - n))
    <3>1. tmp' = Append(tmp, [dec_sz |-> Held + n, data |-> Filled(n)])
      BY <2>2, <2>3, <2>6 DEF Read
    <3>2. Held + n >= MinBlock
      <4>1. CASE n = Room
        BY <2>4, <4>1, MinBlockAssumption
      <4>2. CASE n # Room
        <5>1. off = 0 /\ n = Rest /\ j' = j + 1
          BY <2>2, <4>2 DEF Read
        <5>2. ~TooShort
          BY <1>1, <2>4, <4>2, <5>1 DEF TakeRest, TopUp, TakeBlock
        <5>3. ~(Held + Rest < MinBlock)
          BY <2>1, <2>2, <2>3, <2>6, <5>1, <5>2 DEF TooShort
        <5> QED BY <2>4, <5>1, <5>3, MinBlockAssumption
      <4> QED BY <4>1, <4>2
    <3>3. /\ Len(tmp') = Len(tmp) + 1 /\ tmp'[Len(tmp) + 1].dec_sz = Held + n
          /\ \A b \in 1 .. Len(tmp) : tmp'[b] = tmp[b]
      BY <3>1, BlocksSeq, AppendFacts
    <3> SUFFICES ASSUME NEW b \in 1 .. Len(tmp') PROVE tmp'[b].dec_sz >= MinBlock
      OBVIOUS
    <3>4. b \in 1 .. Len(tmp) \/ b = Len(tmp) + 1
      BY <3>3, BlocksSeq
    <3> QED BY <2>3, <3>2, <3>3, <3>4 DEF LongInv
  <2> QED BY <2>5, <2>6
<1>2. CASE ~(TakeRest \/ TopUp \/ TakeBlock)
  <2>1. tmp' = tmp /\ format' = format
    BY <1>2 DEF Next, ReadHdr, MeasureCab, CabMissing, CountBlocks, NoResources, Abort,
                WriteHeader, CopyBlock, Return, Terminated, vars, input, scan, loop
  <2> QED BY <2>1 DEF LongInv
<1> QED BY <1>1, <1>2

(* The remainder of a total that reaches r bytes into block k.             *)
LEMMA Reaches ==
  ASSUME NEW k \in Nat, NEW r \in 0 .. BlockSize - 1
  PROVE  (k * BlockSize + r) % BlockSize = r
<1>1. ((BlockSize * k) + r) % BlockSize = r
  BY ModUnique
<1>2. BlockSize * k = k * BlockSize
  OBVIOUS
<1> QED BY <1>1, <1>2

(* A block too short for mhy1 is the last one and holds the bytes that the *)
(* total has beyond full blocks.                                           *)
LEMMA ShortIsTail ==
  ASSUME Inv, RegularInv, Regular, TooShort
  PROVE  ShortTail /\ i = blk_cnt - 1
<1> DEFINE r == Held + Rest
<1>1. InLoop /\ Rest <= Room /\ r < MinBlock /\ ~(j + 1 < cab_cnt /\ HasRoom(Room - Rest))
  BY DEF TooShort
<1>2. /\ Room \in 1 .. BlockSize /\ Held \in 0 .. BlockSize /\ Held + Room = BlockSize
      /\ j \in 0 .. cab_cnt - 1 /\ cab_cnt \in Nat /\ Rest \in Nat /\ read_off = Held
      /\ cab_blk_off \in Nat
  BY <1>1, LoopFacts
<1>3. /\ Rest > 0 /\ i \in Nat /\ Cursor = start[j] + cab_blk_off
      /\ Cursor = (i * BlockSize) + read_off
  BY <1>1, RegularFacts
<1>4. r \in 1 .. MinBlock - 1 /\ r \in 0 .. BlockSize - 1
  BY <1>1, <1>2, <1>3, MinBlockAssumption
<1>5. j + 1 = cab_cnt
  BY <1>1, <1>2, <1>3, <1>4 DEF HasRoom
<1>6. total_blk_sz = (i * BlockSize) + r
  <2>1. pc = "loop" /\ Measured = cab_cnt
    BY <1>1 DEF InLoop, Measured
  <2>2. total_blk_sz = start[cab_cnt]
    BY <2>1 DEF RegularInv, RegularTableInv
  <2>3. start[j + 1] = start[j] + s_cab[j].blk_sz /\ s_cab[j].blk_sz \in Nat
    BY <1>1, <1>2, RegularFacts
  <2>4. start[j] \in Nat
    BY <1>1, <1>2, RegularFacts
  <2>5. start[cab_cnt] = Cursor + Rest
    BY <1>2, <1>3, <1>5, <2>3, <2>4 DEF Rest
  <2>6. i * BlockSize \in Nat
    BY <1>3
  <2> QED BY <1>2, <1>3, <2>2, <2>5, <2>6
<1>7. ShortTail
  <2>1. total_blk_sz % BlockSize = r
    <3> HIDE DEF r
    <3> QED BY <1>3, <1>4, <1>6, Reaches, Zenon
  <2> QED BY <1>4, <2>1 DEF ShortTail
<1>8. i = blk_cnt - 1
  <2>1. pc = "loop" /\ i < blk_cnt /\ blk_cnt \in Nat
    BY <1>1 DEF InLoop, Inv, TypeOK
  <2>2. (blk_cnt - 1) * BlockSize < (i * BlockSize) + r
    BY <1>3, <1>6, <2>1 DEF Inv, CountInv
  <2>3. ASSUME i + 1 <= blk_cnt - 1 PROVE FALSE
    <3>1. (i + 1) * BlockSize <= (blk_cnt - 1) * BlockSize
      BY <1>3, <2>1, <2>3, MulOrder
    <3>2. (i + 1) * BlockSize = (i * BlockSize) + BlockSize /\ i * BlockSize \in Nat
      BY <1>3
    <3>3. (blk_cnt - 1) * BlockSize \in Int
      BY <2>1
    <3> QED BY <1>4, <2>2, <3>1, <3>2, <3>3
  <2> QED BY <1>3, <2>1, <2>3
<1> QED BY <1>7, <1>8

(* When a pack returns, the bytes beyond full blocks are in a block of     *)
(* their own, and that was not too short.                                  *)
LEMMA DoneHasNoShortTail ==
  ASSUME Inv, RegularInv, ClosedInv, LastInv, LongInv,
         Regular, format = "mhy1", pc = "done"
  PROVE  ~ShortTail
<1> SUFFICES ASSUME ShortTail PROVE FALSE
  OBVIOUS
<1>1. Measured = cab_cnt /\ cab_cnt \in Nat /\ total_blk_sz \in Nat
  BY DEF Measured, Inv, TypeOK
<1>2. /\ total_blk_sz = start[cab_cnt] /\ Len(tmp) = i /\ i >= blk_cnt
      /\ total_blk_sz <= blk_cnt * BlockSize /\ i \in Nat /\ blk_cnt \in Nat
  BY <1>1 DEF RegularInv, RegularTableInv, RegularLoopInv, Inv, TypeOK
<1>3. j = cab_cnt
  BY <1>2 DEF ClosedInv
<1>4. total_blk_sz % BlockSize \in 1 .. MinBlock - 1
  BY DEF ShortTail
<1>5. Len(tmp) > 0
  <2> SUFFICES ASSUME Len(tmp) = 0 PROVE FALSE
    BY <1>2
  <2>1. blk_cnt = 0 /\ blk_cnt * BlockSize = 0
    BY <1>2
  <2>2. total_blk_sz = 0
    BY <1>1, <1>2, <2>1
  <2>3. (0 * BlockSize + 0) % BlockSize = 0 /\ 0 * BlockSize + 0 = 0
    BY Reaches
  <2> QED BY <1>4, <2>2, <2>3
<1> DEFINE last == tmp[Len(tmp)].dec_sz
<1>6. (Len(tmp) - 1) * BlockSize + last = total_blk_sz
  BY <1>2, <1>3, <1>5 DEF LastInv
<1>7. last \in 0 .. BlockSize /\ last >= MinBlock /\ Len(tmp) - 1 \in Nat
  <2>1. Len(tmp) \in 1 .. Len(tmp)
    BY <1>5, BlocksSeq
  <2> QED BY <1>2, <1>5, <2>1, BlocksSeq DEF LongInv
<1> HIDE DEF last
<1>8. CASE last < BlockSize
  <2>1. total_blk_sz % BlockSize = last
    BY <1>6, <1>7, <1>8, Reaches
  <2> QED BY <1>4, <1>7, <2>1, MinBlockAssumption
<1>9. CASE last = BlockSize
  <2>1. Len(tmp) \in Nat /\ (Len(tmp) - 1) * BlockSize + BlockSize = Len(tmp) * BlockSize + 0
    BY <1>2
  <2>2. (Len(tmp) * BlockSize + 0) % BlockSize = 0
    BY <1>2, Reaches
  <2> QED BY <1>4, <1>6, <1>9, <2>1, <2>2
<1> QED BY <1>7, <1>8, <1>9

(* Whether mhy1's assertion ends a pack depends on the total alone: with a *)
(* remainder of 1 to MinBlock - 1 bytes no pack returns, and a pack aborts *)
(* with no other one, for every number and sizes of cabs.                  *)
THEOREM AbortsAtTail == Spec => []AbortsOnShortTail
<1>1. Init => ClosedInv /\ LastInv /\ LongInv
  BY DEF Init, ClosedInv, LastInv, LongInv
<1>2. Inv /\ RegularInv /\ ClosedInv /\ LastInv /\ LongInv /\ [Next]_vars
        => ClosedInv' /\ LastInv' /\ LongInv'
  BY NextClosed, NextLast, NextLong
<1>3. Inv /\ RegularInv /\ ClosedInv /\ LastInv /\ LongInv => AbortsOnShortTail
  BY ShortIsTail, DoneHasNoShortTail DEF AbortsOnShortTail
<1> QED BY <1>1, <1>2, <1>3, RegularHolds, PTL DEF Spec
=============================================================================
