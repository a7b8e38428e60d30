---------------------------- MODULE UnpackProofs ----------------------------
(***************************************************************************)
(* Proofs about an unpack, for every file of archives as the packers write *)
(* them, every format and all sizes of the ciphers' windows.               *)
(***************************************************************************)
EXTENDS Unpack, SumsProofs

-----------------------------------------------------------------------------
(* The inductive invariant, in named parts.                                *)

Inside == pc \in {"cab.hdr", "block", "free", "cab"} \* in extract_*
Failed == {"fail", "corrupt", "abort"}

\* The loop of the main is at the start of an archive of the file, or its end.
PlaceInv ==
  /\ <<format, file>> \in Inputs
  /\ i \in 0 .. Len(file) /\ current = Start(file, i + 1)
  /\ pc \in {"next", "cab.hdr", "block", "free", "cab"} \cup Ends
  /\ Inside => i < Len(file)
  /\ pc = "ok" => i = Len(file)

\* What extract has counted and added up is what its place in the archive says.
OffsetInv ==
  /\ n \in Nat \ {0} /\ data_off \in 0 .. BufSz(file)
  /\ blk_data_off \in 0 .. Cardinality(DOMAIN data_buf)
  /\ Inside => DOMAIN data_buf = 0 .. Sum(file[i + 1].cabs) - 1
  /\ pc \in {"cab.hdr", "cab"} => n <= Len(file[i + 1].cabs)
  /\ pc = "free" => n = 1
  /\ pc = "cab.hdr" => data_off = 1 + file[i + 1].hdr /\ blk_data_off = 0
  /\ pc = "block" =>
       /\ n <= Len(file[i + 1].cmp)
       /\ data_off = 1 + file[i + 1].hdr + Before(file[i + 1].cmp, n)
       /\ blk_data_off = Before(file[i + 1].dec, n)
  /\ pc \in {"free", "cab"} =>
       data_off = Length(file[i + 1]) /\ blk_data_off = Sum(file[i + 1].dec)

\* Every block deciphered so far stays inside itself.
FitSoFar ==
  /\ \A c \in 1 .. i : \A b \in 1 .. Len(file[c].cmp) : Fits(c, b)
  /\ pc = "block" => \A b \in 1 .. n - 1 : Fits(i + 1, b)
  /\ pc \in {"free", "cab"} => \A b \in 1 .. Len(file[i + 1].cmp) : Fits(i + 1, b)

Reached == IF pc = "next" THEN current ELSE current + data_off

\* Then no window has reached what comes next.
CellsInv ==
  /\ changed \in [0 .. BufSz(file) - 1 -> SUBSET (0 .. BufSz(file) - 1)]
  /\ pc \notin Ends /\ FitSoFar =>
       \A cell \in 0 .. BufSz(file) - 1 : cell >= Reached => changed[cell] = {}

\* The plain data is that of the archive as far as it goes.
DataInv ==
  pc \in {"block", "free", "cab"} /\ Sheltered(i + 1) =>
    \A x \in 0 .. blk_data_off - 1 : data_buf[x] = Plain(i + 1, x)

\* Which files of archive a are written.
HdrDone(a) == a <= i \/ (a = i + 1 /\ Inside)
CabHdrDone(a, c) ==
  a <= i \/ (a = i + 1 /\ (pc \in {"block", "free", "cab"} \/ (pc = "cab.hdr" /\ c < n)))
KeyDone(a, b) == a <= i \/ (a = i + 1 /\ (pc \in {"free", "cab"} \/ (pc = "block" /\ b < n)))
CabDone(a, c) == a <= i \/ (a = i + 1 /\ pc = "cab" /\ c < n)

HdrFile(a) == IF HdrDone(a) THEN {<<a - 1, "hdr">>} ELSE {}
CabHdrFiles(a) ==
  {<<a - 1, "cab.hdr", c>> : c \in {x \in 1 .. Len(file[a].cabs) : CabHdrDone(a, x)}}
KeyFiles(a) ==
  {<<a - 1, "blk.key", b>> :
     b \in {x \in 1 .. Len(file[a].cmp) : format # "blb3" /\ KeyDone(a, x)}}
CabFiles(a) == {<<a - 1, "cab", c>> : c \in {x \in 1 .. Len(file[a].cabs) : CabDone(a, x)}}

Written(a) == HdrFile(a) \cup CabHdrFiles(a) \cup KeyFiles(a) \cup CabFiles(a)

OutInv == pc \notin Failed => DOMAIN out = UNION {Written(a) : a \in 1 .. Len(file)}

\* A failure does not take this away.
FailedInv == pc \in Failed => MetadataFirst

UnpackInv ==
  /\ PlaceInv /\ OffsetInv /\ CellsInv /\ DataInv /\ OutInv /\ FailedInv
  /\ FilesIntact /\ NothingTurnedDown
-----------------------------------------------------------------------------
(* Archives of a file.                                                     *)

(* The fields of an archive.                                               *)
LEMMA ArchiveFields ==
  \A r \in Archive :
    r.hdr \in Nat /\ r.cabs \in Seq(Nat) /\ r.cmp \in Seq(Nat) /\ r.dec \in Seq(Nat)
  BY DEF Archive

(* Elements of a sequence of numbers.                                      *)
LEMMA Element == ASSUME NEW s \in Seq(Nat), NEW k \in 1 .. Len(s) PROVE s[k] \in Nat
  OBVIOUS

(* What an input is, in terms of format and file.                          *)
LEMMA InputFacts ==
  ASSUME <<format, file>> \in Inputs
  PROVE  /\ format \in {"mhy0", "mhy1", "encr", "blb3"} /\ file \in Seq(Archive)
         /\ \A a \in 1 .. Len(file) :
              /\ file[a] \in Archive /\ file[a].hdr \in Nat /\ file[a].hdr >= Window
              /\ file[a].cabs \in Seq(Nat) /\ Len(file[a].cabs) \in Nat \ {0}
              /\ file[a].cmp \in Seq(Nat) /\ Len(file[a].cmp) \in Nat \ {0}
              /\ file[a].dec \in Seq(Nat) /\ Len(file[a].dec) = Len(file[a].cmp)
              /\ Sum(file[a].cabs) = Sum(file[a].dec)
<1>1. /\ format \in {"mhy0", "mhy1", "encr", "blb3"} /\ file \in Seq(Archive)
      /\ \A a \in DOMAIN file :
         /\ file[a].hdr >= Window
         /\ file[a].cabs # <<>> /\ file[a].cmp # <<>>
         /\ Len(file[a].cmp) = Len(file[a].dec)
         /\ Sum(file[a].cabs) = Sum(file[a].dec)
  <2> DEFINE input == <<format, file>>
  <2>1. input[1] = format /\ input[2] = file
    OBVIOUS
  <2>2. input \in {"mhy0", "mhy1", "encr", "blb3"} \X Seq(Archive)
    BY InputsAssumption
  <2> QED BY <2>1, <2>2, InputsAssumption
<1>2. ASSUME NEW a \in 1 .. Len(file)
      PROVE  /\ file[a] \in Archive /\ file[a].hdr \in Nat /\ file[a].cabs \in Seq(Nat)
             /\ file[a].cmp \in Seq(Nat) /\ file[a].dec \in Seq(Nat)
  <2>1. file[a] \in Archive
    BY <1>1
  <2> QED BY <2>1, ArchiveFields
<1>3. \A s \in Seq(Nat) : s # <<>> => Len(s) \in Nat \ {0}
  OBVIOUS
<1> QED BY <1>1, <1>2, <1>3

(* Archives follow each other without gap and take a cell at least.        *)
LEMMA StartFacts ==
  ASSUME NEW f \in Seq(Archive)
  PROVE  /\ \A a \in 1 .. Len(f) + 1 : Start(f, a) \in Nat
         /\ Start(f, 1) = 0 /\ BufSz(f) = Start(f, Len(f) + 1)
         /\ \A a \in 1 .. Len(f) :
              /\ Sum(f[a].cmp) \in Nat /\ f[a].hdr \in Nat
              /\ Length(f[a]) = 1 + f[a].hdr + Sum(f[a].cmp)
              /\ Start(f, a + 1) = Start(f, a) + Length(f[a])
         /\ \A a, b \in 1 .. Len(f) + 1 :
              /\ a <= b => Start(f, a) <= Start(f, b)
              /\ a < b => Start(f, a) < Start(f, b)
<1> DEFINE s == [x \in 1 .. Len(f) |-> Length(f[x])]
<1>1. \A a \in 1 .. Len(f) :
        /\ Sum(f[a].cmp) \in Nat /\ f[a].hdr \in Nat
        /\ Length(f[a]) = 1 + f[a].hdr + Sum(f[a].cmp) /\ Length(f[a]) \in Nat \ {0}
  <2> TAKE a \in 1 .. Len(f)
  <2>1. f[a].hdr \in Nat /\ f[a].cmp \in Seq(Nat)
    BY ArchiveFields
  <2>2. Sum(f[a].cmp) \in Nat
    BY <2>1, BeforeFacts
  <2> QED BY <2>1, <2>2 DEF Length
<1>2. s \in Seq(Nat) /\ Len(s) = Len(f) /\ \A a \in 1 .. Len(f) : s[a] = Length(f[a])
  BY <1>1
<1>3. \A a : Start(f, a) = Before(s, a)
  BY DEF Start
<1> HIDE DEF s
<1>4. /\ \A a \in 1 .. Len(f) + 1 : Start(f, a) \in Nat
      /\ Start(f, 1) = 0
      /\ \A a \in 1 .. Len(f) : Start(f, a + 1) = Start(f, a) + Length(f[a])
      /\ \A a, b \in 1 .. Len(f) + 1 : a <= b => Start(f, a) <= Start(f, b)
  <2>1. /\ \A a \in 1 .. Len(f) + 1 : Before(s, a) \in Nat
        /\ Before(s, 1) = 0
        /\ \A a \in 1 .. Len(f) : Before(s, a + 1) = Before(s, a) + s[a]
        /\ \A a, b \in 1 .. Len(f) + 1 : a <= b => Before(s, a) <= Before(s, b)
    BY <1>2, BeforeFacts
  <2> QED BY <1>2, <1>3, <2>1
<1>5. ASSUME NEW a \in 1 .. Len(f) + 1, NEW b \in 1 .. Len(f) + 1, a < b
      PROVE  Start(f, a) < Start(f, b)
  <2>1. a \in 1 .. Len(f) /\ a + 1 \in 1 .. Len(f) + 1 /\ a + 1 <= b
    BY <1>5
  <2>2. Start(f, a + 1) <= Start(f, b) /\ Start(f, a + 1) = Start(f, a) + Length(f[a])
    BY <1>4, <2>1
  <2>3. Length(f[a]) \in Nat \ {0} /\ Start(f, a) \in Nat /\ Start(f, b) \in Nat
    BY <1>1, <1>4, <2>1
  <2> QED BY <2>2, <2>3
<1> QED BY <1>1, <1>4, <1>5 DEF BufSz

-----------------------------------------------------------------------------
(* Where a run is.                                                         *)

(* The archive that extract is given, and where it ends.                   *)
LEMMA HereFacts ==
  ASSUME PlaceInv
  PROVE  /\ Len(file) \in Nat /\ DOMAIN file = 1 .. Len(file)
         /\ i \in Nat /\ current \in Nat /\ BufSz(file) \in Nat /\ current <= BufSz(file)
         /\ current < BufSz(file) <=> i < Len(file)
         /\ i < Len(file) =>
              /\ i + 1 \in 1 .. Len(file) /\ Here = i + 1 /\ archive = file[i + 1]
              /\ current < BufSz(file)
              /\ Length(archive) \in Nat /\ Length(archive) = 1 + archive.hdr + Sum(archive.cmp)
              /\ current + Length(archive) = Start(file, i + 2)
              /\ Start(file, i + 2) <= BufSz(file)
<1>1. /\ file \in Seq(Archive) /\ i \in 0 .. Len(file) /\ current = Start(file, i + 1)
  BY InputFacts DEF PlaceInv
<1>2. Len(file) \in Nat /\ DOMAIN file = 1 .. Len(file) /\ i \in Nat
  BY <1>1
<1>3. /\ \A a \in 1 .. Len(file) + 1 : Start(file, a) \in Nat
      /\ BufSz(file) = Start(file, Len(file) + 1)
      /\ \A a \in 1 .. Len(file) :
           /\ Sum(file[a].cmp) \in Nat /\ file[a].hdr \in Nat
           /\ Length(file[a]) = 1 + file[a].hdr + Sum(file[a].cmp)
           /\ Start(file, a + 1) = Start(file, a) + Length(file[a])
      /\ \A a, b \in 1 .. Len(file) + 1 :
           /\ a <= b => Start(file, a) <= Start(file, b)
           /\ a < b => Start(file, a) < Start(file, b)
  BY <1>1, StartFacts
<1>4. /\ i + 1 \in 1 .. Len(file) + 1 /\ Len(file) + 1 \in 1 .. Len(file) + 1
      /\ i < Len(file) <=> i + 1 < Len(file) + 1
  BY <1>1, <1>2
<1>5. current \in Nat /\ BufSz(file) \in Nat /\ current <= BufSz(file)
  <2>1. i + 1 <= Len(file) + 1
    BY <1>1, <1>2
  <2>2. Start(file, i + 1) <= Start(file, Len(file) + 1)
    BY <1>3, <1>4, <2>1
  <2> QED BY <1>1, <1>3, <1>4, <2>2
<1>6. current < BufSz(file) <=> i < Len(file)
  <2>1. CASE i < Len(file)
    <3>1. Start(file, i + 1) < Start(file, Len(file) + 1)
      BY <1>3, <1>4, <2>1
    <3> QED BY <1>1, <1>3, <2>1, <3>1
  <2>2. CASE ~(i < Len(file))
    <3>1. i = Len(file)
      BY <1>1, <2>2
    <3> QED BY <1>1, <1>3, <1>5, <2>2, <3>1
  <2> QED BY <2>1, <2>2
<1>7. ASSUME i < Len(file)
      PROVE  /\ i + 1 \in 1 .. Len(file) /\ Here = i + 1 /\ archive = file[i + 1]
             /\ Length(archive) \in Nat /\ Length(archive) = 1 + archive.hdr + Sum(archive.cmp)
             /\ current + Length(archive) = Start(file, i + 2)
             /\ Start(file, i + 2) <= BufSz(file)
  <2>1. i + 1 \in 1 .. Len(file) /\ i + 2 \in 1 .. Len(file) + 1 /\ i + 2 = (i + 1) + 1
    BY <1>1, <1>2, <1>7
  <2>2. \A a \in 1 .. Len(file) : Start(file, a) = current => a = i + 1
    <3> TAKE a \in 1 .. Len(file)
    <3>1. a \in 1 .. Len(file) + 1 /\ (a < i + 1 \/ a = i + 1 \/ i + 1 < a)
      BY <1>2
    <3>2. Start(file, a) \in Nat /\ Start(file, i + 1) \in Nat
      BY <1>3, <1>4, <3>1
    <3>3. a < i + 1 => Start(file, a) < Start(file, i + 1)
      BY <1>3, <1>4, <3>1
    <3>4. i + 1 < a => Start(file, i + 1) < Start(file, a)
      BY <1>3, <1>4, <3>1
    <3> QED BY <1>1, <3>1, <3>2, <3>3, <3>4
  <2>3. Here = i + 1
    BY <1>1, <1>2, <2>1, <2>2 DEF Here
  <2>4. archive = file[i + 1]
    BY <2>3 DEF archive
  <2>5. /\ Start(file, i + 2) = current + Length(file[i + 1])
        /\ Sum(file[i + 1].cmp) \in Nat /\ file[i + 1].hdr \in Nat
        /\ Length(file[i + 1]) = 1 + file[i + 1].hdr + Sum(file[i + 1].cmp)
        /\ Start(file, i + 2) <= Start(file, Len(file) + 1)
    BY <1>1, <1>3, <1>4, <2>1
  <2>6. Length(archive) \in Nat /\ Length(archive) = 1 + archive.hdr + Sum(archive.cmp)
    BY <2>4, <2>5
  <2>7. Start(file, i + 2) <= BufSz(file)
    BY <1>3, <2>5
  <2> QED BY <2>1, <2>3, <2>4, <2>5, <2>6, <2>7
<1> QED BY <1>2, <1>5, <1>6, <1>7

(* Cabs and blocks are numbered.                                           *)
LEMMA Numbers ==
  ASSUME PlaceInv
  PROVE  \A a \in DOMAIN file :
           DOMAIN file[a].cabs \subseteq Int /\ DOMAIN file[a].cmp \subseteq Int
  BY InputFacts DEF PlaceInv

(* The fields of the archive at hand.                                      *)
LEMMA ArchiveHere ==
  ASSUME PlaceInv, i < Len(file)
  PROVE  /\ archive.hdr \in Nat /\ archive.hdr >= Window
         /\ archive.cabs \in Seq(Nat) /\ Len(archive.cabs) \in Nat \ {0}
         /\ archive.cmp \in Seq(Nat) /\ Len(archive.cmp) \in Nat \ {0}
         /\ archive.dec \in Seq(Nat) /\ Len(archive.dec) = Len(archive.cmp)
         /\ Sum(archive.cabs) \in Nat /\ Sum(archive.cabs) = Sum(archive.dec)
<1>1. i + 1 \in 1 .. Len(file) /\ archive = file[i + 1]
  BY HereFacts
<1>2. <<format, file>> \in Inputs
  BY DEF PlaceInv
<1>3. /\ archive.hdr \in Nat /\ archive.hdr >= Window
      /\ archive.cabs \in Seq(Nat) /\ Len(archive.cabs) \in Nat \ {0}
      /\ archive.cmp \in Seq(Nat) /\ Len(archive.cmp) \in Nat \ {0}
      /\ archive.dec \in Seq(Nat) /\ Len(archive.dec) = Len(archive.cmp)
      /\ Sum(archive.cabs) = Sum(archive.dec)
  BY <1>1, <1>2, InputFacts
<1>4. Sum(archive.cabs) \in Nat
  <2>1. Before(archive.cabs, Len(archive.cabs) + 1) = Sum(archive.cabs)
    BY <1>3, BeforeFacts
  <2>2. Len(archive.cabs) + 1 \in 1 .. Len(archive.cabs) + 1
    BY <1>3
  <2> QED BY <1>3, <2>1, <2>2, BeforeFacts
<1> QED BY <1>3, <1>4

(* The block at hand lies inside the archive, and its plain data inside    *)
(* data_buf.                                                               *)
LEMMA BlockHere ==
  ASSUME PlaceInv, OffsetInv, pc = "block"
  PROVE  /\ n \in 1 .. Len(archive.cmp)
         /\ archive.cmp[n] \in Nat /\ archive.dec[n] \in Nat
         /\ data_off \in Nat /\ blk_data_off \in Nat
         /\ blk_data_off = Before(archive.dec, n)
         /\ current + data_off = BlockAt(Here, n)
         /\ data_off + archive.cmp[n] = 1 + archive.hdr + Before(archive.cmp, n + 1)
         /\ data_off + archive.cmp[n] <= Length(archive)
         /\ blk_data_off + archive.dec[n] = Before(archive.dec, n + 1)
         /\ blk_data_off + archive.dec[n] <= Sum(archive.cabs)
         /\ n = Len(archive.cmp) =>
              /\ data_off + archive.cmp[n] = Length(archive)
              /\ blk_data_off + archive.dec[n] = Sum(archive.dec)
<1>1. i < Len(file)
  BY DEF PlaceInv, Inside
<1>2. /\ i + 1 \in 1 .. Len(file) /\ Here = i + 1 /\ archive = file[i + 1]
      /\ Length(archive) = 1 + archive.hdr + Sum(archive.cmp) /\ current \in Nat
  BY <1>1, HereFacts
<1>3. /\ n \in Nat \ {0} /\ n <= Len(archive.cmp)
      /\ data_off = 1 + archive.hdr + Before(archive.cmp, n)
      /\ blk_data_off = Before(archive.dec, n)
  BY <1>2 DEF OffsetInv
<1>4. /\ archive.hdr \in Nat
      /\ archive.cmp \in Seq(Nat) /\ Len(archive.cmp) \in Nat \ {0}
      /\ archive.dec \in Seq(Nat) /\ Len(archive.dec) = Len(archive.cmp)
      /\ Sum(archive.cabs) = Sum(archive.dec)
  BY <1>1, ArchiveHere
<1>5. /\ n \in 1 .. Len(archive.cmp) /\ n + 1 \in 1 .. Len(archive.cmp) + 1
      /\ n \in 1 .. Len(archive.cmp) + 1
      /\ Len(archive.cmp) + 1 \in 1 .. Len(archive.cmp) + 1 /\ n + 1 <= Len(archive.cmp) + 1
  BY <1>3, <1>4
<1>6. /\ Before(archive.cmp, n) \in Nat
      /\ Before(archive.cmp, n + 1) = Before(archive.cmp, n) + archive.cmp[n]
      /\ Before(archive.cmp, n + 1) <= Sum(archive.cmp)
      /\ Before(archive.cmp, Len(archive.cmp) + 1) = Sum(archive.cmp)
  BY <1>4, <1>5, BeforeFacts
<1>7. /\ Before(archive.dec, n) \in Nat
      /\ Before(archive.dec, n + 1) = Before(archive.dec, n) + archive.dec[n]
      /\ Before(archive.dec, n + 1) <= Sum(archive.dec)
      /\ Before(archive.dec, Len(archive.cmp) + 1) = Sum(archive.dec)
  <2> DEFINE len == Len(archive.dec)
  <2>1. /\ n \in 1 .. len /\ n + 1 \in 1 .. len + 1 /\ n \in 1 .. len + 1
        /\ len + 1 \in 1 .. len + 1 /\ n + 1 <= len + 1 /\ len = Len(archive.cmp)
    BY <1>4, <1>5
  <2> QED BY <1>4, <2>1, BeforeFacts
<1>8. archive.cmp[n] \in Nat /\ archive.dec[n] \in Nat
  <2>1. n \in 1 .. Len(archive.dec)
    BY <1>4, <1>5
  <2> QED BY <1>4, <1>5, <2>1, Element
<1>9. current + data_off = BlockAt(Here, n)
  <2>1. current = Start(file, i + 1)
    BY DEF PlaceInv
  <2>2. BlockAt(Here, n) = Start(file, Here) + 1 + file[Here].hdr + Before(file[Here].cmp, n)
    BY DEF BlockAt
  <2>3. BlockAt(Here, n) = current + 1 + archive.hdr + Before(archive.cmp, n)
    BY <1>2, <2>1, <2>2
  <2>4. \A p, h, x \in Nat : p + (1 + h + x) = p + 1 + h + x
    OBVIOUS
  <2>5. current + (1 + archive.hdr + Before(archive.cmp, n))
          = current + 1 + archive.hdr + Before(archive.cmp, n)
    <3>1. current \in Nat /\ archive.hdr \in Nat /\ Before(archive.cmp, n) \in Nat
      BY <1>2, <1>4, <1>6
    <3> QED BY <2>4, <3>1, Zenon
  <2> QED BY <1>3, <2>3, <2>5
<1>10. Sum(archive.cmp) \in Nat
  BY <1>4, <1>5, <1>6, BeforeFacts
<1>11. data_off + archive.cmp[n] = 1 + archive.hdr + Before(archive.cmp, n + 1)
  <2>1. \A h, x, z \in Nat : (1 + h + x) + z = 1 + h + (x + z)
    OBVIOUS
  <2>2. (1 + archive.hdr + Before(archive.cmp, n)) + archive.cmp[n]
          = 1 + archive.hdr + (Before(archive.cmp, n) + archive.cmp[n])
    BY <1>4, <1>6, <1>8, <2>1
  <2>3. data_off + archive.cmp[n] = 1 + archive.hdr + (Before(archive.cmp, n) + archive.cmp[n])
    BY <1>3, <2>2
  <2> QED BY <1>6, <2>3
<1>12. blk_data_off + archive.dec[n] = Before(archive.dec, n + 1)
  BY <1>3, <1>7
<1>13. data_off + archive.cmp[n] <= Length(archive)
  <2>1. \A h, x, z \in Nat : x <= z => 1 + h + x <= 1 + h + z
    OBVIOUS
  <2>2. Before(archive.cmp, n + 1) \in Nat
    BY <1>4, <1>5, BeforeFacts
  <2>3. 1 + archive.hdr + Before(archive.cmp, n + 1) <= 1 + archive.hdr + Sum(archive.cmp)
    BY <1>4, <1>6, <1>10, <2>1, <2>2
  <2> QED BY <1>2, <1>11, <2>3
<1>14. n = Len(archive.cmp) =>
         /\ data_off + archive.cmp[n] = Length(archive)
         /\ blk_data_off + archive.dec[n] = Sum(archive.dec)
  <2> SUFFICES ASSUME n = Len(archive.cmp)
               PROVE  /\ data_off + archive.cmp[n] = Length(archive)
                      /\ blk_data_off + archive.dec[n] = Sum(archive.dec)
    OBVIOUS
  <2>1. Before(archive.cmp, n + 1) = Sum(archive.cmp) /\ Before(archive.dec, n + 1) = Sum(archive.dec)
    BY <1>6, <1>7
  <2> QED BY <1>2, <1>11, <1>12, <2>1
<1>15. data_off \in Nat /\ blk_data_off \in Nat
  <2>1. \A h, x \in Nat : 1 + h + x \in Nat
    OBVIOUS
  <2>2. 1 + archive.hdr + Before(archive.cmp, n) \in Nat
    BY <1>4, <1>6, <2>1
  <2> QED BY <1>3, <1>7, <2>2
<1> QED BY <1>3, <1>4, <1>5, <1>7, <1>8, <1>9, <1>11, <1>12, <1>13, <1>14, <1>15

-----------------------------------------------------------------------------
(* What the steps have in common.                                          *)

(* Nothing that is said of the file changes with the rest of the state.    *)
LEMMA SameFile ==
  ASSUME UNCHANGED <<format, file>>
  PROVE  /\ \A a : Names(a)' = Names(a) /\ CabNames(a)' = CabNames(a)
         /\ \A a, b : Fits(a, b)' <=> Fits(a, b)
         /\ \A a : Sheltered(a)' <=> Sheltered(a)
<1>1. \A a : Names(a)' = Names(a) /\ CabNames(a)' = CabNames(a)
  BY DEF Names, CabNames
<1>2. \A x : Touched(x)' = Touched(x)
  BY DEF Touched
<1>3. \A a, b : Fits(a, b)' <=> Fits(a, b)
  BY <1>2 DEF Fits
<1>4. \A a : Sheltered(a)' <=> Sheltered(a)
  BY <1>3 DEF Sheltered
<1> QED BY <1>1, <1>3, <1>4

(* A write adds one file and leaves the others alone.                      *)
LEMMA Writes ==
  ASSUME NEW name, NEW content, Write(name, content)
  PROVE  /\ DOMAIN out' = DOMAIN out \cup {name} /\ out'[name] = content
         /\ \A m \in DOMAIN out : m # name => out'[m] = out[m]
  BY DEF Write

(* How many elements an interval from 0 has.                               *)
LEMMA RangeSize ==
  ASSUME NEW size \in Nat
  PROVE  Cardinality(0 .. size - 1) = size
<1>1. 0 \in Int /\ size - 1 \in Int
  OBVIOUS
<1>2. Cardinality(0 .. size - 1) = IF 0 > size - 1 THEN 0 ELSE size - 1 - 0 + 1
  BY <1>1, FS_Interval
<1> QED BY <1>2

(* What FilesIntact says of archive a of f when o is written.              *)
IntactAt(f, o, a) ==
  /\ \A c \in DOMAIN f[a].cabs : <<a - 1, "cab", c>> \in DOMAIN o =>
       o[<<a - 1, "cab", c>>] =
         [x \in 0 .. f[a].cabs[c] - 1 |-> Plain(a, Before(f[a].cabs, c) + x)]
  /\ \A b \in DOMAIN f[a].cmp : <<a - 1, "blk.key", b>> \in DOMAIN o =>
       o[<<a - 1, "blk.key", b>>] = <<a, b>>

CabOf(a, c) == [x \in 0 .. file[a].cabs[c] - 1 |-> Plain(a, Before(file[a].cabs, c) + x)]

(* FilesIntact survives a write of the right content.                      *)
LEMMA IntactStep ==
  ASSUME FilesIntact, UNCHANGED <<format, file>>, NEW name, NEW content,
         Write(name, content),
         \A a \in DOMAIN file : Sheltered(a) =>
           /\ \A c \in DOMAIN file[a].cabs :
                name = <<a - 1, "cab", c>> => content = CabOf(a, c)
           /\ \A b \in DOMAIN file[a].cmp :
                name = <<a - 1, "blk.key", b>> => content = <<a, b>>
  PROVE  FilesIntact'
<1>1. /\ DOMAIN out' = DOMAIN out \cup {name} /\ out'[name] = content
      /\ \A m \in DOMAIN out : m # name => out'[m] = out[m]
  BY Writes
<1>2. \A a : Sheltered(a)' <=> Sheltered(a)
  BY SameFile
<1>3. ASSUME NEW a \in DOMAIN file, Sheltered(a)
      PROVE  /\ \A c \in DOMAIN file[a].cabs : <<a - 1, "cab", c>> \in DOMAIN out' =>
                  out'[<<a - 1, "cab", c>>] = CabOf(a, c)
             /\ \A b \in DOMAIN file[a].cmp : <<a - 1, "blk.key", b>> \in DOMAIN out' =>
                  out'[<<a - 1, "blk.key", b>>] = <<a, b>>
  <2>1. /\ \A c \in DOMAIN file[a].cabs : <<a - 1, "cab", c>> \in DOMAIN out =>
             out[<<a - 1, "cab", c>>] = CabOf(a, c)
        /\ \A b \in DOMAIN file[a].cmp : <<a - 1, "blk.key", b>> \in DOMAIN out =>
             out[<<a - 1, "blk.key", b>>] = <<a, b>>
    BY <1>3, Zenon DEF FilesIntact, CabOf
  <2>2. ASSUME NEW c \in DOMAIN file[a].cabs, <<a - 1, "cab", c>> \in DOMAIN out'
        PROVE  out'[<<a - 1, "cab", c>>] = CabOf(a, c)
    <3>1. CASE name = <<a - 1, "cab", c>>
      <4>1. content = CabOf(a, c)
        BY <1>3, <3>1, Zenon
      <4> QED BY <1>1, <3>1, <4>1, Zenon
    <3>2. CASE name # <<a - 1, "cab", c>>
      BY <1>1, <2>1, <2>2, <3>2, Zenon
    <3> QED BY <3>1, <3>2
  <2>3. ASSUME NEW b \in DOMAIN file[a].cmp, <<a - 1, "blk.key", b>> \in DOMAIN out'
        PROVE  out'[<<a - 1, "blk.key", b>>] = <<a, b>>
    <3>1. CASE name = <<a - 1, "blk.key", b>>
      <4>1. content = <<a, b>>
        BY <1>3, <3>1, Zenon
      <4> QED BY <1>1, <3>1, <4>1, Zenon
    <3>2. CASE name # <<a - 1, "blk.key", b>>
      BY <1>1, <2>1, <2>3, <3>2, Zenon
    <3> QED BY <3>1, <3>2
  <2> QED BY <2>2, <2>3, Zenon
<1>4. \A a \in DOMAIN file : Sheltered(a) => IntactAt(file, out', a)
  BY <1>3, Zenon DEF IntactAt, CabOf
<1>5. \A a \in DOMAIN file' : Sheltered(a)' => IntactAt(file', out', a)
  BY <1>2, <1>4
<1> QED BY <1>5, Zenon DEF FilesIntact, IntactAt

(* It survives a step that writes nothing.                                 *)
LEMMA IntactStays ==
  ASSUME FilesIntact, UNCHANGED <<format, file, out>>
  PROVE  FilesIntact'
<1>1. \A a : Sheltered(a)' <=> Sheltered(a)
  BY SameFile
<1>2. \A a \in DOMAIN file : Sheltered(a) => IntactAt(file, out, a)
  BY Zenon DEF FilesIntact, IntactAt
<1>3. \A a \in DOMAIN file' : Sheltered(a)' => IntactAt(file', out', a)
  BY <1>1, <1>2
<1> QED BY <1>3, Zenon DEF FilesIntact, IntactAt

(* No two files of the archives have the same name.                        *)
LEMMA NamesDiffer ==
  \A a, b, c, d \in Int :
    /\ <<a, "hdr">> # <<b, "cab.hdr", c>> /\ <<a, "hdr">> # <<b, "blk.key", c>>
    /\ <<a, "hdr">> # <<b, "cab", c>> /\ <<a, "cab.hdr", d>> # <<b, "blk.key", c>>
    /\ <<a, "cab.hdr", d>> # <<b, "cab", c>> /\ <<a, "blk.key", d>> # <<b, "cab", c>>
    /\ (<<a, "hdr">> = <<b, "hdr">> => a = b)
    /\ (<<a, "cab.hdr", c>> = <<b, "cab.hdr", d>> => a = b /\ c = d)
    /\ (<<a, "blk.key", c>> = <<b, "blk.key", d>> => a = b /\ c = d)
    /\ (<<a, "cab", c>> = <<b, "cab", d>> => a = b /\ c = d)
  OBVIOUS

(* Where the files of an archive are written, those of no other are.       *)
LEMMA WrittenFacts ==
  ASSUME NEW a \in Int
  PROVE  /\ \A b \in Int : <<b, "hdr">> \in Written(a) => b = a - 1 /\ HdrDone(a)
         /\ \A b \in Int, c \in Int : <<b, "cab.hdr", c>> \in Written(a) => b = a - 1 /\ CabHdrDone(a, c)
         /\ \A b \in Int, c \in Int : <<b, "blk.key", c>> \in Written(a) => b = a - 1 /\ KeyDone(a, c)
         /\ \A b \in Int, c \in Int : <<b, "cab", c>> \in Written(a) => b = a - 1 /\ CabDone(a, c)
<1>1. ASSUME NEW b \in Int, <<b, "hdr">> \in Written(a) PROVE b = a - 1 /\ HdrDone(a)
  BY <1>1 DEF Written, HdrFile, CabHdrFiles, KeyFiles, CabFiles
<1>2. ASSUME NEW b \in Int, NEW c \in Int, <<b, "cab.hdr", c>> \in Written(a)
      PROVE  b = a - 1 /\ CabHdrDone(a, c)
  BY <1>2 DEF Written, HdrFile, CabHdrFiles, KeyFiles, CabFiles
<1>3. ASSUME NEW b \in Int, NEW c \in Int, <<b, "blk.key", c>> \in Written(a)
      PROVE  b = a - 1 /\ KeyDone(a, c)
  BY <1>3 DEF Written, HdrFile, CabHdrFiles, KeyFiles, CabFiles
<1>4. ASSUME NEW b \in Int, NEW c \in Int, <<b, "cab", c>> \in Written(a)
      PROVE  b = a - 1 /\ CabDone(a, c)
  BY <1>4 DEF Written, HdrFile, CabHdrFiles, KeyFiles, CabFiles
<1> QED BY <1>1, <1>2, <1>3, <1>4

(* The files that OutInv counts up, after a step that writes one of archive a. *)
LEMMA OutStep ==
  ASSUME OutInv, pc \notin Failed, UNCHANGED <<format, file>>, NEW name,
         DOMAIN out' = DOMAIN out \cup {name}, NEW a \in 1 .. Len(file),
         \A b \in 1 .. Len(file) :
           Written(b)' = IF b = a THEN Written(b) \cup {name} ELSE Written(b)
  PROVE  OutInv'
<1>1. DOMAIN out = UNION {Written(b) : b \in 1 .. Len(file)}
  BY DEF OutInv
<1>2. DOMAIN out' = UNION {Written(b)' : b \in 1 .. Len(file)}
  <2>1. \A m : m \in DOMAIN out' => \E b \in 1 .. Len(file) : m \in Written(b)'
    BY <1>1
  <2>2. \A m, b : b \in 1 .. Len(file) /\ m \in Written(b)' => m \in DOMAIN out'
    BY <1>1
  <2> QED BY <2>1, <2>2, Zenon
<1> QED BY <1>2 DEF OutInv

(* Once extract writes cabs, all else of the archive is written; and when   *)
(* the loop has passed it, all of it.                                      *)
LEMMA DoneFiles ==
  ASSUME PlaceInv, NEW a \in 1 .. Len(file), a <= i \/ (a = i + 1 /\ pc = "cab")
  PROVE  /\ Names(a) = HdrFile(a) \cup CabHdrFiles(a) \cup KeyFiles(a)
         /\ a <= i => CabNames(a) = CabFiles(a)
<1>1. /\ DOMAIN file[a].cabs = 1 .. Len(file[a].cabs)
      /\ DOMAIN file[a].cmp = 1 .. Len(file[a].cmp)
  BY InputFacts DEF PlaceInv
<1>2. {<<a - 1, "hdr">>} = HdrFile(a)
  BY DEF HdrFile, HdrDone, Inside
<1>3. {<<a - 1, "cab.hdr", c>> : c \in DOMAIN file[a].cabs} = CabHdrFiles(a)
  <2>1. \A c : CabHdrDone(a, c)
    BY DEF CabHdrDone
  <2> QED BY <1>1, <2>1 DEF CabHdrFiles
<1>4. {<<a - 1, "blk.key", b>> : b \in IF format = "blb3" THEN {} ELSE DOMAIN file[a].cmp}
        = KeyFiles(a)
  <2>1. \A b : KeyDone(a, b)
    BY DEF KeyDone
  <2> QED BY <1>1, <2>1 DEF KeyFiles
<1>5. ASSUME a <= i PROVE CabNames(a) = CabFiles(a)
  <2>1. \A c : CabDone(a, c)
    BY <1>5 DEF CabDone
  <2> QED BY <1>1, <2>1 DEF CabFiles, CabNames
<1> QED BY <1>2, <1>3, <1>4, <1>5 DEF Names

(* A cab's archive is complete but for its cabs.                           *)
LEMMA MetadataOf ==
  ASSUME PlaceInv, OutInv, pc \notin Failed
  PROVE  MetadataFirst
<1>1. DOMAIN file = 1 .. Len(file) /\ i \in Nat /\ Len(file) \in Nat
  BY HereFacts
<1>2. DOMAIN out = UNION {Written(a) : a \in 1 .. Len(file)}
  BY DEF OutInv
<1> SUFFICES ASSUME NEW a \in 1 .. Len(file), NEW m \in CabNames(a), m \in DOMAIN out
             PROVE  /\ Names(a) \subseteq DOMAIN out
                    /\ \A c \in 1 .. a - 1 : Names(c) \cup CabNames(c) \subseteq DOMAIN out
  BY <1>1 DEF MetadataFirst
<1>3. \A b \in 1 .. Len(file) :
        /\ file[b].cabs \in Seq(Nat) /\ DOMAIN file[b].cabs = 1 .. Len(file[b].cabs)
        /\ file[b].cmp \in Seq(Nat) /\ DOMAIN file[b].cmp = 1 .. Len(file[b].cmp)
  BY InputFacts DEF PlaceInv
<1>4. PICK k \in 1 .. Len(file[a].cabs) : m = <<a - 1, "cab", k>>
  BY <1>3 DEF CabNames
<1>5. PICK b \in 1 .. Len(file) : m \in Written(b)
  BY <1>2
<1>6. a - 1 = b - 1 /\ CabDone(b, k)
  <2>1. a - 1 \in Int /\ b \in Int
    OBVIOUS
  <2>2. k \in Int
    OBVIOUS
  <2> QED BY <1>4, <1>5, <2>1, <2>2, WrittenFacts, Zenon
<1>7. a <= i \/ (a = i + 1 /\ pc = "cab")
  BY <1>6 DEF CabDone
<1>8. Names(a) \subseteq Written(a)
  BY <1>7, DoneFiles DEF Written
<1>9. ASSUME NEW c \in 1 .. a - 1 PROVE Names(c) \cup CabNames(c) \subseteq Written(c)
  <2>1. c <= i /\ c \in 1 .. Len(file)
    BY <1>1, <1>7
  <2> QED BY <2>1, DoneFiles DEF Written
<1>10. \A c \in 1 .. a - 1 : c \in 1 .. Len(file)
  BY <1>1
<1> QED BY <1>2, <1>8, <1>9, <1>10

(* A step that fails writes no cab.                                        *)
LEMMA MetadataStays ==
  ASSUME MetadataFirst, UNCHANGED <<format, file>>, DOMAIN out \subseteq DOMAIN out',
         \A a \in DOMAIN file : CabNames(a) \cap DOMAIN out' \subseteq DOMAIN out
  PROVE  MetadataFirst'
<1>1. \A a : Names(a)' = Names(a) /\ CabNames(a)' = CabNames(a)
  BY SameFile
<1> SUFFICES ASSUME NEW a \in DOMAIN file, CabNames(a) \cap DOMAIN out' # {}
             PROVE  /\ Names(a) \subseteq DOMAIN out'
                    /\ \A c \in 1 .. a - 1 : Names(c) \cup CabNames(c) \subseteq DOMAIN out'
  BY <1>1 DEF MetadataFirst
<1>2. CabNames(a) \cap DOMAIN out # {}
  OBVIOUS
<1>3. /\ Names(a) \subseteq DOMAIN out
      /\ \A c \in 1 .. a - 1 : Names(c) \cup CabNames(c) \subseteq DOMAIN out
  BY <1>2 DEF MetadataFirst
<1> QED BY <1>3

-----------------------------------------------------------------------------
(* The buffer.                                                             *)

(* What a cipher touches of a header or of a block that is long enough.    *)
LEMMA TouchedFacts ==
  ASSUME PlaceInv, NEW size \in Nat
  PROVE  /\ Touched(size) \in Nat
         /\ size >= Window => Touched(size) <= size /\ size >= Core
<1>1. format \in {"mhy0", "mhy1", "encr", "blb3"}
  BY InputFacts DEF PlaceInv
<1>2. Core \in Nat /\ Window \in Nat /\ Core <= Window
  BY WindowAssumption
<1>3. Touched(size) \in {0, size, Core, Window}
  BY <1>1, Zenon DEF Touched
<1>4. size >= Window => ~(size < Core) /\ ~(size < Window)
  BY <1>2
<1>5. size >= Window => Touched(size) \in {0, Window}
  BY <1>1, <1>4, Zenon DEF Touched
<1> QED BY <1>2, <1>3, <1>5

(* What deciphering does to the buffer.                                    *)
LEMMA Deciphers ==
  ASSUME PlaceInv, CellsInv, NEW start \in Nat, NEW size \in Nat,
         changed' = Deciphered(start, size)
  PROVE  /\ changed' \in [0 .. BufSz(file) - 1 -> SUBSET (0 .. BufSz(file) - 1)]
         /\ \A cell \in 0 .. BufSz(file) - 1 :
              changed'[cell] = IF start <= cell /\ cell < start + Touched(size)
                               THEN changed[cell] \cup {start} ELSE changed[cell]
<1>1. BufSz(file) \in Nat /\ Touched(size) \in Nat
  BY HereFacts, TouchedFacts
<1>2. changed \in [0 .. BufSz(file) - 1 -> SUBSET (0 .. BufSz(file) - 1)]
  BY DEF CellsInv
<1>3. changed' = [cell \in 0 .. BufSz(file) - 1 |->
                    IF cell \in start .. start + Touched(size) - 1 THEN changed[cell] \cup {start}
                    ELSE changed[cell]]
  BY <1>2 DEF Deciphered
<1>4. \A cell \in 0 .. BufSz(file) - 1 :
        cell \in start .. start + Touched(size) - 1
          <=> start <= cell /\ cell < start + Touched(size)
  BY <1>1
<1>5. \A cell \in 0 .. BufSz(file) - 1 :
        changed'[cell] = IF start <= cell /\ cell < start + Touched(size)
                         THEN changed[cell] \cup {start} ELSE changed[cell]
  BY <1>3, <1>4
<1>6. \A cell \in 0 .. BufSz(file) - 1 : changed'[cell] \in SUBSET (0 .. BufSz(file) - 1)
  <2> TAKE cell \in 0 .. BufSz(file) - 1
  <2>1. start <= cell => start \in 0 .. BufSz(file) - 1
    BY <1>1
  <2>2. changed[cell] \in SUBSET (0 .. BufSz(file) - 1)
    BY <1>2
  <2> QED BY <1>5, <2>1, <2>2
<1>7. changed' \in [0 .. BufSz(file) - 1 -> SUBSET (0 .. BufSz(file) - 1)]
  <2> DEFINE D == 0 .. BufSz(file) - 1
  <2>1. changed' = [cell \in D |-> changed'[cell]]
    BY <1>3
  <2>2. \A cell \in D : changed'[cell] \in SUBSET D
    BY <1>6
  <2> HIDE DEF D
  <2>3. [cell \in D |-> changed'[cell]] \in [D -> SUBSET D]
    BY <2>2
  <2>4. changed' \in [D -> SUBSET D]
    BY <2>1, <2>3
  <2> QED BY <2>4 DEF D
<1> QED BY <1>5, <1>7

(* A block is legible when all the blocks before it stay inside themselves *)
(* and the cipher has enough of it.                                        *)
LEMMA LegibleBlock ==
  ASSUME PlaceInv, OffsetInv, CellsInv, pc = "block", FitSoFar,
         format # "encr" => archive.cmp[n] >= Core,
         changed' = Deciphered(current + data_off, archive.cmp[n])
  PROVE  Legible(changed', current + data_off, archive.cmp[n])
<1> DEFINE start == current + data_off
           size  == archive.cmp[n]
<1>1. /\ size \in Nat /\ data_off \in Nat /\ data_off + size <= Length(archive)
  BY BlockHere
<1>2. /\ current \in Nat /\ BufSz(file) \in Nat /\ Length(archive) \in Nat
      /\ current + Length(archive) <= BufSz(file)
  <2>1. i < Len(file)
    BY DEF PlaceInv, Inside
  <2> QED BY <2>1, HereFacts
<1>3. start \in Nat /\ start + size <= BufSz(file)
  BY <1>1, <1>2
<1>4. \A cell \in 0 .. BufSz(file) - 1 : cell >= start => changed[cell] = {}
  <2>1. Reached = start /\ pc \notin Ends
    BY DEF Reached, Ends
  <2> QED BY <2>1 DEF CellsInv
<1> HIDE DEF start, size
<1>5. Touched(size) \in Nat
  BY <1>1, TouchedFacts
<1>6. /\ changed' \in [0 .. BufSz(file) - 1 -> SUBSET (0 .. BufSz(file) - 1)]
      /\ \A cell \in 0 .. BufSz(file) - 1 :
           changed'[cell] = IF start <= cell /\ cell < start + Touched(size)
                            THEN changed[cell] \cup {start} ELSE changed[cell]
  <2>1. changed' = Deciphered(start, size)
    BY DEF start, size
  <2> QED BY <1>1, <1>3, <2>1, Deciphers
<1>7. ASSUME NEW cell \in start .. start + size - 1
      PROVE  /\ cell \in DOMAIN changed'
             /\ changed'[cell] = IF cell < start + Touched(size) THEN {start} ELSE {}
  <2>1. cell \in 0 .. BufSz(file) - 1 /\ start <= cell /\ cell >= start
    BY <1>1, <1>2, <1>3
  <2>2. changed[cell] = {}
    BY <1>4, <2>1
  <2>3. changed'[cell] = IF cell < start + Touched(size) THEN changed[cell] \cup {start}
                         ELSE changed[cell]
    BY <1>6, <2>1
  <2>4. cell \in DOMAIN changed'
    BY <1>6, <2>1
  <2> QED BY <2>2, <2>3, <2>4
<1>8. format # "encr" => size >= Core
  BY DEF size
<1>9. Legible(changed', start, size)
  BY <1>7, <1>8, Zenon DEF Legible
<1> QED BY <1>9 DEF start, size

(* A sheltered archive keeps the blocks up to the one at hand inside       *)
(* themselves, and that one is long enough.                                *)
LEMMA ShelteredHere ==
  ASSUME PlaceInv, OffsetInv, pc \in {"block", "free", "cab"}, Sheltered(i + 1)
  PROVE  /\ pc = "block" => FitSoFar
         /\ pc = "block" /\ format # "encr" => archive.cmp[n] >= Core
<1>1. /\ i < Len(file) /\ i \in Nat
      /\ i + 1 \in 1 .. Len(file) /\ archive = file[i + 1]
  <2>1. i < Len(file)
    BY DEF PlaceInv, Inside
  <2> QED BY <2>1, HereFacts
<1>2. \A c \in 1 .. Len(file) : DOMAIN file[c].cmp = 1 .. Len(file[c].cmp)
  BY InputFacts DEF PlaceInv
<1>3. /\ \A c \in 1 .. i + 1 : \A b \in DOMAIN file[c].cmp :
           c < i + 1 \/ b < Len(file[c].cmp) => Fits(c, b)
      /\ format # "encr" => file[i + 1].cmp[Len(file[i + 1].cmp)] >= Core
  BY DEF Sheltered
<1>4. ASSUME pc = "block" PROVE n \in 1 .. Len(file[i + 1].cmp) /\ Len(file[i + 1].cmp) \in Nat
  BY <1>1, <1>4, BlockHere, ArchiveHere
<1>5. ASSUME pc = "block" PROVE FitSoFar
  <2>1. \A c \in 1 .. i : \A b \in 1 .. Len(file[c].cmp) : Fits(c, b)
    <3> TAKE c \in 1 .. i
    <3>1. c \in 1 .. i + 1 /\ c < i + 1 /\ c \in 1 .. Len(file)
      BY <1>1
    <3> QED BY <1>2, <1>3, <3>1
  <2>2. \A b \in 1 .. n - 1 : Fits(i + 1, b)
    <3> TAKE b \in 1 .. n - 1
    <3>1. b \in 1 .. Len(file[i + 1].cmp) /\ b < Len(file[i + 1].cmp)
      BY <1>4, <1>5
    <3>2. i + 1 \in 1 .. i + 1 /\ b \in DOMAIN file[i + 1].cmp
      BY <1>1, <1>2, <3>1
    <3> QED BY <1>3, <3>1, <3>2
  <2> QED BY <1>5, <2>1, <2>2 DEF FitSoFar
<1>6. ASSUME pc = "block", format # "encr" PROVE archive.cmp[n] >= Core
  <2>1. CASE n = Len(file[i + 1].cmp)
    BY <1>1, <1>3, <1>6, <2>1
  <2>2. CASE n # Len(file[i + 1].cmp)
    <3>1. n < Len(file[i + 1].cmp) /\ n \in DOMAIN file[i + 1].cmp /\ i + 1 \in 1 .. i + 1
      BY <1>1, <1>2, <1>4, <1>6, <2>2
    <3>2. Fits(i + 1, n)
      BY <1>3, <3>1
    <3> QED BY <1>1, <1>6, <3>2, Zenon DEF Fits
  <2> QED BY <2>1, <2>2
<1> QED BY <1>5, <1>6

(* When every block of the file is long enough, all so far are.            *)
AllFit == \A a \in DOMAIN file : ~file[a].stored /\ \A b \in DOMAIN file[a].cmp : Fits(a, b)

LEMMA AllFitHere ==
  ASSUME PlaceInv, OffsetInv, AllFit
  PROVE  /\ FitSoFar
         /\ i < Len(file) => ~archive.stored
         /\ pc = "block" => Fits(i + 1, n)
<1>1. /\ DOMAIN file = 1 .. Len(file) /\ i \in Nat /\ Len(file) \in Nat /\ i <= Len(file)
      /\ i < Len(file) => i + 1 \in 1 .. Len(file) /\ archive = file[i + 1]
  BY HereFacts DEF PlaceInv
<1>2. \A a \in 1 .. Len(file) : DOMAIN file[a].cmp = 1 .. Len(file[a].cmp)
  BY InputFacts DEF PlaceInv
<1>3. \A a \in 1 .. Len(file) : \A b \in 1 .. Len(file[a].cmp) : Fits(a, b)
  BY <1>1, <1>2 DEF AllFit
<1>4. \A a \in 1 .. i : a \in 1 .. Len(file)
  BY <1>1
<1>5. Inside => i + 1 \in 1 .. Len(file)
  BY <1>1 DEF PlaceInv
<1>6. ASSUME pc = "block" PROVE n \in 1 .. Len(file[i + 1].cmp)
  <2>1. i < Len(file)
    BY <1>6 DEF PlaceInv, Inside
  <2> QED BY <1>1, <1>6, <2>1, BlockHere
<1>7. pc = "block" => \A b \in 1 .. n - 1 : b \in 1 .. Len(file[i + 1].cmp)
  BY <1>6
<1>8. FitSoFar
  BY <1>3, <1>4, <1>5, <1>7 DEF FitSoFar, Inside
<1>9. i < Len(file) => ~archive.stored
  BY <1>1, Zenon DEF AllFit
<1>10. pc = "block" => Fits(i + 1, n)
  BY <1>3, <1>5, <1>6 DEF Inside
<1> QED BY <1>8, <1>9, <1>10

(* Then the block at hand is not turned down.                              *)
LEMMA AllFitBlock ==
  ASSUME PlaceInv, OffsetInv, AllFit, pc = "block"
  PROVE  /\ ~TooShort(archive.cmp[n]) /\ (format # "encr" => archive.cmp[n] >= Core)
         /\ Touched(archive.cmp[n]) <= archive.cmp[n]
         /\ current + data_off + Touched(archive.cmp[n]) <= BufSz(file)
<1>1. i < Len(file) /\ archive = file[i + 1]
  <2>1. i < Len(file)
    BY DEF PlaceInv, Inside
  <2> QED BY <2>1, HereFacts
<1>2. Fits(i + 1, n)
  BY AllFitHere
<1>3. Touched(archive.cmp[n]) <= archive.cmp[n] /\ (format # "encr" => archive.cmp[n] >= Core)
  BY <1>1, <1>2, Zenon DEF Fits
<1>4. /\ current \in Nat /\ data_off \in Nat /\ archive.cmp[n] \in Nat /\ BufSz(file) \in Nat
      /\ data_off + archive.cmp[n] <= Length(archive) /\ Length(archive) \in Nat
      /\ current + Length(archive) <= BufSz(file)
  BY <1>1, HereFacts, BlockHere
<1>5. Touched(archive.cmp[n]) \in Nat
  BY <1>4, TouchedFacts
<1>6. current + data_off + Touched(archive.cmp[n]) <= BufSz(file)
  BY <1>3, <1>4, <1>5
<1>7. ~TooShort(archive.cmp[n])
  <2>1. Core \in Nat
    BY WindowAssumption
  <2> QED BY <1>3, <1>4, <2>1 DEF TooShort
<1> QED BY <1>3, <1>6, <1>7

-----------------------------------------------------------------------------
(* The steps. One that ends the run changes nothing else, or it is a block *)
(* whose key has been written.                                             *)

(* A step to an end of the run, other than that of Block.                  *)
LEMMA Stops ==
  ASSUME UnpackInv, pc \notin Ends, pc' \in Ends,
         UNCHANGED <<format, file, changed, current, i, n, data_off, blk_data_off, data_buf, out>>,
         pc' = "ok" => pc = "next" /\ i = Len(file),
         AllFit => pc' \notin {"corrupt", "abort"}
  PROVE  UnpackInv'
<1> USE DEF UnpackInv
<1>1. PlaceInv'
  BY DEF PlaceInv, Inside, Ends
<1>2. OffsetInv'
  BY DEF OffsetInv, Inside, Ends
<1>3. CellsInv'
  BY DEF CellsInv
<1>4. DataInv'
  BY DEF DataInv, Ends
<1>5. OutInv'
  <2> SUFFICES ASSUME pc' \notin Failed PROVE DOMAIN out' = UNION {Written(a)' : a \in 1 .. Len(file)}
    BY DEF OutInv
  <2>1. pc' = "ok" /\ pc = "next" /\ pc \notin Failed
    BY DEF Ends, Failed
  <2>2. \A a : Written(a)' = Written(a)
    BY <2>1 DEF Written, HdrFile, CabHdrFiles, KeyFiles, CabFiles, HdrDone, CabHdrDone, KeyDone,
       CabDone, Inside
  <2> QED BY <2>1, <2>2 DEF OutInv
<1>6. FilesIntact'
  BY IntactStays
<1>7. NothingTurnedDown'
  <2>1. AllFit' <=> AllFit
    BY SameFile DEF AllFit
  <2> QED BY <2>1 DEF NothingTurnedDown, AllFit
<1>8. FailedInv'
  <2>1. MetadataFirst
    BY MetadataOf DEF Ends, Failed
  <2> QED BY <2>1, MetadataStays DEF FailedInv
<1> QED BY <1>1, <1>2, <1>3, <1>4, <1>5, <1>6, <1>7, <1>8

(* A magic is found wrong only after a window has spoiled it.              *)
LEMMA BadMagicStep == ASSUME UnpackInv, BadMagic PROVE UnpackInv'
<1>1. PlaceInv /\ OffsetInv /\ CellsInv /\ pc = "next" /\ pc' = "corrupt"
  BY DEF UnpackInv, BadMagic
<1>2. ~AllFit
  <2> SUFFICES ASSUME AllFit PROVE MagicAt(current)
    BY DEF BadMagic
  <2>1. i + 1 \in DOMAIN file /\ current = Start(file, i + 1)
        /\ current \in 0 .. BufSz(file) - 1
    BY <1>1, HereFacts DEF PlaceInv, BadMagic
  <2>2. FitSoFar
    BY <1>1, AllFitHere
  <2>3. changed[current] = {}
    BY <1>1, <2>1, <2>2 DEF CellsInv, Reached, Ends
  <2> QED BY <2>1, <2>3 DEF MagicAt
<1> QED BY <1>1, <1>2, Stops DEF BadMagic, Ends

(* An assertion or the heap ends a run only for a block that is too short. *)
LEMMA AbortStep == ASSUME UnpackInv, Abort PROVE UnpackInv'
<1>1. PlaceInv /\ OffsetInv /\ pc = "block" /\ pc' = "abort"
  BY DEF UnpackInv, Abort
<1>2. ~AllFit
  <2> SUFFICES ASSUME AllFit PROVE FALSE
    OBVIOUS
  <2>1. /\ ~TooShort(archive.cmp[n])
        /\ current + data_off + Touched(archive.cmp[n]) <= BufSz(file)
    BY <1>1, AllFitBlock
  <2>2. current + data_off + Touched(archive.cmp[n]) > BufSz(file)
    BY <2>1 DEF Abort
  <2>3. /\ archive.cmp[n] \in Nat /\ current \in Nat /\ data_off \in Nat /\ BufSz(file) \in Nat
        /\ Touched(archive.cmp[n]) \in Nat
    BY <1>1, BlockHere, HereFacts, TouchedFacts
  <2> QED BY <2>1, <2>2, <2>3
<1> QED BY <1>1, <1>2, Stops DEF Abort, Ends

(* A refused file or allocation leaves everything as it is.               *)
LEMMA RefusedStep == ASSUME UnpackInv, Refused PROVE UnpackInv'
  BY Stops DEF Refused, Ends

(* The loop ends after the last archive.                                   *)
LEMMA FinishStep == ASSUME UnpackInv, Finish PROVE UnpackInv'
<1>1. PlaceInv /\ pc = "next" /\ current >= BufSz(file)
  BY DEF UnpackInv, Finish
<1>2. i = Len(file)
  BY <1>1, HereFacts DEF PlaceInv
<1> QED BY <1>1, <1>2, Stops DEF Finish, Ends

(* The header comes first: it stays inside itself, so it is legible when   *)
(* its magic is, and what follows it is as it was.                         *)
LEMMA ReadHeaderStep == ASSUME UnpackInv, ReadHeader PROVE UnpackInv'
<1> DEFINE name == <<i, "hdr">>
<1>1. /\ PlaceInv /\ OffsetInv /\ CellsInv /\ OutInv /\ FilesIntact /\ NothingTurnedDown
      /\ pc = "next" /\ pc' = "cab.hdr" /\ current < BufSz(file)
      /\ changed' = Deciphered(current + 1, archive.hdr)
      /\ Write(name, Len(archive.cabs))
      /\ n' = 1 /\ data_off' = 1 + archive.hdr /\ blk_data_off' = 0
      /\ data_buf' = [x \in 0 .. Sum(archive.cabs) - 1 |-> Unset]
      /\ UNCHANGED <<format, file, current, i>>
  BY DEF UnpackInv, ReadHeader
<1>2. /\ i < Len(file) /\ i \in Nat /\ i + 1 \in 1 .. Len(file) /\ Len(file) \in Nat
      /\ archive = file[i + 1] /\ DOMAIN file = 1 .. Len(file)
      /\ current \in Nat /\ BufSz(file) \in Nat
      /\ Length(archive) \in Nat /\ Length(archive) = 1 + archive.hdr + Sum(archive.cmp)
      /\ current + Length(archive) <= BufSz(file)
  BY <1>1, HereFacts
<1>3. /\ archive.hdr \in Nat /\ archive.hdr >= Window /\ Len(archive.cabs) \in Nat \ {0}
      /\ Sum(archive.cabs) \in Nat /\ Sum(archive.cmp) \in Nat
  <2>1. Sum(archive.cmp) \in Nat
    BY <1>2, StartFacts, InputFacts, <1>1 DEF PlaceInv
  <2> QED BY <1>1, <1>2, <2>1, ArchiveHere
<1>4. PlaceInv'
  BY <1>1, <1>2 DEF PlaceInv, Inside, Ends
<1>5. OffsetInv'
  <2>1. data_off' \in 0 .. BufSz(file)
    <3>1. \A p, l, h, s, z \in Nat : l = 1 + h + s /\ p + l <= z => 1 + h \in 0 .. z
      OBVIOUS
    <3>2. data_off' = 1 + archive.hdr
      BY <1>1
    <3> QED BY <1>2, <1>3, <3>1, <3>2
  <2>2. Cardinality(DOMAIN data_buf') \in Nat
    <3>1. DOMAIN data_buf' = 0 .. Sum(archive.cabs) - 1
      BY <1>1
    <3> QED BY <1>3, <3>1, RangeSize
  <2>3. 1 <= Len(archive.cabs)
    BY <1>3
  <2> QED BY <1>1, <1>2, <2>1, <2>2, <2>3 DEF OffsetInv, Inside
<1>6. CellsInv'
  <2>1. current + 1 \in Nat /\ Touched(archive.hdr) \in Nat /\ Touched(archive.hdr) <= archive.hdr
    <3>1. PlaceInv
      BY <1>1
    <3>2. current + 1 \in Nat
      BY <1>2
    <3>3. archive.hdr \in Nat /\ archive.hdr >= Window
      BY <1>3
    <3> HIDE DEF name
    <3> QED BY <3>1, <3>2, <3>3, TouchedFacts
  <2>2. /\ changed' \in [0 .. BufSz(file) - 1 -> SUBSET (0 .. BufSz(file) - 1)]
        /\ \A cell \in 0 .. BufSz(file) - 1 :
             changed'[cell] = IF current + 1 <= cell /\ cell < current + 1 + Touched(archive.hdr)
                              THEN changed[cell] \cup {current + 1} ELSE changed[cell]
    BY <1>1, <1>3, <2>1, Deciphers
  <2>3. FitSoFar' => FitSoFar
    BY <1>1, SameFile DEF FitSoFar
  <2>4. Reached' = current + (1 + archive.hdr) /\ Reached = current
    BY <1>1 DEF Reached
  <2>5. ASSUME FitSoFar, NEW cell \in 0 .. BufSz(file) - 1, cell >= current + (1 + archive.hdr)
        PROVE  changed'[cell] = {}
    <3>1. cell >= current /\ ~(cell < current + 1 + Touched(archive.hdr))
      <4>1. \A p, h, t, x \in Nat : t <= h /\ x >= p + (1 + h) => x >= p /\ ~(x < p + 1 + t)
        OBVIOUS
      <4>2. cell \in Nat
        OBVIOUS
      <4> QED BY <1>2, <1>3, <2>1, <2>5, <4>1, <4>2
    <3>2. changed[cell] = {}
      BY <1>1, <2>4, <2>5, <3>1 DEF CellsInv, Ends
    <3> QED BY <2>2, <3>1, <3>2
  <2> QED BY <1>1, <2>2, <2>3, <2>4, <2>5 DEF CellsInv
<1>7. DataInv'
  BY <1>1 DEF DataInv
<1>8. OutInv'
  <2>1. DOMAIN out' = DOMAIN out \cup {name}
    BY <1>1, Writes
  <2>2. ASSUME NEW a \in 1 .. Len(file)
        PROVE  Written(a)' = IF a = i + 1 THEN Written(a) \cup {name} ELSE Written(a)
    <3>1. HdrFile(a)' = IF a = i + 1 THEN HdrFile(a) \cup {name} ELSE HdrFile(a)
      <4>1. HdrDone(a)' <=> HdrDone(a) \/ a = i + 1
        BY <1>1, <1>2 DEF HdrDone, Inside
      <4>2. a = i + 1 => <<a - 1, "hdr">> = name
        BY <1>2
      <4>3. a = i + 1 => ~HdrDone(a)
        BY <1>1, <1>2 DEF HdrDone, Inside
      <4> HIDE DEF name
      <4> QED BY <4>1, <4>2, <4>3 DEF HdrFile
    <3>2. CabHdrFiles(a)' = CabHdrFiles(a)
      <4>1. \A c \in 1 .. Len(file[a].cabs) : CabHdrDone(a, c)' <=> CabHdrDone(a, c)
        BY <1>1, <1>2 DEF CabHdrDone
      <4> QED BY <1>1, <4>1 DEF CabHdrFiles
    <3>3. KeyFiles(a)' = KeyFiles(a)
      <4>1. \A b : KeyDone(a, b)' <=> KeyDone(a, b)
        BY <1>1 DEF KeyDone
      <4> QED BY <1>1, <4>1 DEF KeyFiles
    <3>4. CabFiles(a)' = CabFiles(a)
      <4>1. \A c : CabDone(a, c)' <=> CabDone(a, c)
        BY <1>1 DEF CabDone
      <4> QED BY <1>1, <4>1 DEF CabFiles
    <3> HIDE DEF name
    <3> QED BY <3>1, <3>2, <3>3, <3>4 DEF Written
  <2> HIDE DEF name
  <2> QED BY <1>1, <1>2, <2>1, <2>2, OutStep DEF Failed
<1>9. FilesIntact'
  <2>1. \A a \in DOMAIN file : \A c \in Int : name # <<a - 1, "cab", c>> /\ name # <<a - 1, "blk.key", c>>
    BY <1>2, NamesDiffer
  <2>2. \A a \in DOMAIN file : DOMAIN file[a].cabs \subseteq Int /\ DOMAIN file[a].cmp \subseteq Int
    BY <1>1, Numbers
  <2> HIDE DEF name
  <2> QED BY <1>1, <2>1, <2>2, IntactStep
<1>10. NothingTurnedDown'
  BY <1>1 DEF NothingTurnedDown
<1>11. FailedInv'
  BY <1>1 DEF FailedInv, Failed
<1> QED BY <1>4, <1>5, <1>6, <1>7, <1>8, <1>9, <1>10, <1>11 DEF UnpackInv

(* Then the headers of the cabs, one after the other.                      *)
LEMMA WriteCabHeaderStep == ASSUME UnpackInv, WriteCabHeader PROVE UnpackInv'
<1> DEFINE name == <<i, "cab.hdr", n>>
<1>1. /\ PlaceInv /\ OffsetInv /\ CellsInv /\ OutInv /\ FilesIntact /\ NothingTurnedDown
      /\ pc = "cab.hdr" /\ Write(name, <<Before(archive.cabs, n), archive.cabs[n]>>)
      /\ IF n < Len(archive.cabs) THEN n' = n + 1 /\ pc' = "cab.hdr" ELSE n' = 1 /\ pc' = "block"
      /\ UNCHANGED <<format, file, changed, current, i, data_off, blk_data_off, data_buf>>
  BY DEF UnpackInv, WriteCabHeader, MoreCabs
<1>2. /\ i < Len(file) /\ i \in Nat /\ i + 1 \in 1 .. Len(file) /\ Len(file) \in Nat
      /\ archive = file[i + 1] /\ DOMAIN file = 1 .. Len(file)
  BY <1>1, HereFacts DEF PlaceInv, Inside
<1>3. /\ n \in Nat \ {0} /\ n <= Len(archive.cabs) /\ Len(archive.cabs) \in Nat \ {0}
      /\ data_off = 1 + archive.hdr /\ blk_data_off = 0
  BY <1>1, <1>2, ArchiveHere DEF OffsetInv
<1>4. /\ archive.hdr \in Nat /\ Len(archive.cmp) \in Nat \ {0}
      /\ Before(archive.cmp, 1) = 0 /\ Before(archive.dec, 1) = 0
  BY <1>1, <1>2, ArchiveHere, BeforeFacts
<1>5. PlaceInv'
  BY <1>1, <1>2 DEF PlaceInv, Inside, Ends
<1>6. OffsetInv'
  <2>1. CASE n < Len(archive.cabs)
    <3>1. n + 1 <= Len(archive.cabs) /\ n + 1 \in Nat \ {0}
      BY <1>3, <2>1
    <3> QED BY <1>1, <1>2, <2>1, <3>1 DEF OffsetInv, Inside
  <2>2. CASE ~(n < Len(archive.cabs))
    <3>1. 1 <= Len(archive.cmp) /\ 1 + archive.hdr = 1 + archive.hdr + 0
      BY <1>4
    <3>2. n' = 1 /\ pc' = "block"
      BY <1>1, <2>2
    <3> QED BY <1>1, <1>2, <1>3, <1>4, <3>1, <3>2 DEF OffsetInv, Inside
  <2> QED BY <2>1, <2>2
<1>7. CellsInv'
  <2>1. FitSoFar' => FitSoFar
    BY <1>1, SameFile DEF FitSoFar
  <2>2. Reached' = Reached /\ pc \notin Ends /\ pc' \notin Ends
    BY <1>1 DEF Reached, Ends
  <2> QED BY <1>1, <2>1, <2>2 DEF CellsInv
<1>8. DataInv'
  <2>1. blk_data_off' = 0
    BY <1>1, <1>3
  <2> QED BY <2>1 DEF DataInv
<1>9. OutInv'
  <2>1. DOMAIN out' = DOMAIN out \cup {name}
    BY <1>1, Writes
  <2>2. ASSUME NEW a \in 1 .. Len(file)
        PROVE  Written(a)' = IF a = i + 1 THEN Written(a) \cup {name} ELSE Written(a)
    <3>1. HdrFile(a)' = HdrFile(a)
      BY <1>1 DEF HdrFile, HdrDone, Inside
    <3>2. CabHdrFiles(a)' = IF a = i + 1 THEN CabHdrFiles(a) \cup {name} ELSE CabHdrFiles(a)
      <4>1. \A c \in 1 .. Len(file[a].cabs) :
              CabHdrDone(a, c)' <=> CabHdrDone(a, c) \/ (a = i + 1 /\ c = n)
        BY <1>1, <1>2, <1>3 DEF CabHdrDone
      <4>2. a = i + 1 => a - 1 = i /\ n \in 1 .. Len(file[a].cabs)
        BY <1>2, <1>3
      <4> QED BY <1>1, <4>1, <4>2 DEF CabHdrFiles
    <3>3. KeyFiles(a)' = KeyFiles(a)
      <4>1. \A b \in 1 .. Len(file[a].cmp) : KeyDone(a, b)' <=> KeyDone(a, b)
        BY <1>1 DEF KeyDone
      <4> QED BY <1>1, <4>1 DEF KeyFiles
    <3>4. CabFiles(a)' = CabFiles(a)
      <4>1. \A c : CabDone(a, c)' <=> CabDone(a, c)
        BY <1>1 DEF CabDone
      <4> QED BY <1>1, <4>1 DEF CabFiles
    <3> HIDE DEF name
    <3> QED BY <3>1, <3>2, <3>3, <3>4 DEF Written
  <2> HIDE DEF name
  <2> QED BY <1>1, <1>2, <2>1, <2>2, OutStep DEF Failed
<1>10. FilesIntact'
  <2>1. \A a \in DOMAIN file : \A c \in Int : name # <<a - 1, "cab", c>> /\ name # <<a - 1, "blk.key", c>>
    BY <1>2, <1>3, NamesDiffer
  <2>2. \A a \in DOMAIN file : DOMAIN file[a].cabs \subseteq Int /\ DOMAIN file[a].cmp \subseteq Int
    BY <1>1, Numbers
  <2> HIDE DEF name
  <2> QED BY <1>1, <2>1, <2>2, IntactStep
<1>11. NothingTurnedDown'
  BY <1>1 DEF NothingTurnedDown
<1>12. FailedInv'
  BY <1>1 DEF FailedInv, Failed
<1> QED BY <1>5, <1>6, <1>7, <1>8, <1>9, <1>10, <1>11, <1>12 DEF UnpackInv

(* extract_encr frees the header, which fails only for a stored one.       *)
LEMMA FreeHeaderStep == ASSUME UnpackInv, FreeHeader PROVE UnpackInv'
<1>1. /\ PlaceInv /\ OffsetInv /\ CellsInv /\ DataInv /\ OutInv /\ FilesIntact /\ NothingTurnedDown
      /\ pc = "free" /\ pc' \in {"cab", "abort"} /\ (pc' = "abort" => archive.stored)
      /\ UNCHANGED <<format, file, changed, current, i, n, data_off, blk_data_off, data_buf, out>>
  BY DEF UnpackInv, FreeHeader
<1>2. /\ i < Len(file) /\ i \in Nat /\ i + 1 \in 1 .. Len(file) /\ archive = file[i + 1]
  BY <1>1, HereFacts DEF PlaceInv, Inside
<1>3. CASE pc' = "abort"
  <2>1. ~AllFit
    BY <1>1, <1>2, <1>3, AllFitHere
  <2> QED BY <1>1, <1>3, <2>1, Stops DEF Ends
<1>4. CASE pc' = "cab"
  <2>1. PlaceInv'
    BY <1>1, <1>2, <1>4 DEF PlaceInv, Inside, Ends
  <2>2. OffsetInv'
    <3>1. 1 <= Len(archive.cabs) /\ n = 1
      BY <1>1, <1>2, ArchiveHere DEF OffsetInv
    <3> QED BY <1>1, <1>2, <1>4, <3>1 DEF OffsetInv, Inside
  <2>3. CellsInv'
    <3>1. FitSoFar' => FitSoFar
      BY <1>1, <1>4, SameFile DEF FitSoFar
    <3>2. Reached' = Reached /\ pc \notin Ends /\ pc' \notin Ends
      BY <1>1, <1>4 DEF Reached, Ends
    <3> QED BY <1>1, <3>1, <3>2 DEF CellsInv
  <2>4. DataInv'
    BY <1>1, SameFile DEF DataInv
  <2>5. OutInv'
    <3>1. n = 1
      BY <1>1 DEF OffsetInv
    <3>2. ASSUME NEW a \in 1 .. Len(file) PROVE Written(a)' = Written(a)
      <4>1. HdrFile(a)' = HdrFile(a)
        BY <1>1, <1>4 DEF HdrFile, HdrDone, Inside
      <4>2. CabHdrFiles(a)' = CabHdrFiles(a)
        <5>1. \A c : CabHdrDone(a, c)' <=> CabHdrDone(a, c)
          BY <1>1, <1>4 DEF CabHdrDone
        <5> QED BY <1>1, <5>1 DEF CabHdrFiles
      <4>3. KeyFiles(a)' = KeyFiles(a)
        <5>1. \A b : KeyDone(a, b)' <=> KeyDone(a, b)
          BY <1>1, <1>4 DEF KeyDone
        <5> QED BY <1>1, <5>1 DEF KeyFiles
      <4>4. CabFiles(a)' = CabFiles(a)
        <5>1. \A c \in 1 .. Len(file[a].cabs) : CabDone(a, c)' <=> CabDone(a, c)
          BY <1>1, <1>4, <3>1 DEF CabDone
        <5> QED BY <1>1, <5>1 DEF CabFiles
      <4> QED BY <4>1, <4>2, <4>3, <4>4 DEF Written
    <3>3. DOMAIN out = UNION {Written(a) : a \in 1 .. Len(file)}
      BY <1>1 DEF OutInv, Failed
    <3>4. DOMAIN out' = UNION {Written(a)' : a \in 1 .. Len(file)}
      BY <1>1, <3>2, <3>3
    <3> QED BY <1>1, <3>4 DEF OutInv
  <2>6. FilesIntact'
    BY <1>1, IntactStays
  <2>7. NothingTurnedDown'
    BY <1>4 DEF NothingTurnedDown
  <2>8. FailedInv'
    BY <1>4 DEF FailedInv, Failed
  <2> QED BY <2>1, <2>2, <2>3, <2>4, <2>5, <2>6, <2>7, <2>8 DEF UnpackInv
<1> QED BY <1>1, <1>3, <1>4

(* A block of a sheltered archive is legible, and so is every block when   *)
(* all are long enough.                                                    *)
LEMMA BlockLegible ==
  ASSUME UnpackInv, pc = "block", NEW legible \in BOOLEAN,
         changed' = Deciphered(current + data_off, archive.cmp[n]),
         legible <=> /\ current + data_off = BlockAt(Here, n)
                     /\ Legible(changed', current + data_off, archive.cmp[n])
  PROVE  (Sheltered(i + 1) \/ AllFit) => legible
<1>1. PlaceInv /\ OffsetInv /\ CellsInv
  BY DEF UnpackInv
<1>2. current + data_off = BlockAt(Here, n)
  BY <1>1, BlockHere
<1>3. CASE Sheltered(i + 1)
  <2>1. FitSoFar /\ (format # "encr" => archive.cmp[n] >= Core)
    BY <1>1, <1>3, ShelteredHere
  <2> QED BY <1>1, <1>2, <2>1, LegibleBlock
<1>4. CASE AllFit
  <2>1. FitSoFar /\ (format # "encr" => archive.cmp[n] >= Core)
    BY <1>1, <1>4, AllFitHere, AllFitBlock
  <2> QED BY <1>1, <1>2, <2>1, LegibleBlock
<1> QED BY <1>3, <1>4

(* The key file of a block, whether the block is legible or not.           *)
LEMMA KeyStep ==
  ASSUME UnpackInv, pc = "block", NEW legible \in BOOLEAN,
         Sheltered(i + 1) => legible, WriteKey(legible), UNCHANGED <<format, file>>
  PROVE  /\ FilesIntact'
         /\ DOMAIN out' =
              IF format = "blb3" THEN DOMAIN out ELSE DOMAIN out \cup {<<i, "blk.key", n>>}
<1> DEFINE name    == <<i, "blk.key", n>>
           content == IF legible THEN <<Here, n>> ELSE Garbage
<1>1. PlaceInv /\ OffsetInv /\ FilesIntact
  BY DEF UnpackInv
<1>2. /\ i \in Nat /\ Here = i + 1 /\ n \in Nat /\ DOMAIN file = 1 .. Len(file)
  <2>1. i < Len(file)
    BY <1>1 DEF PlaceInv, Inside
  <2> QED BY <1>1, <2>1, HereFacts DEF OffsetInv
<1>3. CASE format = "blb3"
  <2>1. out' = out
    BY <1>3 DEF WriteKey
  <2> QED BY <1>1, <1>3, <2>1, IntactStays
<1>4. CASE format # "blb3"
  <2>1. Write(name, content)
    BY <1>4 DEF WriteKey
  <2>2. ASSUME NEW a \in DOMAIN file, Sheltered(a)
        PROVE  /\ \A c \in DOMAIN file[a].cabs :
                    name = <<a - 1, "cab", c>> => content = CabOf(a, c)
               /\ \A b \in DOMAIN file[a].cmp :
                    name = <<a - 1, "blk.key", b>> => content = <<a, b>>
    <3>1. \A c \in DOMAIN file[a].cabs : name # <<a - 1, "cab", c>>
      <4>1. a - 1 \in Int
        BY <1>2
      <4> QED BY <1>1, <1>2, <4>1, Numbers, NamesDiffer
    <3>2. ASSUME NEW b \in DOMAIN file[a].cmp, name = <<a - 1, "blk.key", b>>
          PROVE  content = <<a, b>>
      <4>1. a = i + 1 /\ b = n
        BY <1>2, <3>2
      <4>2. legible
        BY <2>2, <4>1
      <4> QED BY <1>2, <4>1, <4>2
    <3> QED BY <3>1, <3>2
  <2> HIDE DEF name, content
  <2>3. FilesIntact'
    BY <1>1, <2>1, <2>2, IntactStep
  <2>4. DOMAIN out' = DOMAIN out \cup {name}
    BY <2>1, Writes
  <2> QED BY <1>4, <2>3, <2>4 DEF name
<1> QED BY <1>3, <1>4

(* A block that LZ4 refuses ends the run; only its key has been written.   *)
LEMMA BlockFails ==
  ASSUME UnpackInv, pc = "block", NEW legible \in BOOLEAN, ~legible, pc' = "corrupt",
         changed' = Deciphered(current + data_off, archive.cmp[n]),
         (Sheltered(i + 1) \/ AllFit) => legible, WriteKey(legible),
         UNCHANGED <<format, file, current, i, n, data_off, blk_data_off, data_buf>>
  PROVE  UnpackInv'
<1>1. /\ PlaceInv /\ OffsetInv /\ CellsInv /\ OutInv
  BY DEF UnpackInv
<1>2. PlaceInv'
  BY <1>1 DEF PlaceInv, Inside, Ends
<1>3. OffsetInv'
  BY <1>1 DEF OffsetInv, Inside
<1>4. CellsInv'
  <2>1. current + data_off \in Nat /\ archive.cmp[n] \in Nat
    <3>1. current \in Nat /\ data_off \in Nat /\ archive.cmp[n] \in Nat
      BY <1>1, BlockHere, HereFacts
    <3> QED BY <3>1
  <2>2. changed' \in [0 .. BufSz(file) - 1 -> SUBSET (0 .. BufSz(file) - 1)]
    BY <1>1, <2>1, Deciphers
  <2> QED BY <2>2 DEF CellsInv, Ends
<1>5. DataInv'
  BY DEF DataInv
<1>6. OutInv'
  BY DEF OutInv, Failed
<1>7. /\ FilesIntact'
      /\ DOMAIN out' = IF format = "blb3" THEN DOMAIN out ELSE DOMAIN out \cup {<<i, "blk.key", n>>}
  BY KeyStep
<1>8. FailedInv'
  <2>1. MetadataFirst
    BY <1>1, MetadataOf DEF Failed
  <2>2. \A a \in DOMAIN file : <<i, "blk.key", n>> \notin CabNames(a)
    <3> SUFFICES ASSUME NEW a \in DOMAIN file, NEW c \in DOMAIN file[a].cabs
                 PROVE  <<i, "blk.key", n>> # <<a - 1, "cab", c>>
      BY DEF CabNames
    <3>1. i \in Int /\ n \in Int /\ c \in Int /\ a - 1 \in Int
      BY <1>1, HereFacts, Numbers DEF OffsetInv
    <3> QED BY <3>1, NamesDiffer
  <2>3. \A a \in DOMAIN file : CabNames(a) \cap DOMAIN out' \subseteq DOMAIN out
    BY <1>7, <2>2
  <2>4. DOMAIN out \subseteq DOMAIN out'
    BY <1>7
  <2> QED BY <2>1, <2>3, <2>4, MetadataStays DEF FailedInv
<1>9. NothingTurnedDown'
  <2>1. ~AllFit /\ (AllFit' <=> AllFit)
    BY SameFile DEF AllFit
  <2> QED BY <2>1 DEF NothingTurnedDown, AllFit
<1> QED BY <1>2, <1>3, <1>4, <1>5, <1>6, <1>7, <1>8, <1>9 DEF UnpackInv

(* A block that LZ4 takes.                                                 *)
LEMMA BlockGoes ==
  ASSUME UnpackInv, pc = "block", NEW legible \in BOOLEAN,
         changed' = Deciphered(current + data_off, archive.cmp[n]),
         (Sheltered(i + 1) \/ AllFit) => legible, WriteKey(legible),
         data_buf' = Decompressed(legible), BlockDone,
         UNCHANGED <<format, file, current, i>>
  PROVE  UnpackInv'
<1> DEFINE name == <<i, "blk.key", n>>
           size == archive.cmp[n]
<1>1. PlaceInv /\ OffsetInv /\ CellsInv /\ DataInv /\ OutInv /\ NothingTurnedDown
  BY DEF UnpackInv
<1>2. /\ i < Len(file) /\ i \in Nat /\ i + 1 \in 1 .. Len(file) /\ Len(file) \in Nat
      /\ Here = i + 1 /\ archive = file[i + 1] /\ DOMAIN file = 1 .. Len(file)
      /\ current \in Nat /\ BufSz(file) \in Nat /\ Length(archive) \in Nat
      /\ Length(archive) = 1 + archive.hdr + Sum(archive.cmp)
      /\ current + Length(archive) <= BufSz(file)
  <2>1. i < Len(file)
    BY <1>1 DEF PlaceInv, Inside
  <2> QED BY <1>1, <2>1, HereFacts
<1>3. /\ n \in 1 .. Len(archive.cmp) /\ size \in Nat /\ archive.dec[n] \in Nat
      /\ data_off \in Nat /\ blk_data_off \in Nat /\ blk_data_off = Before(archive.dec, n)
      /\ data_off + size = 1 + archive.hdr + Before(archive.cmp, n + 1)
      /\ data_off + size <= Length(archive)
      /\ blk_data_off + archive.dec[n] = Before(archive.dec, n + 1)
      /\ blk_data_off + archive.dec[n] <= Sum(archive.cabs)
      /\ n = Len(archive.cmp) =>
           /\ data_off + size = Length(archive)
           /\ blk_data_off + archive.dec[n] = Sum(archive.dec)
  BY <1>1, BlockHere
<1>4. /\ Len(archive.cmp) \in Nat \ {0} /\ Len(archive.cabs) \in Nat \ {0}
      /\ Sum(archive.cabs) \in Nat
  BY <1>1, <1>2, ArchiveHere
<1>5. /\ data_off' = data_off + size /\ blk_data_off' = blk_data_off + archive.dec[n]
      /\ n < Len(archive.cmp) => n' = n + 1 /\ pc' = "block"
      /\ n = Len(archive.cmp) => n' = 1 /\ pc' \in {"free", "cab"}
  BY <1>3, <1>4 DEF BlockDone, PlainSize, MoreBlocks
<1>6. n < Len(archive.cmp) \/ n = Len(archive.cmp)
  BY <1>3, <1>4
<1>7. pc' \in {"block", "free", "cab"}
  BY <1>5, <1>6
<1>8. DOMAIN data_buf = 0 .. Sum(archive.cabs) - 1 /\ DOMAIN data_buf' = DOMAIN data_buf
  <2>1. DOMAIN data_buf = 0 .. Sum(archive.cabs) - 1
    BY <1>1, <1>2 DEF OffsetInv, Inside
  <2> QED BY <2>1 DEF Decompressed
<1>9. PlaceInv'
  BY <1>1, <1>2, <1>7 DEF PlaceInv, Inside, Ends
<1>10. OffsetInv'
  <2>1. data_off' \in 0 .. BufSz(file)
    <3>1. \A c, l, z, d \in Nat : d <= l /\ c + l <= z => d \in 0 .. z
      OBVIOUS
    <3>2. data_off' \in Nat /\ data_off' <= Length(archive)
      BY <1>3, <1>5
    <3> QED BY <1>2, <3>1, <3>2
  <2>2. blk_data_off' \in 0 .. Cardinality(DOMAIN data_buf')
    <3>1. Cardinality(DOMAIN data_buf') = Sum(archive.cabs)
      BY <1>4, <1>8, RangeSize
    <3>2. blk_data_off' \in Nat /\ blk_data_off' <= Sum(archive.cabs)
      BY <1>3, <1>5
    <3> QED BY <1>4, <3>1, <3>2
  <2>3. CASE n < Len(archive.cmp)
    <3>1. n + 1 \in Nat \ {0} /\ n + 1 <= Len(archive.cmp)
      BY <1>3, <1>4, <2>3
    <3> HIDE DEF size
    <3> QED BY <1>1, <1>2, <1>3, <1>5, <1>8, <2>1, <2>2, <2>3, <3>1 DEF OffsetInv, Inside
  <2>4. CASE n = Len(archive.cmp)
    <3>1. 1 <= Len(archive.cabs)
      BY <1>4
    <3>2. /\ n' = 1 /\ pc' \in {"free", "cab"} /\ data_off' = Length(archive)
          /\ blk_data_off' = Sum(archive.dec)
      BY <1>3, <1>5, <2>4
    <3>3. file' = file /\ i' = i
      OBVIOUS
    <3> HIDE DEF size
    <3> QED BY <1>2, <1>8, <2>1, <2>2, <3>1, <3>2, <3>3 DEF OffsetInv, Inside
  <2> QED BY <1>6, <2>3, <2>4
<1>11. CellsInv'
  <2>1. current + data_off \in Nat
    <3>1. current \in Nat /\ data_off \in Nat
      BY <1>2, <1>3
    <3> QED BY <3>1
  <2>2. /\ changed' \in [0 .. BufSz(file) - 1 -> SUBSET (0 .. BufSz(file) - 1)]
        /\ \A cell \in 0 .. BufSz(file) - 1 :
             changed'[cell] =
               IF current + data_off <= cell /\ cell < current + data_off + Touched(size)
               THEN changed[cell] \cup {current + data_off} ELSE changed[cell]
    BY <1>1, <1>3, <2>1, Deciphers
  <2>3. ASSUME FitSoFar' PROVE FitSoFar /\ Fits(i + 1, n)
    <3>1. \A c \in 1 .. i : \A b \in 1 .. Len(file[c].cmp) : Fits(c, b)
      BY <2>3, SameFile DEF FitSoFar
    <3>2. \A b \in 1 .. n : Fits(i + 1, b)
      <4>1. CASE n < Len(archive.cmp)
        <5>1. n' - 1 = n
          BY <1>3, <1>5, <4>1
        <5> QED BY <1>5, <2>3, <4>1, <5>1, SameFile DEF FitSoFar
      <4>2. CASE n = Len(archive.cmp)
        BY <1>2, <1>5, <2>3, <4>2, SameFile DEF FitSoFar
      <4> QED BY <1>6, <4>1, <4>2
    <3> QED BY <1>3, <3>1, <3>2 DEF FitSoFar
  <2>4. Reached' = current + (data_off + size) /\ Reached = current + data_off
    BY <1>5, <1>7 DEF Reached
  <2>5. ASSUME FitSoFar, Fits(i + 1, n), NEW cell \in 0 .. BufSz(file) - 1,
               cell >= current + (data_off + size)
        PROVE  changed'[cell] = {}
    <3>1. Touched(size) <= size /\ Touched(size) \in Nat
      <4>1. size = file[i + 1].cmp[n]
        BY <1>2
      <4>2. Touched(size) <= size
        BY <2>5, <4>1, Zenon DEF Fits
      <4> QED BY <1>1, <1>3, <4>2, TouchedFacts
    <3>2. cell >= current + data_off /\ ~(cell < current + data_off + Touched(size))
      <4>1. \A p, d, s, t, x \in Nat :
              t <= s /\ x >= p + (d + s) => x >= p + d /\ ~(x < p + d + t)
        OBVIOUS
      <4>2. cell \in Nat
        OBVIOUS
      <4> QED BY <1>2, <1>3, <2>5, <3>1, <4>1, <4>2
    <3>3. changed[cell] = {}
      BY <1>1, <2>4, <2>5, <3>2 DEF CellsInv, Ends
    <3> QED BY <2>2, <3>2, <3>3
  <2> QED BY <2>2, <2>3, <2>4, <2>5 DEF CellsInv
<1>12. DataInv'
  <2> SUFFICES ASSUME Sheltered(i + 1), NEW x \in 0 .. blk_data_off' - 1
               PROVE  data_buf'[x] = Plain(i + 1, x)
    <3>1. \A y : Plain(i + 1, y)' = Plain(i + 1, y)
      BY DEF Plain
    <3> QED BY <3>1, SameFile DEF DataInv
  <2>1. x \in DOMAIN data_buf /\ x \in Nat /\ x < blk_data_off + archive.dec[n]
    <3>1. \A p, d, z \in Nat : p + d <= z =>
            \A y \in 0 .. p + d - 1 : y \in 0 .. z - 1 /\ y \in Nat /\ y < p + d
      OBVIOUS
    <3>2. x \in 0 .. blk_data_off + archive.dec[n] - 1
      <4>1. blk_data_off' = blk_data_off + archive.dec[n]
        BY <1>5
      <4> QED BY <1>3, <4>1
    <3> QED BY <1>3, <1>4, <1>8, <3>1, <3>2
  <2>2. legible
    OBVIOUS
  <2>3. data_buf'[x] = IF x \notin blk_data_off .. blk_data_off + archive.dec[n] - 1 THEN data_buf[x]
                       ELSE Plain(Here, Before(archive.dec, n) + x - blk_data_off)
    BY <2>1, <2>2 DEF Decompressed
  <2>4. CASE x < blk_data_off
    <3>1. x \notin blk_data_off .. blk_data_off + archive.dec[n] - 1
      BY <1>3, <2>4
    <3>2. x \in 0 .. blk_data_off - 1
      BY <1>3, <2>1, <2>4
    <3>3. data_buf[x] = Plain(i + 1, x)
      BY <1>1, <3>2 DEF DataInv
    <3> QED BY <2>3, <3>1, <3>3
  <2>5. CASE ~(x < blk_data_off)
    <3>1. x \in blk_data_off .. blk_data_off + archive.dec[n] - 1
      BY <1>3, <2>1, <2>5
    <3>2. Before(archive.dec, n) + x - blk_data_off = x
      <4>1. \A p, y \in Nat : p + y - p = y
        OBVIOUS
      <4> QED BY <1>3, <2>1, <4>1
    <3> QED BY <1>2, <2>3, <3>1, <3>2
  <2> QED BY <2>4, <2>5
<1>13. /\ FilesIntact'
       /\ DOMAIN out' = IF format = "blb3" THEN DOMAIN out ELSE DOMAIN out \cup {name}
  BY KeyStep
<1>14. OutInv'
  <2>1. ASSUME NEW a \in 1 .. Len(file)
        PROVE  Written(a)' = IF a = i + 1 /\ format # "blb3" THEN Written(a) \cup {name} ELSE Written(a)
    <3>1. HdrFile(a)' = HdrFile(a)
      BY <1>7 DEF HdrFile, HdrDone, Inside
    <3>2. CabHdrFiles(a)' = CabHdrFiles(a)
      <4>1. \A c : CabHdrDone(a, c)' <=> CabHdrDone(a, c)
        BY <1>7 DEF CabHdrDone
      <4> QED BY <4>1 DEF CabHdrFiles
    <3>3. KeyFiles(a)' = IF a = i + 1 /\ format # "blb3" THEN KeyFiles(a) \cup {name} ELSE KeyFiles(a)
      <4>1. \A b \in 1 .. Len(file[a].cmp) :
              KeyDone(a, b)' <=> KeyDone(a, b) \/ (a = i + 1 /\ b = n)
        <5> TAKE b \in 1 .. Len(file[a].cmp)
        <5>1. CASE n < Len(archive.cmp)
          <6>1. b < n + 1 <=> b < n \/ b = n
            BY <1>3
          <6> QED BY <1>5, <5>1, <6>1 DEF KeyDone
        <5>2. CASE n = Len(archive.cmp)
          <6>1. a = i + 1 => (b < n \/ b = n)
            BY <1>2, <1>3, <5>2
          <6> QED BY <1>5, <5>2, <6>1 DEF KeyDone
        <5> QED BY <1>6, <5>1, <5>2
      <4>2. a = i + 1 => a - 1 = i /\ n \in 1 .. Len(file[a].cmp)
        BY <1>2, <1>3
      <4> QED BY <4>1, <4>2 DEF KeyFiles
    <3>4. CabFiles(a)' = CabFiles(a)
      <4>1. \A c \in 1 .. Len(file[a].cabs) : CabDone(a, c)' <=> CabDone(a, c)
        <5> TAKE c \in 1 .. Len(file[a].cabs)
        <5>1. pc' = "cab" => ~(c < n')
          BY <1>5, <1>6
        <5> QED BY <5>1 DEF CabDone
      <4> QED BY <4>1 DEF CabFiles
    <3> HIDE DEF name, size
    <3> QED BY <3>1, <3>2, <3>3, <3>4 DEF Written
  <2> HIDE DEF name, size
  <2>2. pc \notin Failed
    BY DEF Failed
  <2>3. CASE format # "blb3"
    BY <1>1, <1>2, <1>13, <2>1, <2>2, <2>3, OutStep
  <2>4. CASE format = "blb3"
    <3>1. DOMAIN out = UNION {Written(a) : a \in 1 .. Len(file)}
      BY <1>1, <2>2 DEF OutInv
    <3>2. DOMAIN out' = UNION {Written(a)' : a \in 1 .. Len(file)}
      BY <1>13, <2>1, <2>4, <3>1
    <3> QED BY <3>2 DEF OutInv
  <2> QED BY <2>3, <2>4
<1>15. NothingTurnedDown'
  BY <1>7 DEF NothingTurnedDown
<1>16. FailedInv'
  BY <1>7 DEF FailedInv, Failed
<1> QED BY <1>9, <1>10, <1>11, <1>12, <1>13, <1>14, <1>15, <1>16 DEF UnpackInv

(* A block.                                                                *)
LEMMA BlockStep == ASSUME UnpackInv, Block PROVE UnpackInv'
<1>1. PICK legible \in BOOLEAN :
        /\ legible <=> /\ current + data_off = BlockAt(Here, n)
                       /\ Legible(changed', current + data_off, archive.cmp[n])
        /\ WriteKey(legible)
        /\ \/ data_buf' = Decompressed(legible) /\ BlockDone
           \/ /\ ~legible /\ pc' = "corrupt"
              /\ UNCHANGED <<n, data_off, blk_data_off, data_buf>>
  BY DEF Block
<1>2. /\ pc = "block" /\ changed' = Deciphered(current + data_off, archive.cmp[n])
      /\ UNCHANGED <<format, file, current, i>>
  BY DEF Block
<1>3. (Sheltered(i + 1) \/ AllFit) => legible
  BY <1>1, <1>2, BlockLegible
<1>4. CASE data_buf' = Decompressed(legible) /\ BlockDone
  BY <1>1, <1>2, <1>3, <1>4, BlockGoes
<1>5. CASE ~legible /\ pc' = "corrupt" /\ UNCHANGED <<n, data_off, blk_data_off, data_buf>>
  BY <1>1, <1>2, <1>3, <1>5, BlockFails
<1> QED BY <1>1, <1>4, <1>5

(* The cabs are cut out of the plain data, which is as long as all of them *)
(* together; after the last one the loop is at the next archive.           *)
LEMMA WriteCabStep == ASSUME UnpackInv, WriteCab PROVE UnpackInv'
<1> DEFINE name == <<i, "cab", n>>
<1>1. /\ PlaceInv /\ OffsetInv /\ CellsInv /\ DataInv /\ OutInv /\ FilesIntact /\ NothingTurnedDown
      /\ pc = "cab" /\ Write(name, Cut)
      /\ n < Len(archive.cabs) => n' = n + 1 /\ UNCHANGED <<pc, current, i>>
      /\ ~(n < Len(archive.cabs)) => n' = 1 /\ pc' = "next" /\ current' = NextArchive /\ i' = i + 1
      /\ UNCHANGED <<format, file, changed, data_off, blk_data_off, data_buf>>
  BY DEF UnpackInv, WriteCab, MoreCabs, Advance
<1>2. /\ i < Len(file) /\ i \in Nat /\ i + 1 \in 1 .. Len(file) /\ Len(file) \in Nat
      /\ Here = i + 1 /\ archive = file[i + 1] /\ DOMAIN file = 1 .. Len(file)
      /\ current \in Nat /\ Length(archive) \in Nat
      /\ current + Length(archive) = Start(file, i + 2)
  BY <1>1, HereFacts DEF PlaceInv, Inside
<1>3. /\ n \in Nat \ {0} /\ n <= Len(archive.cabs) /\ Len(archive.cabs) \in Nat \ {0}
      /\ data_off = Length(archive) /\ blk_data_off = Sum(archive.dec)
      /\ archive.cabs \in Seq(Nat)
      /\ Sum(archive.cabs) \in Nat /\ Sum(archive.cabs) = Sum(archive.dec)
  BY <1>1, <1>2, ArchiveHere DEF OffsetInv
<1>4. n < Len(archive.cabs) \/ (~(n < Len(archive.cabs)) /\ n = Len(archive.cabs))
  BY <1>3
<1>5. NextArchive = current + Length(archive)
  BY <1>3 DEF NextArchive
<1>6. PlaceInv'
  <2>1. CASE n < Len(archive.cabs)
    BY <1>1, <1>2, <2>1 DEF PlaceInv, Inside, Ends
  <2>2. CASE ~(n < Len(archive.cabs))
    <3>1. i + 1 \in 0 .. Len(file) /\ (i + 1) + 1 = i + 2
      BY <1>2
    <3>2. pc' = "next" /\ i' = i + 1 /\ current' = Start(file, i + 2)
      BY <1>1, <1>2, <1>5, <2>2
    <3>3. <<format', file'>> \in Inputs /\ file' = file
      BY <1>1 DEF PlaceInv
    <3> HIDE DEF name
    <3> QED BY <3>1, <3>2, <3>3 DEF PlaceInv, Inside
  <2> QED BY <2>1, <2>2
<1>7. OffsetInv'
  <2>1. CASE n < Len(archive.cabs)
    <3>1. n + 1 \in Nat \ {0} /\ n + 1 <= Len(archive.cabs)
      BY <1>3, <2>1
    <3> QED BY <1>1, <1>2, <2>1, <3>1 DEF OffsetInv, Inside
  <2>2. CASE ~(n < Len(archive.cabs))
    BY <1>1, <2>2 DEF OffsetInv, Inside
  <2> QED BY <2>1, <2>2
<1>8. CellsInv'
  <2>1. pc \notin Ends /\ pc' \notin Ends
    BY <1>1, <1>4 DEF Ends
  <2>2. CASE n < Len(archive.cabs)
    <3>1. FitSoFar' => FitSoFar
      BY <1>1, <2>2, SameFile DEF FitSoFar
    <3>2. Reached' = Reached
      BY <1>1, <2>2 DEF Reached
    <3> QED BY <1>1, <2>1, <3>1, <3>2 DEF CellsInv
  <2>3. CASE ~(n < Len(archive.cabs))
    <3>1. ASSUME FitSoFar' PROVE FitSoFar
      <4>1. \A c \in 1 .. i + 1 : \A b \in 1 .. Len(file[c].cmp) : Fits(c, b)
        BY <1>1, <2>3, <3>1, SameFile DEF FitSoFar
      <4>2. i + 1 \in 1 .. i + 1 /\ \A c \in 1 .. i : c \in 1 .. i + 1
        BY <1>2
      <4> QED BY <1>1, <4>1, <4>2 DEF FitSoFar
    <3>2. Reached' = Reached
      BY <1>1, <1>3, <1>5, <2>3 DEF Reached
    <3> QED BY <1>1, <2>1, <3>1, <3>2 DEF CellsInv
  <2> QED BY <2>2, <2>3
<1>9. DataInv'
  <2>1. CASE n < Len(archive.cabs)
    BY <1>1, <2>1, SameFile DEF DataInv
  <2>2. CASE ~(n < Len(archive.cabs))
    BY <1>1, <2>2 DEF DataInv
  <2> QED BY <2>1, <2>2
<1>10. OutInv'
  <2>1. DOMAIN out' = DOMAIN out \cup {name}
    BY <1>1, Writes
  <2>2. ASSUME NEW a \in 1 .. Len(file)
        PROVE  Written(a)' = IF a = i + 1 THEN Written(a) \cup {name} ELSE Written(a)
    <3>1. HdrFile(a)' = HdrFile(a)
      <4>1. HdrDone(a)' <=> HdrDone(a)
        BY <1>1, <1>2, <1>4 DEF HdrDone, Inside
      <4> QED BY <4>1 DEF HdrFile
    <3>2. CabHdrFiles(a)' = CabHdrFiles(a)
      <4>1. \A c \in 1 .. Len(file[a].cabs) : CabHdrDone(a, c)' <=> CabHdrDone(a, c)
        <5>1. a <= i + 1 <=> a <= i \/ a = i + 1
          BY <1>2
        <5> QED BY <1>1, <1>4, <5>1 DEF CabHdrDone
      <4> QED BY <1>1, <4>1 DEF CabHdrFiles
    <3>3. KeyFiles(a)' = KeyFiles(a)
      <4>1. \A b \in 1 .. Len(file[a].cmp) : KeyDone(a, b)' <=> KeyDone(a, b)
        BY <1>1, <1>2, <1>4 DEF KeyDone
      <4> QED BY <1>1, <4>1 DEF KeyFiles
    <3>4. CabFiles(a)' = IF a = i + 1 THEN CabFiles(a) \cup {name} ELSE CabFiles(a)
      <4>1. \A c \in 1 .. Len(file[a].cabs) : CabDone(a, c)' <=> CabDone(a, c) \/ (a = i + 1 /\ c = n)
        <5> TAKE c \in 1 .. Len(file[a].cabs)
        <5>1. CASE n < Len(archive.cabs)
          <6>1. c < n + 1 <=> c < n \/ c = n
            BY <1>3
          <6> QED BY <1>1, <5>1, <6>1 DEF CabDone
        <5>2. CASE ~(n < Len(archive.cabs))
          <6>1. a = i + 1 => (c < n \/ c = n)
            BY <1>2, <1>3, <1>4, <5>2
          <6>2. a <= i + 1 <=> a <= i \/ a = i + 1
            BY <1>2
          <6> QED BY <1>1, <5>2, <6>1, <6>2 DEF CabDone
        <5> QED BY <5>1, <5>2
      <4>2. a = i + 1 => a - 1 = i /\ n \in 1 .. Len(file[a].cabs)
        BY <1>2, <1>3
      <4> QED BY <1>1, <4>1, <4>2 DEF CabFiles
    <3> HIDE DEF name
    <3> QED BY <3>1, <3>2, <3>3, <3>4 DEF Written
  <2> HIDE DEF name
  <2> QED BY <1>1, <1>2, <2>1, <2>2, OutStep DEF Failed
<1>11. FilesIntact'
  <2>1. ASSUME Sheltered(i + 1) PROVE Cut = CabOf(i + 1, n)
    <3>1. n \in 1 .. Len(archive.cabs) /\ n \in 1 .. Len(archive.cabs) + 1
          /\ n + 1 \in 1 .. Len(archive.cabs) + 1 /\ n + 1 <= Len(archive.cabs) + 1
          /\ Len(archive.cabs) + 1 \in 1 .. Len(archive.cabs) + 1
      BY <1>3
    <3>2. /\ Before(archive.cabs, n) \in Nat /\ archive.cabs[n] \in Nat
          /\ Before(archive.cabs, n) + archive.cabs[n] <= Sum(archive.cabs)
      <4>1. /\ Before(archive.cabs, n) \in Nat
            /\ Before(archive.cabs, n + 1) = Before(archive.cabs, n) + archive.cabs[n]
            /\ Before(archive.cabs, n + 1) <= Before(archive.cabs, Len(archive.cabs) + 1)
            /\ Before(archive.cabs, Len(archive.cabs) + 1) = Sum(archive.cabs)
        BY <1>3, <3>1, BeforeFacts
      <4> QED BY <1>3, <3>1, <4>1, Element
    <3>3. \A x \in 0 .. archive.cabs[n] - 1 :
            data_buf[Before(archive.cabs, n) + x] = Plain(i + 1, Before(archive.cabs, n) + x)
      <4> TAKE x \in 0 .. archive.cabs[n] - 1
      <4>1. Before(archive.cabs, n) + x \in 0 .. blk_data_off - 1
        <5>1. \A p, c, z \in Nat : p + c <= z => \A y \in 0 .. c - 1 : p + y \in 0 .. z - 1
          OBVIOUS
        <5> QED BY <1>3, <3>2, <5>1
      <4>2. \A y \in 0 .. blk_data_off - 1 : data_buf[y] = Plain(i + 1, y)
        BY <1>1, <2>1 DEF DataInv
      <4> QED BY <4>1, <4>2
    <3> QED BY <1>2, <3>3 DEF Cut, CabOf
  <2>2. ASSUME NEW a \in DOMAIN file, Sheltered(a)
        PROVE  /\ \A c \in DOMAIN file[a].cabs : name = <<a - 1, "cab", c>> => Cut = CabOf(a, c)
               /\ \A b \in DOMAIN file[a].cmp : name = <<a - 1, "blk.key", b>> => Cut = <<a, b>>
    <3>1. \A b \in DOMAIN file[a].cmp : name # <<a - 1, "blk.key", b>>
      <4>1. a - 1 \in Int /\ i \in Int /\ n \in Int
        BY <1>2, <1>3
      <4> QED BY <1>1, <1>2, <4>1, Numbers, NamesDiffer
    <3>2. ASSUME NEW c \in DOMAIN file[a].cabs, name = <<a - 1, "cab", c>> PROVE Cut = CabOf(a, c)
      <4>1. a = i + 1 /\ c = n
        BY <1>2, <3>2
      <4> QED BY <2>1, <2>2, <4>1
    <3> QED BY <3>1, <3>2
  <2> HIDE DEF name
  <2> QED BY <1>1, <2>2, IntactStep
<1>12. NothingTurnedDown'
  BY <1>1, <1>4 DEF NothingTurnedDown
<1>13. FailedInv'
  BY <1>1, <1>4 DEF FailedInv, Failed
<1> QED BY <1>6, <1>7, <1>8, <1>9, <1>10, <1>11, <1>12, <1>13 DEF UnpackInv

-----------------------------------------------------------------------------
(* The theorems.                                                           *)

(* The first state.                                                        *)
LEMMA InitInv == ASSUME Init PROVE UnpackInv
<1>1. /\ <<format, file>> \in Inputs
      /\ changed = [cell \in 0 .. BufSz(file) - 1 |-> {}]
      /\ current = 0 /\ i = 0 /\ pc = "next" /\ n = 1
      /\ data_off = 0 /\ blk_data_off = 0 /\ data_buf = <<>> /\ out = <<>>
  <2>1. PICK input \in Inputs : format = input[1] /\ file = input[2]
    BY DEF Init
  <2>2. input = <<input[1], input[2]>>
    BY InputsAssumption
  <2>3. <<format, file>> \in Inputs
    BY <2>1, <2>2
  <2> QED BY <2>3 DEF Init
<1>2. file \in Seq(Archive) /\ Len(file) \in Nat /\ DOMAIN file = 1 .. Len(file)
  BY <1>1, InputFacts
<1>3. Start(file, 1) = 0 /\ BufSz(file) \in Nat
  <2>1. Len(file) + 1 \in 1 .. Len(file) + 1
    BY <1>2
  <2> QED BY <1>2, <2>1, StartFacts
<1>4. PlaceInv
  BY <1>1, <1>2, <1>3 DEF PlaceInv, Inside, Ends
<1>5. OffsetInv
  <2>1. Cardinality(DOMAIN data_buf) \in Nat
    <3>1. DOMAIN data_buf = {}
      BY <1>1
    <3> QED BY <3>1, FS_EmptySet
  <2> QED BY <1>1, <1>3, <2>1 DEF OffsetInv, Inside
<1>6. CellsInv
  BY <1>1 DEF CellsInv
<1>7. DataInv
  BY <1>1 DEF DataInv
<1>8. DOMAIN out = {}
  BY <1>1
<1>9. OutInv
  <2>1. \A a \in 1 .. Len(file) : Written(a) = {}
    BY <1>1, <1>2 DEF Written, HdrFile, CabHdrFiles, KeyFiles, CabFiles, HdrDone, CabHdrDone,
       KeyDone, CabDone, Inside
  <2> QED BY <1>8, <2>1 DEF OutInv
<1>10. FailedInv
  BY <1>1 DEF FailedInv, Failed
<1>11. FilesIntact
  BY <1>8, Zenon DEF FilesIntact
<1>12. NothingTurnedDown
  BY <1>1 DEF NothingTurnedDown
<1> QED BY <1>4, <1>5, <1>6, <1>7, <1>9, <1>10, <1>11, <1>12 DEF UnpackInv

(* Every step.                                                             *)
LEMMA NextInv == UnpackInv /\ [Next]_vars => UnpackInv'
<1> SUFFICES ASSUME UnpackInv, [Next]_vars PROVE UnpackInv'
  OBVIOUS
<1>1. CASE Next
  BY <1>1, ReadHeaderStep, BadMagicStep, WriteCabHeaderStep, BlockStep, AbortStep,
     FreeHeaderStep, WriteCabStep, FinishStep, RefusedStep DEF Next
<1>2. CASE UNCHANGED vars
  <2> USE <1>2 DEF vars, UnpackInv
  <2>1. PlaceInv' /\ OffsetInv'
    BY DEF PlaceInv, OffsetInv, Inside
  <2>2. CellsInv'
    <3>1. FitSoFar' => FitSoFar
      BY SameFile DEF FitSoFar
    <3> QED BY <3>1 DEF CellsInv, Reached
  <2>3. DataInv'
    BY SameFile DEF DataInv
  <2>4. OutInv'
    <3>1. \A a : Written(a)' = Written(a)
      BY DEF Written, HdrFile, CabHdrFiles, KeyFiles, CabFiles, HdrDone, CabHdrDone, KeyDone,
         CabDone, Inside
    <3> QED BY <3>1 DEF OutInv
  <2>5. FilesIntact'
    BY IntactStays
  <2>6. NothingTurnedDown'
    <3>1. AllFit' <=> AllFit
      BY SameFile DEF AllFit
    <3> QED BY <3>1 DEF NothingTurnedDown, AllFit
  <2>7. FailedInv'
    BY MetadataStays DEF FailedInv
  <2> QED BY <2>1, <2>2, <2>3, <2>4, <2>5, <2>6, <2>7
<1> QED BY <1>1, <1>2

(* The invariant holds.                                                    *)
LEMMA Holds == Spec => []UnpackInv
<1>1. Init => UnpackInv
  BY InitInv
<1> QED BY <1>1, NextInv, PTL DEF Spec

(* Types of an unpack: the loop is at an archive or at the end, and extract *)
(* never counts past the buffers it reads and writes.                      *)
THEOREM TypesHold == Spec => []TypeOK
<1>1. UnpackInv => TypeOK
  <2> SUFFICES ASSUME PlaceInv, OffsetInv, CellsInv PROVE TypeOK
    BY DEF UnpackInv
  <2>1. current \in 0 .. BufSz(file) /\ data_off \in 0 .. BufSz(file) /\ BufSz(file) \in Nat
    BY HereFacts DEF OffsetInv
  <2>2. current + data_off \in 0 .. 2 * BufSz(file)
    BY <2>1
  <2> QED BY <2>1, <2>2 DEF TypeOK, PlaceInv, OffsetInv, CellsInv
<1> QED BY <1>1, Holds, PTL

(* The cab and key files of every archive whose own blocks are long enough *)
(* hold its own bytes, whatever the windows of its last block and of other *)
(* archives reach over.                                                    *)
THEOREM FilesHold == Spec => []FilesIntact
<1>1. UnpackInv => FilesIntact
  BY DEF UnpackInv
<1> QED BY <1>1, Holds, PTL

(* A file whose blocks are all long enough is never called corrupt and     *)
(* never ends in an assertion or in the heap.                              *)
THEOREM NothingTurnedDownHolds == Spec => []NothingTurnedDown
<1>1. UnpackInv => NothingTurnedDown
  BY DEF UnpackInv
<1> QED BY <1>1, Holds, PTL

(* A run that succeeds has written every file of every archive, and nothing *)
(* else.                                                                   *)
THEOREM CompleteHolds == Spec => []Complete
<1>1. UnpackInv => Complete
  <2> SUFFICES ASSUME PlaceInv, OutInv, pc = "ok"
               PROVE  DOMAIN out = UNION {Names(a) \cup CabNames(a) : a \in DOMAIN file}
    BY DEF UnpackInv, Complete
  <2>1. i = Len(file) /\ Len(file) \in Nat /\ DOMAIN file = 1 .. Len(file)
    BY HereFacts DEF PlaceInv
  <2>2. DOMAIN out = UNION {Written(a) : a \in 1 .. Len(file)}
    BY DEF OutInv, Failed
  <2>3. ASSUME NEW a \in 1 .. Len(file) PROVE Written(a) = Names(a) \cup CabNames(a)
    <3>1. a <= i
      BY <2>1
    <3> QED BY <3>1, DoneFiles DEF Written
  <2> QED BY <2>1, <2>2, <2>3
<1> QED BY <1>1, Holds, PTL

(* A cab is written only after everything pack needs beside it and after    *)
(* all of the archives before, also in a run that fails.                   *)
THEOREM MetadataHolds == Spec => []MetadataFirst
<1>1. UnpackInv => MetadataFirst
  BY MetadataOf DEF UnpackInv, FailedInv
<1> QED BY <1>1, Holds, PTL

(* The file a step is about to write has not been written before.          *)
LEMMA Fresh ==
  ASSUME PlaceInv, OffsetInv, OutInv
  PROVE  /\ pc = "next" => <<i, "hdr">> \notin DOMAIN out
         /\ pc = "cab.hdr" => <<i, "cab.hdr", n>> \notin DOMAIN out
         /\ pc = "block" => <<i, "blk.key", n>> \notin DOMAIN out
         /\ pc = "cab" => <<i, "cab", n>> \notin DOMAIN out
<1>1. i \in Int /\ n \in Int
  BY HereFacts DEF OffsetInv
<1>2. pc \notin Failed => DOMAIN out = UNION {Written(a) : a \in 1 .. Len(file)}
  BY DEF OutInv
<1>3. \A a \in 1 .. Len(file) :
        /\ <<i, "hdr">> \in Written(a) => i = a - 1 /\ HdrDone(a)
        /\ <<i, "cab.hdr", n>> \in Written(a) => i = a - 1 /\ CabHdrDone(a, n)
        /\ <<i, "blk.key", n>> \in Written(a) => i = a - 1 /\ KeyDone(a, n)
        /\ <<i, "cab", n>> \in Written(a) => i = a - 1 /\ CabDone(a, n)
  <2> TAKE a \in 1 .. Len(file)
  <2>1. a \in Int
    OBVIOUS
  <2> QED BY <1>1, <2>1, WrittenFacts, Zenon
<1>4. \A a \in 1 .. Len(file) : i = a - 1 => ~(a <= i) /\ ~(n < n)
  BY <1>1
<1>5. ASSUME pc = "next" PROVE <<i, "hdr">> \notin DOMAIN out
  <2>1. \A a \in 1 .. Len(file) : <<i, "hdr">> \notin Written(a)
    BY <1>3, <1>4, <1>5 DEF HdrDone, Inside
  <2> QED BY <1>2, <1>5, <2>1 DEF Failed
<1>6. ASSUME pc = "cab.hdr" PROVE <<i, "cab.hdr", n>> \notin DOMAIN out
  <2>1. \A a \in 1 .. Len(file) : <<i, "cab.hdr", n>> \notin Written(a)
    BY <1>3, <1>4, <1>6 DEF CabHdrDone
  <2> QED BY <1>2, <1>6, <2>1 DEF Failed
<1>7. ASSUME pc = "block" PROVE <<i, "blk.key", n>> \notin DOMAIN out
  <2>1. \A a \in 1 .. Len(file) : <<i, "blk.key", n>> \notin Written(a)
    BY <1>3, <1>4, <1>7 DEF KeyDone
  <2> QED BY <1>2, <1>7, <2>1 DEF Failed
<1>8. ASSUME pc = "cab" PROVE <<i, "cab", n>> \notin DOMAIN out
  <2>1. \A a \in 1 .. Len(file) : <<i, "cab", n>> \notin Written(a)
    BY <1>3, <1>4, <1>8 DEF CabDone
  <2> QED BY <1>2, <1>8, <2>1 DEF Failed
<1> QED BY <1>5, <1>6, <1>7, <1>8

(* No step changes or removes a file that the run has written.             *)
THEOREM OnceHolds == Spec => WrittenOnce
<1>1. UnpackInv /\ [Next]_vars
        => [\A name \in DOMAIN out : name \in DOMAIN out' /\ out'[name] = out[name]]_vars
  <2> DEFINE Same == \A m \in DOMAIN out : m \in DOMAIN out' /\ out'[m] = out[m]
  <2> SUFFICES ASSUME UnpackInv, Next PROVE Same
    OBVIOUS
  <2>1. PlaceInv /\ OffsetInv /\ OutInv
    BY DEF UnpackInv
  <2>2. ASSUME NEW name, NEW content, Write(name, content), name \notin DOMAIN out PROVE Same
    <3>1. /\ DOMAIN out' = DOMAIN out \cup {name}
          /\ \A m \in DOMAIN out : m # name => out'[m] = out[m]
      BY <2>2, Writes
    <3> QED BY <2>2, <3>1
  <2>3. out' = out => Same
    OBVIOUS
  <2> HIDE DEF Same
  <2>4. CASE ReadHeader
    BY <2>1, <2>2, <2>4, Fresh DEF ReadHeader
  <2>5. CASE WriteCabHeader
    BY <2>1, <2>2, <2>5, Fresh DEF WriteCabHeader
  <2>6. CASE Block
    BY <2>1, <2>2, <2>3, <2>6, Fresh DEF Block, WriteKey
  <2>7. CASE WriteCab
    BY <2>1, <2>2, <2>7, Fresh DEF WriteCab
  <2>8. CASE BadMagic \/ Abort \/ FreeHeader \/ Finish \/ Refused
    BY <2>3, <2>8 DEF BadMagic, Abort, FreeHeader, Finish, Refused
  <2> QED BY <2>4, <2>5, <2>6, <2>7, <2>8 DEF Next
<1> QED BY <1>1, Holds, PTL DEF Spec, WrittenOnce
=============================================================================
