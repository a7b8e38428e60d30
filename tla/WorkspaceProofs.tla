-------------------------- MODULE WorkspaceProofs --------------------------
(***************************************************************************)
(* Proofs that a pack writes what the last whole unpack left, and never a  *)
(* cab under a header older than it, for every set of archives, size of    *)
(* blocks, limit of cabs and length of a session.                          *)
(***************************************************************************)
EXTENDS Workspace, SumsProofs

USE FormatsAssumption, LimitsAssumption, CountsAssumption, SourcesAssumption

-----------------------------------------------------------------------------
(* The inductive invariant.                                                *)

FileItems == [tag : Held, format : Formats \cup {"none"}, n : Nat]

Commands ==
  {Idle}
    \cup [mode : {"unpack"}, format : Formats, src : Seq(Parts), part : Nat \ {0},
          file : Nat \ {0}]
    \cup [mode : {"pack"}, format : Formats, count : Nat, part : Nat \ {0}]

TypesInv ==
  /\ run \in Commands /\ runs \in 0 .. MaxRuns /\ (run # Idle => runs >= 1)
  /\ \A p \in DOMAIN dir : dir[p] \in [item : FileItems, run : 1 .. runs]
  /\ out \in Seq(Parts) /\ \A i \in DOMAIN out : Len(out[i].cabs) <= MaxCabs
  /\ whole \in Seq(Seq(Parts))

\* What describes a cab is there, and not from an earlier run than the cab.
CabsInv ==
  \A q \in DOMAIN dir : q[2] = "cab" =>
    \A p \in {<<q[1], "hdr", 0>>, <<q[1], "cab.hdr", q[3]>>} :
      p \in DOMAIN dir /\ dir[p].run >= dir[q].run

\* The first n files of a part hold what the part says.
There(i, part, n) ==
  \A f \in 1 .. n :
    LET file == FilesOf(i, part)[f]
    IN  file[1] \in DOMAIN dir /\ dir[file[1]].item = file[2]

AllThere(i, part) == There(i, part, Len(FilesOf(i, part)))

\* The parts before the one that an unpack is at are there, and of that part the
\* files before the one that it is at, which are from this run.
UnpackInv ==
  Unpacking =>
    /\ whole = <<>>
    /\ \A j \in DOMAIN run.src : j < run.part => AllThere(j, run.src[j])
    /\ MoreParts /\ GoodMagic =>
         /\ run.file \in 1 .. Len(PartFiles) + 1
         /\ There(run.part, run.src[run.part], run.file - 1)
         /\ \A f \in 1 .. run.file - 1 : dir[PartFiles[f][1]].run = runs

\* So is all of an archive once its unpack has returned 0.
WholeInv ==
  \A k \in DOMAIN whole : \A j \in DOMAIN whole[k] : AllThere(j, whole[k][j])

PackInv ==
  /\ Packing => Len(out) = run.part - 1
  /\ OnlyLastUnpacked

WorkspaceInv ==
  TypesInv /\ CabsInv /\ UnpackInv /\ WholeInv /\ PackInv /\ DescribedByItsOwn

-----------------------------------------------------------------------------
(* The files of a part.                                                    *)

Paths(i) == {i} \X {"hdr", "cab.hdr", "key", "cab"} \X Nat

\* What a list of cabs holds.
LEMMA CabTypes ==
  ASSUME NEW cabs \in Cabs, NEW c \in 1 .. Len(cabs)
  PROVE  /\ cabs[c] \in [meta : Held, data : Held, size : Nat]
         /\ cabs[c].meta \in Held /\ cabs[c].data \in Held /\ cabs[c].size \in Nat
<1> DEFINE Cab == [meta : Held, data : Held, size : Nat]
<1>1. cabs \in Seq(Cab)
  BY DEF Cabs
<1>2. cabs[c] \in Cab
  <2> HIDE DEF Cab
  <2> QED BY <1>1
<1> QED BY <1>2

\* Where the elements of two sequences are when one follows the other.
LEMMA Joined ==
  ASSUME NEW S, NEW s \in Seq(S), NEW t \in Seq(S)
  PROVE  /\ s \o t \in Seq(S) /\ Len(s \o t) = Len(s) + Len(t)
         /\ \A a \in 1 .. Len(s) : (s \o t)[a] = s[a]
         /\ \A b \in 1 .. Len(t) : (s \o t)[Len(s) + b] = t[b]
  OBVIOUS

\* Blocks are counted in natural numbers.
LEMMA BlockCountNat == ASSUME NEW cabs \in Cabs PROVE BlockCount(cabs) \in Nat
<1> DEFINE sizes == [c \in DOMAIN cabs |-> cabs[c].size]
<1>1. sizes \in Seq(Nat)
  <2>1. Len(cabs) \in Nat /\ DOMAIN cabs = 1 .. Len(cabs)
    BY DEF Cabs
  <2>2. \A c \in 1 .. Len(cabs) : cabs[c].size \in Nat
    BY CabTypes
  <2> QED BY <2>1, <2>2
<1>2. Sum(sizes) \in Nat
  <2>1. Len(sizes) + 1 \in 1 .. Len(sizes) + 1
    BY <1>1
  <2> HIDE DEF sizes
  <2> QED BY <1>1, <2>1, BeforeFacts
<1>3. BlockCount(cabs) = (Sum(sizes) + BlockSize - 1) \div BlockSize
  BY DEF BlockCount
<1> HIDE DEF sizes
<1> QED BY <1>2, <1>3

\* The key files of a part.
LEMMA KeyFilesSeq ==
  ASSUME NEW i, NEW part \in Parts
  PROVE  KeyFiles(i, part) \in Seq(Paths(i) \X FileItems)
<1> DEFINE S == Paths(i) \X FileItems
           keys == IF part.format = "encr" THEN [b \in 1 .. BlockCount(part.cabs) |-> Default]
                   ELSE part.keys
<1>1. /\ part.format \in Formats \cup {"none"} /\ part.cabs \in Cabs /\ part.keys \in Seq(Held)
  BY DEF Parts
<1>2. keys \in Seq(Held)
  <2>1. BlockCount(part.cabs) \in Nat /\ Default \in Held
    BY <1>1, BlockCountNat DEF Held
  <2> QED BY <1>1, <2>1
<1>3. KeyFiles(i, part) = [b \in DOMAIN keys |-> <<<<i, "key", b>>, Item(keys[b], part.format, 0)>>]
  BY DEF KeyFiles
<1> HIDE DEF keys
<1>4. Len(keys) \in Nat /\ DOMAIN keys = 1 .. Len(keys) /\ \A b \in DOMAIN keys : keys[b] \in Held
  BY <1>2
<1>5. \A b \in 1 .. Len(keys) : <<<<i, "key", b>>, Item(keys[b], part.format, 0)>> \in S
  BY <1>1, <1>4 DEF Item, FileItems, Paths
<1>6. KeyFiles(i, part) \in Seq(S)
  <2> HIDE DEF S
  <2> QED BY <1>3, <1>4, <1>5
<1> QED BY <1>6

\* Which file comes at which place: m cabs and k keys, in files.
Placed(i, part, m, k, files) ==
  /\ files \in Seq(Paths(i) \X FileItems)
  /\ m \in Nat /\ k \in Nat /\ Len(files) = 1 + m + k + m
  /\ files[1] = HdrFile(i, part)
  /\ \A c \in 1 .. m : /\ files[1 + c] = CabHdrFiles(i, part)[c]
                       /\ files[1 + m + k + c] = CabFiles(i, part)[c]
  /\ \A b \in 1 .. k : files[1 + m + b] = KeyFiles(i, part)[b]

\* FilesOf places them so.
LEMMA FilesAt ==
  ASSUME NEW i, NEW part \in Parts
  PROVE  Placed(i, part, Len(part.cabs), Len(KeyFiles(i, part)), FilesOf(i, part))
<1> DEFINE S == Paths(i) \X FileItems
<1>1. /\ part.format \in Formats \cup {"none"} /\ part.hdr \in Held /\ part.cabs \in Cabs
      /\ part.keys \in Seq(Held)
  BY DEF Parts
<1>2. Len(part.cabs) \in Nat /\ DOMAIN part.cabs = 1 .. Len(part.cabs)
  BY <1>1 DEF Cabs
<1>3. \A c \in DOMAIN part.cabs :
        part.cabs[c].meta \in Held /\ part.cabs[c].data \in Held /\ part.cabs[c].size \in Nat
  BY <1>1, <1>2, CabTypes
<1>4. HdrFile(i, part) \in S
  BY <1>1, <1>2 DEF HdrFile, Item, FileItems, Paths
<1>5. CabHdrFiles(i, part) \in Seq(S) /\ Len(CabHdrFiles(i, part)) = Len(part.cabs)
  <2>1. \A c \in 1 .. Len(part.cabs) :
          <<<<i, "cab.hdr", c>>, Item(part.cabs[c].meta, part.format, 0)>> \in S
    BY <1>1, <1>2, <1>3 DEF Item, FileItems, Paths
  <2> HIDE DEF S
  <2> QED BY <1>2, <2>1 DEF CabHdrFiles
<1>6. CabFiles(i, part) \in Seq(S) /\ Len(CabFiles(i, part)) = Len(part.cabs)
  <2>1. \A c \in 1 .. Len(part.cabs) :
          <<<<i, "cab", c>>, Item(part.cabs[c].data, part.format, part.cabs[c].size)>> \in S
    BY <1>1, <1>2, <1>3 DEF Item, FileItems, Paths
  <2> HIDE DEF S
  <2> QED BY <1>2, <2>1 DEF CabFiles
<1>7. KeyFiles(i, part) \in Seq(S)
  BY KeyFilesSeq
<1> HIDE DEF S
<1> DEFINE hdr == <<HdrFile(i, part)>>
           metas == CabHdrFiles(i, part)
           keys == KeyFiles(i, part)
           cabs == CabFiles(i, part)
           m == Len(part.cabs)
           k == Len(keys)
<1>8. FilesOf(i, part) = hdr \o metas \o keys \o cabs
  BY DEF FilesOf
<1>9. hdr \in Seq(S) /\ Len(hdr) = 1 /\ hdr[1] = HdrFile(i, part) /\ k \in Nat /\ m \in Nat
  BY <1>2, <1>4, <1>7
<1> SUFFICES /\ FilesOf(i, part) \in Seq(S)
             /\ Len(FilesOf(i, part)) = 1 + m + k + m
             /\ FilesOf(i, part)[1] = HdrFile(i, part)
             /\ \A c \in 1 .. m : /\ FilesOf(i, part)[1 + c] = metas[c]
                                  /\ FilesOf(i, part)[1 + m + k + c] = cabs[c]
             /\ \A b \in 1 .. k : FilesOf(i, part)[1 + m + b] = keys[b]
  BY <1>9 DEF S, Placed
<1>10. metas \in Seq(S) /\ cabs \in Seq(S) /\ keys \in Seq(S) /\ Len(metas) = m /\ Len(cabs) = m
  BY <1>5, <1>6, <1>7
<1>11. k = Len(keys)
  OBVIOUS
<1> HIDE DEF hdr, metas, keys, cabs, m, k
<1> DEFINE two == hdr \o metas
           three == two \o keys
<1>12. /\ two \in Seq(S) /\ Len(two) = 1 + m /\ two[1] = HdrFile(i, part)
       /\ \A c \in 1 .. m : two[1 + c] = metas[c]
  <2>1. /\ two \in Seq(S) /\ Len(two) = Len(hdr) + Len(metas)
        /\ \A a \in 1 .. Len(hdr) : two[a] = hdr[a]
        /\ \A c \in 1 .. Len(metas) : two[Len(hdr) + c] = metas[c]
    <3>1. hdr \in Seq(S) /\ metas \in Seq(S)
      BY <1>9, <1>10
    <3>2. two \in Seq(S) /\ Len(two) = Len(hdr) + Len(metas)
      BY <3>1, Joined, Zenon
    <3>3. \A a \in 1 .. Len(hdr) : two[a] = hdr[a]
      BY <3>1, Joined
    <3>4. \A c \in 1 .. Len(metas) : two[Len(hdr) + c] = metas[c]
      BY <3>1, Joined
    <3> QED BY <3>2, <3>3, <3>4, Zenon
  <2>2. 1 \in 1 .. 1
    OBVIOUS
  <2> HIDE DEF two
  <2> QED BY <1>9, <1>10, <2>1, <2>2
<1> HIDE DEF two
<1>13. /\ three \in Seq(S) /\ Len(three) = 1 + m + k
       /\ \A f \in 1 .. 1 + m : three[f] = two[f]
       /\ \A b \in 1 .. k : three[1 + m + b] = keys[b]
  <2>1. /\ three \in Seq(S) /\ Len(three) = Len(two) + Len(keys)
        /\ \A f \in 1 .. Len(two) : three[f] = two[f]
        /\ \A b \in 1 .. Len(keys) : three[Len(two) + b] = keys[b]
    <3>1. two \in Seq(S) /\ keys \in Seq(S)
      BY <1>10, <1>12
    <3>2. three \in Seq(S) /\ Len(three) = Len(two) + Len(keys)
      BY <3>1, Joined, Zenon
    <3>3. \A a \in 1 .. Len(two) : three[a] = two[a]
      BY <3>1, Joined
    <3>4. \A c \in 1 .. Len(keys) : three[Len(two) + c] = keys[c]
      BY <3>1, Joined
    <3> QED BY <3>2, <3>3, <3>4, Zenon
  <2> HIDE DEF three
  <2> QED BY <1>11, <1>12, <2>1
<1> HIDE DEF three
<1>14. /\ FilesOf(i, part) \in Seq(S) /\ Len(FilesOf(i, part)) = 1 + m + k + m
       /\ \A f \in 1 .. 1 + m + k : FilesOf(i, part)[f] = three[f]
       /\ \A c \in 1 .. m : FilesOf(i, part)[1 + m + k + c] = cabs[c]
  <2>1. FilesOf(i, part) = three \o cabs
    BY <1>8 DEF two, three
  <2>2. /\ FilesOf(i, part) \in Seq(S) /\ Len(FilesOf(i, part)) = Len(three) + Len(cabs)
        /\ \A f \in 1 .. Len(three) : FilesOf(i, part)[f] = three[f]
        /\ \A c \in 1 .. Len(cabs) : FilesOf(i, part)[Len(three) + c] = cabs[c]
    <3>1. three \in Seq(S) /\ cabs \in Seq(S)
      BY <1>10, <1>13
    <3>2. FilesOf(i, part) \in Seq(S) /\ Len(FilesOf(i, part)) = Len(three) + Len(cabs)
      BY <2>1, <3>1, Joined, Zenon
    <3>3. \A a \in 1 .. Len(three) : FilesOf(i, part)[a] = three[a]
      BY <2>1, <3>1, Joined
    <3>4. \A c \in 1 .. Len(cabs) : FilesOf(i, part)[Len(three) + c] = cabs[c]
      BY <2>1, <3>1, Joined
    <3> QED BY <3>2, <3>3, <3>4, Zenon
  <2> QED BY <1>10, <1>13, <2>2
<1>15. 1 \in 1 .. 1 + m /\ 1 \in 1 .. 1 + m + k /\ \A c \in 1 .. m : 1 + c \in 1 .. 1 + m /\ 1 + c \in 1 .. 1 + m + k
  BY <1>9
<1>16. \A b \in 1 .. k : 1 + m + b \in 1 .. 1 + m + k
  BY <1>9
<1> QED BY <1>12, <1>13, <1>14, <1>15, <1>16

\* The path and the place of every file.
LEMMA FileKinds ==
  ASSUME NEW i, NEW part \in Parts, NEW f \in 1 .. Len(FilesOf(i, part))
  PROVE  LET m == Len(part.cabs)
             k == Len(KeyFiles(i, part))
             path == FilesOf(i, part)[f][1]
         IN  \/ f = 1 /\ path = <<i, "hdr", 0>>
             \/ \E c \in 1 .. m : f = 1 + c /\ path = <<i, "cab.hdr", c>>
             \/ \E b \in 1 .. k : f = 1 + m + b /\ path = <<i, "key", b>>
             \/ \E c \in 1 .. m : f = 1 + m + k + c /\ path = <<i, "cab", c>>
<1> DEFINE m == Len(part.cabs)
           k == Len(KeyFiles(i, part))
           files == FilesOf(i, part)
<1>1. /\ m \in Nat /\ k \in Nat /\ Len(files) = 1 + m + k + m
      /\ files[1] = HdrFile(i, part)
      /\ \A c \in 1 .. m : /\ files[1 + c] = CabHdrFiles(i, part)[c]
                           /\ files[1 + m + k + c] = CabFiles(i, part)[c]
      /\ \A b \in 1 .. k : files[1 + m + b] = KeyFiles(i, part)[b]
  <2>1. Placed(i, part, m, k, files)
    BY FilesAt
  <2> HIDE DEF m, k, files
  <2> QED BY <2>1, Zenon DEF Placed
<1>2. HdrFile(i, part)[1] = <<i, "hdr", 0>>
  BY DEF HdrFile
<1>3. \A c \in 1 .. m : /\ CabHdrFiles(i, part)[c][1] = <<i, "cab.hdr", c>>
                        /\ CabFiles(i, part)[c][1] = <<i, "cab", c>>
  <2>1. DOMAIN part.cabs = 1 .. m
    BY DEF Parts, Cabs
  <2> HIDE DEF m
  <2> QED BY <2>1 DEF CabHdrFiles, CabFiles
<1>4. \A b \in 1 .. k : KeyFiles(i, part)[b][1] = <<i, "key", b>>
  <2> DEFINE keys == IF part.format = "encr" THEN [b \in 1 .. BlockCount(part.cabs) |-> Default]
                     ELSE part.keys
  <2>1. KeyFiles(i, part) = [b \in DOMAIN keys |-> <<<<i, "key", b>>, Item(keys[b], part.format, 0)>>]
    BY DEF KeyFiles
  <2>2. KeyFiles(i, part) \in Seq(Paths(i) \X FileItems)
    BY KeyFilesSeq
  <2>3. 1 .. k = DOMAIN KeyFiles(i, part)
    BY <2>2
  <2> HIDE DEF keys, k
  <2>4. DOMAIN KeyFiles(i, part) = DOMAIN keys
    BY <2>1
  <2>5. \A b \in DOMAIN keys :
          KeyFiles(i, part)[b] = <<<<i, "key", b>>, Item(keys[b], part.format, 0)>>
    BY <2>1, Zenon
  <2>6. \A b : <<<<i, "key", b>>, Item(keys[b], part.format, 0)>>[1] = <<i, "key", b>>
    OBVIOUS
  <2> QED BY <2>3, <2>4, <2>5, <2>6, Zenon
<1> HIDE DEF m, k, files
<1>5. \/ f = 1
      \/ \E c \in 1 .. m : f = 1 + c
      \/ \E b \in 1 .. k : f = 1 + m + b
      \/ \E c \in 1 .. m : f = 1 + m + k + c
  <2>1. f \in 1 .. 1 + m + k + m
    BY <1>1 DEF files
  <2>2. f - 1 \in 1 .. m => f = 1 + (f - 1)
    BY <1>1, <2>1
  <2>3. f - 1 - m \in 1 .. k => f = 1 + m + (f - 1 - m)
    BY <1>1, <2>1
  <2>4. f - 1 - m - k \in 1 .. m => f = 1 + m + k + (f - 1 - m - k)
    BY <1>1, <2>1
  <2>5. f = 1 \/ f - 1 \in 1 .. m \/ f - 1 - m \in 1 .. k \/ f - 1 - m - k \in 1 .. m
    BY <1>1, <2>1
  <2> QED BY <2>2, <2>3, <2>4, <2>5
<1>6. \/ f = 1 /\ files[f][1] = <<i, "hdr", 0>>
      \/ \E c \in 1 .. m : f = 1 + c /\ files[f][1] = <<i, "cab.hdr", c>>
      \/ \E b \in 1 .. k : f = 1 + m + b /\ files[f][1] = <<i, "key", b>>
      \/ \E c \in 1 .. m : f = 1 + m + k + c /\ files[f][1] = <<i, "cab", c>>
  <2>1. CASE f = 1
    BY <1>1, <1>2, <2>1
  <2>2. ASSUME NEW c \in 1 .. m, f = 1 + c PROVE files[f][1] = <<i, "cab.hdr", c>>
    BY <1>1, <1>3, <2>2
  <2>3. ASSUME NEW b \in 1 .. k, f = 1 + m + b PROVE files[f][1] = <<i, "key", b>>
    BY <1>1, <1>4, <2>3
  <2>4. ASSUME NEW c \in 1 .. m, f = 1 + m + k + c PROVE files[f][1] = <<i, "cab", c>>
    BY <1>1, <1>3, <2>4
  <2> QED BY <1>5, <2>1, <2>2, <2>3, <2>4, Zenon
<1> QED BY <1>6 DEF m, k, files

\* No two files of a part have the same path.
LEMMA PathsDiffer ==
  ASSUME NEW i, NEW part \in Parts,
         NEW f \in 1 .. Len(FilesOf(i, part)), NEW g \in 1 .. Len(FilesOf(i, part)),
         FilesOf(i, part)[f][1] = FilesOf(i, part)[g][1]
  PROVE  f = g
<1> DEFINE m == Len(part.cabs)
           k == Len(KeyFiles(i, part))
           Kind(h, path) ==
             \/ h = 1 /\ path = <<i, "hdr", 0>>
             \/ \E c \in 1 .. m : h = 1 + c /\ path = <<i, "cab.hdr", c>>
             \/ \E b \in 1 .. k : h = 1 + m + b /\ path = <<i, "key", b>>
             \/ \E c \in 1 .. m : h = 1 + m + k + c /\ path = <<i, "cab", c>>
<1>1. Kind(f, FilesOf(i, part)[f][1]) /\ Kind(g, FilesOf(i, part)[g][1])
  BY FileKinds
<1>2. ASSUME NEW path, Kind(f, path), Kind(g, path) PROVE f = g
  <2> HIDE DEF m, k
  <2> QED BY <1>2
<1> HIDE DEF Kind
<1> QED BY <1>1, <1>2

\* Where the header and the metadata of a cab are.
LEMMA MetadataAt ==
  ASSUME NEW i, NEW part \in Parts
  PROVE  /\ FilesOf(i, part)[1][1] = <<i, "hdr", 0>>
         /\ \A c \in 1 .. Len(part.cabs) : FilesOf(i, part)[1 + c][1] = <<i, "cab.hdr", c>>
         /\ Len(part.cabs) \in Nat /\ Len(KeyFiles(i, part)) \in Nat
<1> DEFINE m == Len(part.cabs)
           k == Len(KeyFiles(i, part))
           files == FilesOf(i, part)
<1>1. /\ m \in Nat /\ k \in Nat /\ Len(files) = 1 + m + k + m
      /\ files[1] = HdrFile(i, part)
      /\ \A c \in 1 .. m : /\ files[1 + c] = CabHdrFiles(i, part)[c]
                           /\ files[1 + m + k + c] = CabFiles(i, part)[c]
      /\ \A b \in 1 .. k : files[1 + m + b] = KeyFiles(i, part)[b]
  <2>1. Placed(i, part, m, k, files)
    BY FilesAt
  <2> HIDE DEF m, k, files
  <2> QED BY <2>1, Zenon DEF Placed
<1>2. files[1][1] = <<i, "hdr", 0>>
  BY <1>1 DEF HdrFile
<1>3. \A c \in 1 .. m : files[1 + c][1] = <<i, "cab.hdr", c>>
  <2>1. DOMAIN part.cabs = 1 .. m
    BY DEF Parts, Cabs
  <2>2. \A c \in 1 .. m : CabHdrFiles(i, part)[c][1] = <<i, "cab.hdr", c>>
    <3> HIDE DEF m
    <3> QED BY <2>1 DEF CabHdrFiles
  <2> HIDE DEF m, k, files
  <2> QED BY <1>1, <2>2
<1> QED BY <1>1, <1>2, <1>3

\* The header and the metadata of the cab of file f are among the files before it.
MetadataBefore(i, files, f) ==
  \A p \in {<<i, "hdr", 0>>, <<i, "cab.hdr", files[f][1][3]>>} :
    \E g \in 1 .. f - 1 : files[g][1] = p

\* What describes a cab comes before it.
LEMMA DescribedBefore ==
  ASSUME NEW i, NEW part \in Parts, NEW f \in 1 .. Len(FilesOf(i, part)),
         FilesOf(i, part)[f][1][2] = "cab"
  PROVE  MetadataBefore(i, FilesOf(i, part), f)
<1> DEFINE m == Len(part.cabs)
           k == Len(KeyFiles(i, part))
           files == FilesOf(i, part)
<1>1. /\ m \in Nat /\ k \in Nat /\ files[1][1] = <<i, "hdr", 0>>
      /\ \A c \in 1 .. m : files[1 + c][1] = <<i, "cab.hdr", c>>
  BY MetadataAt
<1>2. PICK c \in 1 .. m : f = 1 + m + k + c /\ files[f][1] = <<i, "cab", c>>
  BY FileKinds
<1>3. 1 \in 1 .. f - 1 /\ 1 + c \in 1 .. f - 1
  <2> HIDE DEF m, k
  <2> QED BY <1>1, <1>2
<1>4. files[f][1][3] = c
  BY <1>2
<1> HIDE DEF files, m
<1>5. \A p \in {<<i, "hdr", 0>>, <<i, "cab.hdr", files[f][1][3]>>} :
        \E g \in 1 .. f - 1 : files[g][1] = p
  BY <1>1, <1>3, <1>4
<1> QED BY <1>5 DEF files, MetadataBefore

\* They are as many as a natural number.
LEMMA FilesLen ==
  ASSUME NEW i, NEW part \in Parts
  PROVE  Len(FilesOf(i, part)) \in Nat
<1>1. Placed(i, part, Len(part.cabs), Len(KeyFiles(i, part)), FilesOf(i, part))
  BY FilesAt
<1>2. FilesOf(i, part) \in Seq(Paths(i) \X FileItems)
  BY <1>1, Zenon DEF Placed
<1> QED BY <1>2

\* What a file of a part is.
LEMMA FileTyped ==
  ASSUME NEW i, NEW part \in Parts, NEW f \in 1 .. Len(FilesOf(i, part))
  PROVE  /\ FilesOf(i, part)[f] \in Paths(i) \X FileItems
         /\ FilesOf(i, part)[f][1] \in Paths(i) /\ FilesOf(i, part)[f][2] \in FileItems
<1> DEFINE S == Paths(i) \X FileItems
           files == FilesOf(i, part)
<1>1. files \in Seq(S)
  <2>1. Placed(i, part, Len(part.cabs), Len(KeyFiles(i, part)), files)
    BY FilesAt
  <2> QED BY <2>1 DEF Placed
<1>2. files[f] \in S
  <2> HIDE DEF S
  <2> QED BY <1>1
<1> QED BY <1>2

\* What is in the files of a part.
LEMMA FilesHold ==
  ASSUME NEW i, NEW part \in Parts, AllThere(i, part)
  PROVE  /\ <<i, "hdr", 0>> \in DOMAIN dir
         /\ dir[<<i, "hdr", 0>>].item = Item(part.hdr, part.format, Len(part.cabs))
         /\ \A c \in 1 .. Len(part.cabs) :
              /\ <<i, "cab.hdr", c>> \in DOMAIN dir /\ <<i, "cab", c>> \in DOMAIN dir
              /\ dir[<<i, "cab.hdr", c>>].item = Item(part.cabs[c].meta, part.format, 0)
              /\ dir[<<i, "cab", c>>].item
                   = Item(part.cabs[c].data, part.format, part.cabs[c].size)
         /\ part.format # "encr" =>
              \A b \in 1 .. Len(part.keys) :
                /\ <<i, "key", b>> \in DOMAIN dir
                /\ dir[<<i, "key", b>>].item = Item(part.keys[b], part.format, 0)
<1> DEFINE m == Len(part.cabs)
           k == Len(KeyFiles(i, part))
           files == FilesOf(i, part)
           Held1(file) == file[1] \in DOMAIN dir /\ dir[file[1]].item = file[2]
<1>1. /\ m \in Nat /\ k \in Nat /\ Len(files) = 1 + m + k + m
      /\ files[1] = HdrFile(i, part)
      /\ \A c \in 1 .. m : /\ files[1 + c] = CabHdrFiles(i, part)[c]
                           /\ files[1 + m + k + c] = CabFiles(i, part)[c]
      /\ \A b \in 1 .. k : files[1 + m + b] = KeyFiles(i, part)[b]
  <2>1. Placed(i, part, m, k, files)
    BY FilesAt
  <2> HIDE DEF m, k, files
  <2> QED BY <2>1, Zenon DEF Placed
<1>2. \A f \in 1 .. Len(files) : Held1(files[f])
  BY DEF AllThere, There
<1>3. DOMAIN part.cabs = 1 .. m /\ part.keys \in Seq(Held)
  BY DEF Parts, Cabs
<1>4. Held1(HdrFile(i, part))
  <2> HIDE DEF m, k, files, Held1
  <2> QED BY <1>1, <1>2
<1>5. \A c \in 1 .. m : Held1(CabHdrFiles(i, part)[c]) /\ Held1(CabFiles(i, part)[c])
  <2>1. \A c \in 1 .. m : 1 + c \in 1 .. Len(files) /\ 1 + m + k + c \in 1 .. Len(files)
    <3> HIDE DEF m, k, files
    <3> QED BY <1>1
  <2> HIDE DEF m, k, files, Held1
  <2> QED BY <1>1, <1>2, <2>1
<1>6. \A b \in 1 .. k : Held1(KeyFiles(i, part)[b])
  <2>1. \A b \in 1 .. k : 1 + m + b \in 1 .. Len(files)
    <3> HIDE DEF m, k, files
    <3> QED BY <1>1
  <2> HIDE DEF m, k, files, Held1
  <2> QED BY <1>1, <1>2, <2>1
<1>7. /\ <<i, "hdr", 0>> \in DOMAIN dir
      /\ dir[<<i, "hdr", 0>>].item = Item(part.hdr, part.format, m)
  BY <1>4 DEF HdrFile
<1>8. ASSUME NEW c \in 1 .. m
      PROVE  /\ <<i, "cab.hdr", c>> \in DOMAIN dir /\ <<i, "cab", c>> \in DOMAIN dir
             /\ dir[<<i, "cab.hdr", c>>].item = Item(part.cabs[c].meta, part.format, 0)
             /\ dir[<<i, "cab", c>>].item
                  = Item(part.cabs[c].data, part.format, part.cabs[c].size)
  <2>1. /\ CabHdrFiles(i, part)[c]
             = <<<<i, "cab.hdr", c>>, Item(part.cabs[c].meta, part.format, 0)>>
        /\ CabFiles(i, part)[c]
             = <<<<i, "cab", c>>, Item(part.cabs[c].data, part.format, part.cabs[c].size)>>
    <3> HIDE DEF m
    <3> QED BY <1>3 DEF CabHdrFiles, CabFiles
  <2>2. Held1(CabHdrFiles(i, part)[c]) /\ Held1(CabFiles(i, part)[c])
    <3> HIDE DEF m, Held1
    <3> QED BY <1>5
  <2> QED BY <2>1, <2>2
<1>9. ASSUME part.format # "encr", NEW b \in 1 .. Len(part.keys)
      PROVE  /\ <<i, "key", b>> \in DOMAIN dir
             /\ dir[<<i, "key", b>>].item = Item(part.keys[b], part.format, 0)
  <2>1. KeyFiles(i, part)
          = [d \in DOMAIN part.keys |-> <<<<i, "key", d>>, Item(part.keys[d], part.format, 0)>>]
    BY <1>9 DEF KeyFiles
  <2>2. DOMAIN part.keys = 1 .. Len(part.keys)
    BY <1>3
  <2>3. k = Len(part.keys)
    <3>1. KeyFiles(i, part) \in Seq(Paths(i) \X FileItems)
      BY KeyFilesSeq
    <3>2. DOMAIN KeyFiles(i, part) = 1 .. k
      BY <3>1
    <3>3. DOMAIN KeyFiles(i, part) = 1 .. Len(part.keys) /\ Len(part.keys) \in Nat
      BY <1>3, <2>1, <2>2
    <3> HIDE DEF k
    <3>4. k \in Nat
      BY <1>1
    <3> QED BY <3>2, <3>3, <3>4
  <2>4. KeyFiles(i, part)[b] = <<<<i, "key", b>>, Item(part.keys[b], part.format, 0)>>
    BY <2>1, <2>2
  <2>5. Held1(KeyFiles(i, part)[b])
    <3> HIDE DEF Held1, k
    <3> QED BY <1>6, <2>3
  <2> QED BY <2>4, <2>5
<1> QED BY <1>7, <1>8, <1>9

-----------------------------------------------------------------------------
(* What a pack reads.                                                      *)

\* The first n cabs have no more blocks than all of them.
LEMMA FewerBlocks ==
  ASSUME NEW cabs \in Cabs, NEW n \in 0 .. Len(cabs)
  PROVE  BlockCount(SubSeq(cabs, 1, n)) <= BlockCount(cabs)
<1> DEFINE sizes == [c \in DOMAIN cabs |-> cabs[c].size]
           some == SubSeq(cabs, 1, n)
           somes == [c \in DOMAIN some |-> some[c].size]
<1>1. Len(cabs) \in Nat /\ DOMAIN cabs = 1 .. Len(cabs) /\ n \in Nat /\ n <= Len(cabs)
  BY DEF Cabs
<1>2. sizes \in Seq(Nat) /\ Len(sizes) = Len(cabs)
  <2>1. \A c \in 1 .. Len(cabs) : cabs[c].size \in Nat
    BY CabTypes
  <2> QED BY <1>1, <2>1
<1>3. /\ DOMAIN some = 1 .. n /\ Len(some) = n /\ some \in Cabs
      /\ \A c \in 1 .. n : some[c] = cabs[c] /\ c \in 1 .. Len(cabs)
  <2> DEFINE Cab == [meta : Held, data : Held, size : Nat]
  <2>1. cabs \in Seq(Cab)
    BY DEF Cabs
  <2> HIDE DEF Cab
  <2>2. DOMAIN some = 1 .. n /\ Len(some) = n /\ some \in Seq(Cab)
        /\ \A c \in 1 .. n : some[c] = cabs[c] /\ c \in 1 .. Len(cabs)
    BY <1>1, <2>1
  <2> QED BY <2>2 DEF Cab, Cabs
<1>4. /\ somes \in Seq(Nat) /\ Len(somes) = n
      /\ \A c \in 1 .. n : somes[c] = sizes[c]
  <2> HIDE DEF some
  <2>1. \A c \in 1 .. n : some[c].size = cabs[c].size /\ cabs[c].size \in Nat
    BY <1>3, CabTypes
  <2>2. somes = [c \in 1 .. n |-> cabs[c].size]
    BY <1>3, <2>1
  <2> QED BY <1>1, <1>3, <2>1, <2>2
<1> HIDE DEF sizes, somes
<1>5. /\ Before(sizes, 1) = 0 /\ Before(somes, 1) = 0
      /\ \A c \in 1 .. n : /\ Before(sizes, c + 1) = Before(sizes, c) + sizes[c]
                           /\ Before(somes, c + 1) = Before(somes, c) + somes[c]
      /\ Before(sizes, n + 1) <= Sum(sizes) /\ Before(somes, n + 1) = Sum(somes)
      /\ Sum(sizes) \in Nat /\ Sum(somes) \in Nat
  <2>1. /\ Before(sizes, 1) = 0 /\ Before(somes, 1) = 0
        /\ Before(sizes, Len(sizes) + 1) = Sum(sizes) /\ Before(somes, n + 1) = Sum(somes)
    BY <1>2, <1>4, BeforeFacts
  <2>2. \A c \in 1 .. n : c \in 1 .. Len(sizes) /\ c \in 1 .. Len(somes)
    BY <1>2, <1>3, <1>4
  <2>3. \A c \in 1 .. Len(sizes) : Before(sizes, c + 1) = Before(sizes, c) + sizes[c]
    BY <1>2, BeforeFacts
  <2>4. \A c \in 1 .. Len(somes) : Before(somes, c + 1) = Before(somes, c) + somes[c]
    BY <1>4, BeforeFacts
  <2>5. n + 1 \in 1 .. Len(sizes) + 1 /\ Len(sizes) + 1 \in 1 .. Len(sizes) + 1
        /\ n + 1 <= Len(sizes) + 1
    BY <1>1, <1>2
  <2>6. Before(sizes, n + 1) <= Before(sizes, Len(sizes) + 1)
    BY <1>2, <2>5, BeforeFacts
  <2>7. Before(sizes, Len(sizes) + 1) \in Nat /\ Before(somes, n + 1) \in Nat
    <3>1. n + 1 \in 1 .. Len(somes) + 1
      BY <1>1, <1>4
    <3> QED BY <1>2, <1>4, <2>5, <3>1, BeforeFacts
  <2> QED BY <2>1, <2>2, <2>3, <2>4, <2>6, <2>7
<1>6. Before(somes, n + 1) = Before(sizes, n + 1)
  <2> DEFINE G == {d \in 0 .. n : Before(somes, d + 1) = Before(sizes, d + 1)}
  <2>1. 0 \in G
    BY <1>1, <1>5
  <2>2. ASSUME NEW d \in 0 .. n - 1, d \in G PROVE d + 1 \in G
    <3>1. d + 1 \in 1 .. n /\ d + 1 \in 0 .. n
      BY <1>1
    <3> QED BY <1>4, <1>5, <2>2, <3>1
  <2>3. 0 .. n \subseteq G
    <3> HIDE DEF G
    <3> QED BY <1>1, <2>1, <2>2, UpTo
  <2>4. n \in 0 .. n
    BY <1>1
  <2> QED BY <2>3, <2>4
<1>7. Sum(somes) <= Sum(sizes)
  BY <1>5, <1>6
<1>8. ASSUME NEW a \in Nat, NEW b \in Nat, a <= b
      PROVE  (a + BlockSize - 1) \div BlockSize <= (b + BlockSize - 1) \div BlockSize
  BY <1>8
<1>9. BlockCount(cabs) = (Sum(sizes) + BlockSize - 1) \div BlockSize
      /\ BlockCount(some) = (Sum(somes) + BlockSize - 1) \div BlockSize
  BY DEF BlockCount, sizes, somes
<1> HIDE DEF some
<1>10. BlockCount(some) <= BlockCount(cabs)
  BY <1>5, <1>7, <1>8, <1>9
<1> QED BY <1>10 DEF some

\* A part that is there is packed as it was, but for the cabs beyond the limit.
LEMMA Repacked ==
  ASSUME NEW i, NEW part \in Parts, AllThere(i, part), NEW n \in CabCounts(part.format, i)
  PROVE  Part(part.format, i, n) = Kept(part)
<1>1. /\ part \in [format : Formats \cup {"none"}, hdr : Held, cabs : Cabs, keys : Seq(Held)]
      /\ HasKeys(part.format) => Len(part.keys) >= BlockCount(part.cabs)
  BY DEF Parts
<1> DEFINE hdr == part.hdr
           all == part.cabs
           format == part.format
           names == part.keys
<1>2. /\ <<i, "hdr", 0>> \in DOMAIN dir
      /\ dir[<<i, "hdr", 0>>].item = Item(hdr, format, Len(all))
      /\ \A c \in 1 .. Len(all) :
           /\ <<i, "cab.hdr", c>> \in DOMAIN dir /\ <<i, "cab", c>> \in DOMAIN dir
           /\ dir[<<i, "cab.hdr", c>>].item = Item(all[c].meta, format, 0)
           /\ dir[<<i, "cab", c>>].item = Item(all[c].data, format, all[c].size)
      /\ format # "encr" =>
           \A b \in 1 .. Len(names) :
             /\ <<i, "key", b>> \in DOMAIN dir
             /\ dir[<<i, "key", b>>].item = Item(names[b], format, 0)
  BY FilesHold
<1>3. /\ all \in Cabs /\ names \in Seq(Held) /\ Len(all) \in Nat /\ DOMAIN all = 1 .. Len(all)
      /\ part = [format |-> format, hdr |-> hdr, cabs |-> all, keys |-> names]
  BY <1>1 DEF Cabs
<1> HIDE DEF hdr, all, format, names
<1>4. n = Clamped(Len(all)) /\ n \in 0 .. Len(all)
  <2>1. CabCounts(format, i) = {Clamped(Len(all))}
    BY <1>2 DEF CabCounts, Item
  <2> QED BY <1>3, <2>1 DEF Clamped, format
<1>5. Read(<<i, "hdr", 0>>, format) = hdr
  BY <1>2 DEF Read, Item
<1> DEFINE some == [c \in 1 .. n |-> CabAt(format, i, c)]
<1>6. some = SubSeq(all, 1, n)
  <2>1. ASSUME NEW c \in 1 .. n PROVE CabAt(format, i, c) = all[c] /\ c \in 1 .. Len(all)
    <3>1. c \in 1 .. Len(all)
      BY <1>3, <1>4
    <3>2. /\ <<i, "cab.hdr", c>> \in DOMAIN dir
          /\ dir[<<i, "cab.hdr", c>>].item = Item(all[c].meta, format, 0)
          /\ dir[<<i, "cab", c>>].item = Item(all[c].data, format, all[c].size)
      BY <1>2, <3>1, Zenon
    <3>3. Read(<<i, "cab.hdr", c>>, format) = all[c].meta
      BY <3>2 DEF Read, Item
    <3>4. dir[<<i, "cab", c>>].item.tag = all[c].data /\ dir[<<i, "cab", c>>].item.n = all[c].size
      BY <3>2 DEF Item
    <3>5. all[c] \in [meta : Held, data : Held, size : Nat]
      BY <1>3, <3>1, CabTypes
    <3>6. all[c] = [meta |-> all[c].meta, data |-> all[c].data, size |-> all[c].size]
      BY <3>5
    <3> QED BY <3>1, <3>3, <3>4, <3>6 DEF CabAt
  <2>2. SubSeq(all, 1, n) = [c \in 1 .. n |-> all[c]]
    <3> DEFINE Cab == [meta : Held, data : Held, size : Nat]
    <3>1. all \in Seq(Cab)
      BY <1>3 DEF Cabs
    <3> HIDE DEF Cab
    <3> QED BY <1>3, <1>4, <3>1
  <2> QED BY <2>1, <2>2
<1> DEFINE blocks == BlockCount(some)
<1>7. HasKeys(format) => [b \in 1 .. blocks |-> Read(<<i, "key", b>>, format)] = SubSeq(names, 1, blocks)
  <2> SUFFICES ASSUME HasKeys(format)
               PROVE  [b \in 1 .. blocks |-> Read(<<i, "key", b>>, format)] = SubSeq(names, 1, blocks)
    OBVIOUS
  <2>1. format # "encr"
    BY DEF HasKeys
  <2>2. blocks <= BlockCount(all)
    BY <1>3, <1>4, <1>6, FewerBlocks
  <2>3. BlockCount(all) <= Len(names) /\ Len(names) \in Nat
    <3>1. HasKeys(part.format)
      BY DEF format
    <3>2. Len(part.keys) >= BlockCount(part.cabs) /\ BlockCount(part.cabs) \in Nat
      BY <1>1, <3>1, BlockCountNat
    <3> QED BY <1>3, <3>2 DEF names, all
  <2>4. blocks \in Nat /\ BlockCount(all) \in Nat
    <3>1. some \in Cabs
      <4> DEFINE Cab == [meta : Held, data : Held, size : Nat]
      <4>1. all \in Seq(Cab)
        BY <1>3 DEF Cabs
      <4> HIDE DEF Cab, some
      <4>2. some \in Seq(Cab)
        BY <1>3, <1>4, <1>6, <4>1
      <4> QED BY <4>2 DEF Cab, Cabs
    <3> HIDE DEF some
    <3> QED BY <1>3, <3>1, BlockCountNat
  <2> HIDE DEF blocks
  <2>5. \A b \in 1 .. blocks : b \in 1 .. Len(names)
    BY <2>2, <2>3, <2>4
  <2>6. \A b \in 1 .. blocks : Read(<<i, "key", b>>, format) = names[b]
    <3>1. ASSUME NEW b \in 1 .. blocks PROVE Read(<<i, "key", b>>, format) = names[b]
      <4>1. b \in 1 .. Len(names)
        BY <2>5
      <4>2. /\ <<i, "key", b>> \in DOMAIN dir
            /\ dir[<<i, "key", b>>].item = Item(names[b], format, 0)
        BY <1>2, <2>1, <4>1, Zenon
      <4> QED BY <4>2 DEF Read, Item
    <3> QED BY <3>1
  <2>7. SubSeq(names, 1, blocks) = [b \in 1 .. blocks |-> names[b]]
    BY <1>3, <2>2, <2>3, <2>4
  <2> QED BY <2>6, <2>7
<1>8. Part(format, i, n) =
        [format |-> format, hdr |-> hdr, cabs |-> some,
         keys |-> IF HasKeys(format)
                  THEN [b \in 1 .. blocks |-> Read(<<i, "key", b>>, format)] ELSE <<>>]
  BY <1>5 DEF Part
<1>9. Kept(part) =
        [format |-> format, hdr |-> hdr, cabs |-> SubSeq(all, 1, n),
         keys |-> IF HasKeys(format)
                  THEN SubSeq(names, 1, BlockCount(SubSeq(all, 1, n))) ELSE <<>>]
  <2>1. /\ part.cabs = all /\ part.keys = names /\ part.format = format /\ part.hdr = hdr
    BY DEF all, names, format, hdr
  <2>2. Kept(part) = [part EXCEPT !.cabs = SubSeq(all, 1, n),
                                  !.keys = IF HasKeys(format)
                                           THEN SubSeq(@, 1, BlockCount(SubSeq(all, 1, n)))
                                           ELSE <<>>]
    BY <1>4, <2>1, Zenon DEF Kept
  <2> QED BY <1>3, <2>1, <2>2
<1>10. part.format = format
  BY DEF format
<1> HIDE DEF some
<1> QED BY <1>6, <1>7, <1>8, <1>9, <1>10 DEF blocks

-----------------------------------------------------------------------------
(* The steps.                                                              *)

\* A step that leaves out and ages alone, and packs nothing, after an unpack
\* that is not known to be whole.
LEMMA NothingPacked ==
  ASSUME WorkspaceInv, whole' = <<>>, UNCHANGED ages, run'.mode # "pack"
  PROVE  WholeInv' /\ PackInv' /\ DescribedByItsOwn'
<1>1. DOMAIN whole' = {}
  OBVIOUS
<1>2. WholeInv'
  BY <1>1 DEF WholeInv
<1>3. PackInv'
  BY <1>1 DEF PackInv, OnlyLastUnpacked, Packing
<1>4. DescribedByItsOwn'
  BY DEF WorkspaceInv, DescribedByItsOwn
<1> QED BY <1>2, <1>3, <1>4

\* Nothing of what is there is lost where no file is written.
LEMMA SameDir ==
  ASSUME UNCHANGED dir
  PROVE  \A i, part : AllThere(i, part)' <=> AllThere(i, part)
  BY DEF AllThere, There

\* A command that ends leaves the directory, and its output as it is or torn.
LEMMA EndsInv ==
  ASSUME WorkspaceInv, run' = Idle, UNCHANGED <<dir, runs, whole, ages>>,
         out' \in {out, Append(out, Torn)}
  PROVE  WorkspaceInv'
<1>1. TypesInv'
  <2>1. out' \in Seq(Parts) /\ \A i \in DOMAIN out' : Len(out'[i].cabs) <= MaxCabs
    <3>1. Torn \in Parts /\ Len(Torn.cabs) = 0 /\ 0 <= MaxCabs
      <4>1. /\ Garbage \in Held /\ <<>> \in Cabs /\ <<>> \in Seq(Held)
            /\ "none" \in Formats \cup {"none"}
        BY DEF Held, Cabs
      <4>2. ~HasKeys("none")
        BY DEF HasKeys
      <4> QED BY <4>1, <4>2 DEF Torn, Parts
    <3>2. out \in Seq(Parts) /\ \A i \in DOMAIN out : Len(out[i].cabs) <= MaxCabs
      BY DEF WorkspaceInv, TypesInv
    <3>3. CASE out' = out
      BY <3>2, <3>3
    <3>4. CASE out' = Append(out, Torn)
      <4> HIDE DEF Torn
      <4>1. out' \in Seq(Parts) /\ Len(out') = Len(out) + 1 /\ Len(out) \in Nat
        BY <3>1, <3>2, <3>4
      <4>2. \A i \in DOMAIN out' : (i \in DOMAIN out /\ out'[i] = out[i]) \/ out'[i] = Torn
        BY <3>1, <3>2, <3>4, <4>1
      <4> QED BY <3>1, <3>2, <4>1, <4>2
    <3> QED BY <3>3, <3>4
  <2>2. run' \in Commands
    BY DEF Commands
  <2> QED BY <2>1, <2>2 DEF WorkspaceInv, TypesInv
<1>2. run'.mode = "idle"
  BY DEF Idle
<1>3. CabsInv' /\ UnpackInv' /\ DescribedByItsOwn'
  BY <1>2 DEF WorkspaceInv, CabsInv, UnpackInv, Unpacking, DescribedByItsOwn
<1>4. WholeInv'
  BY SameDir DEF WorkspaceInv, WholeInv
<1>5. PackInv'
  BY <1>2 DEF PackInv, OnlyLastUnpacked, Packing
<1> QED BY <1>1, <1>3, <1>4, <1>5 DEF WorkspaceInv

\* A command starts with what the others left.
LEMMA StartInv == WorkspaceInv /\ (StartUnpack \/ StartPack) => WorkspaceInv'
<1> SUFFICES ASSUME WorkspaceInv, StartUnpack \/ StartPack PROVE WorkspaceInv'
  OBVIOUS
<1>1. /\ runs' = runs + 1 /\ runs \in 0 .. MaxRuns /\ runs' \in 1 .. MaxRuns /\ dir' = dir
      /\ \A p \in DOMAIN dir : dir[p] \in [item : FileItems, run : 1 .. runs]
      /\ out \in Seq(Parts) /\ \A i \in DOMAIN out : Len(out[i].cabs) <= MaxCabs
      /\ whole \in Seq(Seq(Parts))
  BY DEF StartUnpack, StartPack, Idling, WorkspaceInv, TypesInv
<1>2. \A p \in DOMAIN dir' : dir'[p] \in [item : FileItems, run : 1 .. runs']
  BY <1>1
<1>3. CabsInv'
  BY <1>1 DEF WorkspaceInv, CabsInv
<1>4. CASE StartUnpack
  <2>1. PICK format \in Formats, src \in Sources \cup {out} :
          run' = [mode |-> "unpack", format |-> format, src |-> src, part |-> 1, file |-> 1]
    BY <1>4 DEF StartUnpack
  <2>2. src \in Seq(Parts)
    BY <1>1
  <2>3. whole' = <<>> /\ out' = out /\ ages' = ages
    BY <1>4 DEF StartUnpack
  <2>4. TypesInv'
    <3>1. run' \in Commands
      BY <2>1, <2>2 DEF Commands
    <3>2. whole' \in Seq(Seq(Parts))
      BY <2>3
    <3> QED BY <1>1, <1>2, <2>3, <3>1, <3>2 DEF TypesInv
  <2>5. UnpackInv'
    <3>1. \A n \in Nat \ {0} : ~(n < 1)
      OBVIOUS
    <3>2. run'.src = src /\ run'.part = 1 /\ run'.file = 1
      BY <2>1
    <3>3. \A j \in DOMAIN src : ~(j < 1)
      BY <2>2
    <3>4. Len(FilesOf(1, src[1])) \in Nat \/ ~(1 <= Len(src))
      <4>1. 1 <= Len(src) => src[1] \in Parts
        BY <2>2
      <4>2. src[1] \in Parts => Placed(1, src[1], Len(src[1].cabs), Len(KeyFiles(1, src[1])), FilesOf(1, src[1]))
        BY FilesAt
      <4> QED BY <4>1, <4>2 DEF Placed
    <3>5. 1 .. 1 - 1 = {}
      OBVIOUS
    <3>6. 1 <= Len(src) => 1 \in 1 .. Len(FilesOf(1, src[1])) + 1
      BY <3>4
    <3> QED BY <2>3, <3>2, <3>3, <3>5, <3>6
            DEF UnpackInv, MoreParts, PartFiles, There
  <2>6. run'.mode = "unpack"
    BY <2>1
  <2> QED BY <1>3, <2>3, <2>4, <2>5, <2>6, NothingPacked DEF WorkspaceInv
<1>5. CASE StartPack
  <2>1. PICK format \in Formats, count \in Counts :
          run' = [mode |-> "pack", format |-> format, count |-> count, part |-> 1]
    BY <1>5 DEF StartPack
  <2>2. whole' = whole /\ out' = <<>> /\ ages' = {}
    BY <1>5 DEF StartPack
  <2>3. TypesInv'
    <3>1. run' \in Commands
      BY <2>1 DEF Commands
    <3>2. out' \in Seq(Parts) /\ DOMAIN out' = {}
      BY <2>2
    <3> QED BY <1>1, <1>2, <2>2, <3>1, <3>2 DEF TypesInv
  <2>4. run'.mode = "pack" /\ run'.part = 1 /\ Len(out') = 0 /\ DOMAIN out' = {}
    BY <2>1, <2>2
  <2>5. UnpackInv' /\ DescribedByItsOwn'
    BY <2>2, <2>4 DEF UnpackInv, Unpacking, DescribedByItsOwn
  <2>6. WholeInv'
    BY <1>1, <2>2, SameDir DEF WorkspaceInv, WholeInv
  <2>7. PackInv'
    BY <2>4 DEF PackInv, OnlyLastUnpacked
  <2> QED BY <1>3, <2>3, <2>5, <2>6, <2>7 DEF WorkspaceInv
<1> QED BY <1>4, <1>5

\* The state of an unpack that is at a file.
LEMMA AtFile ==
  ASSUME WorkspaceInv, Unpacking, MoreParts
  PROVE  \E format \in Formats, src \in Seq(Parts), at \in Nat, file \in Nat \ {0} :
           /\ run = [mode |-> "unpack", format |-> format, src |-> src, part |-> at,
                     file |-> file]
           /\ at \in 1 .. Len(src) /\ src[at] \in Parts /\ Len(FilesOf(at, src[at])) \in Nat
<1>1. run \in [mode : {"unpack"}, format : Formats, src : Seq(Parts), part : Nat \ {0},
               file : Nat \ {0}]
  BY DEF WorkspaceInv, TypesInv, Commands, Unpacking, Idle
<1>2. run.part \in 1 .. Len(run.src) /\ run.src \in Seq(Parts)
  BY <1>1 DEF MoreParts
<1>3. run.src[run.part] \in Parts
  BY <1>2
<1>4. Len(PartFiles) \in Nat
  BY <1>3, FilesLen DEF PartFiles
<1>5. run = [mode |-> "unpack", format |-> run.format, src |-> run.src, part |-> run.part,
             file |-> run.file]
  BY <1>1
<1> QED BY <1>1, <1>2, <1>3, <1>4, <1>5 DEF PartFiles

\* Creating the file that an unpack is at, whatever gets into it.
LEMMA PutInv ==
  ASSUME WorkspaceInv, Unpacking, MoreParts, GoodMagic, run.file <= Len(PartFiles),
         NEW item \in FileItems, Put(PartFiles[run.file][1], item), runs' = runs
  PROVE  /\ \A p \in DOMAIN dir' : dir'[p] \in [item : FileItems, run : 1 .. runs']
         /\ CabsInv'
<1>1. PICK format \in Formats, src \in Seq(Parts), at \in Nat, file \in Nat \ {0} :
        /\ run = [mode |-> "unpack", format |-> format, src |-> src, part |-> at,
                  file |-> file]
        /\ at \in 1 .. Len(src) /\ src[at] \in Parts /\ Len(FilesOf(at, src[at])) \in Nat
  BY AtFile
<1> DEFINE files == FilesOf(at, src[at])
           path == files[file][1]
<1>2. run.file = file /\ run.part = at /\ run.src = src /\ PartFiles = files
  BY <1>1 DEF PartFiles
<1>3. file \in 1 .. Len(files)
  BY <1>1, <1>2
<1>4. /\ DOMAIN dir' = DOMAIN dir \cup {path}
      /\ \A p \in DOMAIN dir' : dir'[p] = IF p = path THEN [item |-> item, run |-> runs] ELSE dir[p]
  <2>1. dir' = [p \in DOMAIN dir \cup {path} |->
                  IF p = path THEN [item |-> item, run |-> runs] ELSE dir[p]]
    BY <1>2 DEF Put
  <2> HIDE DEF path
  <2> QED BY <2>1
<1>5. /\ \A p \in DOMAIN dir : dir[p] \in [item : FileItems, run : 1 .. runs]
      /\ runs \in 1 .. runs /\ runs \in Nat
  BY <1>1 DEF WorkspaceInv, TypesInv, Idle
<1>6. \A f \in 1 .. file - 1 : files[f][1] \in DOMAIN dir /\ dir[files[f][1]].run = runs
  BY <1>2 DEF WorkspaceInv, UnpackInv, There
<1>7. \A f \in 1 .. file - 1 : files[f][1] # path
  <2>1. \A f \in 1 .. file - 1 : f \in 1 .. Len(files) /\ f # file
    BY <1>1, <1>3
  <2> QED BY <1>1, <1>3, <2>1, PathsDiffer
<1>8. path \in Paths(at)
  BY <1>1, <1>3, FileTyped
<1>9. path[2] = "cab" =>
        \A p \in {<<path[1], "hdr", 0>>, <<path[1], "cab.hdr", path[3]>>} :
          \E g \in 1 .. file - 1 : files[g][1] = p
  <2>1. path[1] = at
    BY <1>8 DEF Paths
  <2>2. path[2] = "cab" => MetadataBefore(at, files, file)
    BY <1>1, <1>3, DescribedBefore
  <2>3. MetadataBefore(at, files, file) =>
          \A p \in {<<at, "hdr", 0>>, <<at, "cab.hdr", path[3]>>} :
            \E g \in 1 .. file - 1 : files[g][1] = p
    BY Zenon DEF MetadataBefore
  <2> HIDE DEF path, files
  <2> QED BY <2>1, <2>2, <2>3
<1> HIDE DEF files, path
<1>10. \A p \in DOMAIN dir' : dir'[p] \in [item : FileItems, run : 1 .. runs']
  <2>1. [item |-> item, run |-> runs] \in [item : FileItems, run : 1 .. runs]
    BY <1>5
  <2> QED BY <1>4, <1>5, <2>1
<1>11. CabsInv'
  <2> SUFFICES ASSUME NEW q \in DOMAIN dir', q[2] = "cab",
                      NEW p \in {<<q[1], "hdr", 0>>, <<q[1], "cab.hdr", q[3]>>}
               PROVE  p \in DOMAIN dir' /\ dir'[p].run >= dir'[q].run
    BY DEF CabsInv
  <2>1. CASE q = path
    <3>1. p \in DOMAIN dir /\ dir[p].run = runs /\ p # path
      BY <1>6, <1>7, <1>9, <2>1
    <3>2. dir'[p].run = runs /\ dir'[q].run = runs
      BY <1>4, <2>1, <3>1
    <3> QED BY <1>4, <1>5, <3>1, <3>2
  <2>2. CASE q # path
    <3>1. q \in DOMAIN dir /\ dir'[q] = dir[q]
      BY <1>4, <2>2
    <3>2. p \in DOMAIN dir /\ dir[p].run >= dir[q].run
      BY <3>1 DEF WorkspaceInv, CabsInv
    <3>3. dir[q].run <= runs
      BY <1>5, <3>1
    <3>4. dir'[p].run = runs \/ dir'[p].run = dir[p].run
      BY <1>4, <3>2
    <3> QED BY <1>4, <3>1, <3>2, <3>3, <3>4
  <2> QED BY <2>1, <2>2
<1> QED BY <1>10, <1>11

\* A file is written.
LEMMA WriteFileInv == WorkspaceInv /\ WriteFile => WorkspaceInv'
<1> SUFFICES ASSUME WorkspaceInv, WriteFile PROVE WorkspaceInv'
  OBVIOUS
<1>1. PICK format \in Formats, src \in Seq(Parts), at \in Nat, file \in Nat \ {0} :
        /\ run = [mode |-> "unpack", format |-> format, src |-> src, part |-> at,
                  file |-> file]
        /\ at \in 1 .. Len(src) /\ src[at] \in Parts /\ Len(FilesOf(at, src[at])) \in Nat
  BY AtFile DEF WriteFile
<1> DEFINE files == FilesOf(at, src[at])
           path == files[file][1]
<1>2. run.file = file /\ run.part = at /\ run.src = src /\ PartFiles = files
  BY <1>1 DEF PartFiles
<1>3. /\ file \in 1 .. Len(files) /\ Len(files) \in Nat
      /\ run' = [mode |-> "unpack", format |-> format, src |-> src, part |-> at,
                 file |-> file + 1]
  BY <1>1, <1>2 DEF WriteFile
<1>4. PICK item \in FileItems : item = files[file][2]
  BY <1>1, <1>3, FileTyped
<1>5. Put(path, item) /\ Put(PartFiles[run.file][1], item) /\ UNCHANGED <<out, runs, whole, ages>>
  BY <1>2, <1>4 DEF WriteFile
<1>6. /\ \A p \in DOMAIN dir' : dir'[p] \in [item : FileItems, run : 1 .. runs']
      /\ CabsInv'
  BY <1>5, PutInv DEF WriteFile
<1>7. /\ DOMAIN dir' = DOMAIN dir \cup {path}
      /\ \A p \in DOMAIN dir' : dir'[p] = IF p = path THEN [item |-> item, run |-> runs] ELSE dir[p]
  <2>1. dir' = [p \in DOMAIN dir \cup {path} |->
                  IF p = path THEN [item |-> item, run |-> runs] ELSE dir[p]]
    BY <1>5 DEF Put
  <2> HIDE DEF path
  <2> QED BY <2>1
<1>8. TypesInv'
  <2>1. run' \in Commands
    BY <1>1, <1>3 DEF Commands
  <2>2. runs' >= 1
    BY <1>1, <1>5 DEF WorkspaceInv, TypesInv, Idle
  <2> QED BY <1>5, <1>6, <2>1, <2>2 DEF WorkspaceInv, TypesInv
<1>9. /\ whole = <<>>
      /\ \A j \in DOMAIN src : j < at =>
           \A f \in 1 .. Len(FilesOf(j, src[j])) :
             /\ FilesOf(j, src[j])[f][1] \in DOMAIN dir
             /\ dir[FilesOf(j, src[j])[f][1]].item = FilesOf(j, src[j])[f][2]
      /\ \A f \in 1 .. file - 1 :
           /\ files[f][1] \in DOMAIN dir /\ dir[files[f][1]].item = files[f][2]
           /\ dir[files[f][1]].run = runs
  BY <1>2 DEF WorkspaceInv, UnpackInv, WriteFile, AllThere, There
<1>10. ASSUME NEW j \in DOMAIN src, j < at
       PROVE  \A f \in 1 .. Len(FilesOf(j, src[j])) :
                /\ FilesOf(j, src[j])[f][1] \in DOMAIN dir'
                /\ dir'[FilesOf(j, src[j])[f][1]].item = FilesOf(j, src[j])[f][2]
  <2> SUFFICES ASSUME NEW f \in 1 .. Len(FilesOf(j, src[j]))
               PROVE  /\ FilesOf(j, src[j])[f][1] \in DOMAIN dir'
                      /\ dir'[FilesOf(j, src[j])[f][1]].item = FilesOf(j, src[j])[f][2]
    OBVIOUS
  <2>1. src[j] \in Parts /\ j # at
    BY <1>10
  <2>2. FilesOf(j, src[j])[f][1] \in Paths(j) /\ path \in Paths(at)
    BY <1>1, <1>3, <2>1, FileTyped
  <2>3. FilesOf(j, src[j])[f][1] # path
    <3> HIDE DEF path
    <3> QED BY <2>1, <2>2 DEF Paths
  <2>4. /\ FilesOf(j, src[j])[f][1] \in DOMAIN dir
        /\ dir[FilesOf(j, src[j])[f][1]].item = FilesOf(j, src[j])[f][2]
    BY <1>9, <1>10
  <2> HIDE DEF path
  <2> QED BY <1>7, <2>3, <2>4
<1>11. \A f \in 1 .. file :
         /\ files[f][1] \in DOMAIN dir' /\ dir'[files[f][1]].item = files[f][2]
         /\ dir'[files[f][1]].run = runs
  <2>1. \A f \in 1 .. file : f = file \/ (f \in 1 .. file - 1 /\ f \in 1 .. Len(files) /\ f # file)
    BY <1>3
  <2>2. \A f \in 1 .. file - 1 : f \in 1 .. Len(files) /\ f # file => files[f][1] # path
    BY <1>1, <1>3, PathsDiffer
  <2>3. path \in DOMAIN dir' /\ dir'[path].item = files[file][2] /\ dir'[path].run = runs
    <3> HIDE DEF path, files
    <3> QED BY <1>4, <1>7
  <2>4. path = files[file][1]
    OBVIOUS
  <2> HIDE DEF path, files
  <2> QED BY <1>7, <1>9, <2>1, <2>2, <2>3, <2>4
<1>12. UnpackInv'
  <2>1. /\ run'.src = src /\ run'.part = at /\ run'.file = file + 1 /\ run'.format = format
        /\ (file + 1) - 1 = file /\ file + 1 \in 1 .. Len(files) + 1
    BY <1>3
  <2>2. (\A j \in DOMAIN run.src : j < run.part => AllThere(j, run.src[j]))'
    BY <1>10, <2>1 DEF AllThere, There
  <2>3. There(run.part, run.src[run.part], run.file - 1)'
    BY <1>11, <2>1 DEF There
  <2>4. \A f \in 1 .. file : dir'[files[f][1]].run = runs'
    BY <1>5, <1>11
  <2>5. PartFiles' = files
    BY <2>1 DEF PartFiles
  <2> QED BY <1>5, <1>9, <2>1, <2>2, <2>3, <2>4, <2>5 DEF UnpackInv
<1>13. run'.mode = "unpack" /\ whole' = <<>> /\ ages' = ages
  BY <1>3, <1>5, <1>9
<1> QED BY <1>6, <1>8, <1>12, <1>13, NothingPacked DEF WorkspaceInv

\* A part is done, and the next one is begun.
LEMMA NextPartInv == WorkspaceInv /\ NextPart => WorkspaceInv'
<1> SUFFICES ASSUME WorkspaceInv, NextPart PROVE WorkspaceInv'
  OBVIOUS
<1>1. PICK format \in Formats, src \in Seq(Parts), at \in Nat, file \in Nat \ {0} :
        /\ run = [mode |-> "unpack", format |-> format, src |-> src, part |-> at,
                  file |-> file]
        /\ at \in 1 .. Len(src) /\ src[at] \in Parts /\ Len(FilesOf(at, src[at])) \in Nat
  BY AtFile DEF NextPart
<1>2. /\ run.file = file /\ run.part = at /\ run.src = src
      /\ PartFiles = FilesOf(at, src[at]) /\ file > Len(PartFiles)
      /\ run' = [mode |-> "unpack", format |-> format, src |-> src, part |-> at + 1,
                 file |-> 1]
      /\ UNCHANGED <<dir, out, runs, whole, ages>>
  BY <1>1 DEF PartFiles, NextPart
<1>3. TypesInv'
  <2>1. run' \in Commands
    BY <1>1, <1>2 DEF Commands
  <2>2. runs' >= 1
    BY <1>1, <1>2 DEF WorkspaceInv, TypesInv, Idle
  <2> QED BY <1>2, <2>1, <2>2 DEF WorkspaceInv, TypesInv
<1>4. CabsInv'
  BY <1>2 DEF WorkspaceInv, CabsInv
<1>5. whole = <<>> /\ \A j \in DOMAIN src : j < at + 1 => AllThere(j, src[j])
  <2>1. /\ whole = <<>> /\ \A j \in DOMAIN src : j < at => AllThere(j, src[j])
        /\ There(at, src[at], file - 1) /\ file \in 1 .. Len(PartFiles) + 1
    BY <1>2 DEF WorkspaceInv, UnpackInv, NextPart
  <2>2. AllThere(at, src[at])
    <3>1. file - 1 = Len(FilesOf(at, src[at]))
      BY <1>1, <1>2, <2>1
    <3> QED BY <2>1, <3>1 DEF AllThere
  <2>3. \A j \in DOMAIN src : j < at + 1 => j < at \/ j = at
    BY <1>1
  <2> QED BY <2>1, <2>2, <2>3
<1>6. UnpackInv'
  <2>1. run'.src = src /\ run'.part = at + 1 /\ run'.file = 1
    BY <1>2
  <2>2. (\A j \in DOMAIN run.src : j < run.part => AllThere(j, run.src[j]))'
    BY <1>2, <1>5, <2>1 DEF AllThere, There
  <2>3. MoreParts' => run'.file \in 1 .. Len(PartFiles') + 1
    <3>1. at + 1 <= Len(src) => src[at + 1] \in Parts
      BY <1>1
    <3>2. src[at + 1] \in Parts => Len(FilesOf(at + 1, src[at + 1])) \in Nat
      BY FilesLen
    <3> QED BY <2>1, <3>1, <3>2 DEF MoreParts, PartFiles
  <2>4. There(run.part, run.src[run.part], run.file - 1)' /\ 1 .. run'.file - 1 = {}
    BY <2>1 DEF There
  <2> QED BY <1>2, <1>5, <2>2, <2>3, <2>4 DEF UnpackInv
<1>7. run'.mode = "unpack" /\ whole' = <<>> /\ ages' = ages
  BY <1>2, <1>5
<1> QED BY <1>3, <1>4, <1>6, <1>7, NothingPacked DEF WorkspaceInv

\* An unpack returns 0 and has left all of its archive.
LEMMA UnpackReturnsInv == WorkspaceInv /\ UnpackReturns => WorkspaceInv'
<1> SUFFICES ASSUME WorkspaceInv, UnpackReturns PROVE WorkspaceInv'
  OBVIOUS
<1>1. /\ Unpacking /\ ~MoreParts /\ run' = Idle /\ whole' = <<run.src>>
      /\ UNCHANGED <<dir, out, runs, ages>>
  BY DEF UnpackReturns, Return
<1>2. run.src \in Seq(Parts) /\ run.part \in Nat
  BY <1>1 DEF WorkspaceInv, TypesInv, Commands, Unpacking, Idle
<1>3. TypesInv'
  <2>1. run' \in Commands
    BY <1>1 DEF Commands
  <2>2. whole' \in Seq(Seq(Parts))
    BY <1>1, <1>2
  <2> QED BY <1>1, <2>1, <2>2 DEF WorkspaceInv, TypesInv
<1>4. run'.mode = "idle"
  BY <1>1 DEF Idle
<1>5. CabsInv' /\ UnpackInv' /\ PackInv' /\ DescribedByItsOwn'
  BY <1>1, <1>4 DEF WorkspaceInv, CabsInv, UnpackInv, Unpacking, PackInv, Packing,
                    OnlyLastUnpacked, DescribedByItsOwn
<1>6. WholeInv'
  <2>1. \A j \in DOMAIN run.src : j < run.part
    BY <1>1, <1>2 DEF MoreParts
  <2>2. \A j \in DOMAIN run.src : AllThere(j, run.src[j])
    BY <1>1, <2>1 DEF WorkspaceInv, UnpackInv
  <2>3. PICK src : src = run.src
    OBVIOUS
  <2>4. \A j \in DOMAIN src : AllThere(j, src[j])'
    BY <1>1, <2>2, <2>3, SameDir
  <2>5. DOMAIN whole' = {1} /\ whole'[1] = src
    BY <1>1, <2>3
  <2> QED BY <2>4, <2>5 DEF WholeInv, AllThere, There
<1> QED BY <1>3, <1>5, <1>6 DEF WorkspaceInv

\* An unpack is stopped, and may leave a file that holds nothing of use.
LEMMA UnpackStopsInv == WorkspaceInv /\ UnpackStops => WorkspaceInv'
<1> SUFFICES ASSUME WorkspaceInv, UnpackStops PROVE WorkspaceInv'
  OBVIOUS
<1>1. Unpacking /\ run' = Idle /\ UNCHANGED <<out, runs, whole, ages>>
  BY DEF UnpackStops, Return
<1>2. CASE UNCHANGED dir
  BY <1>1, <1>2, EndsInv
<1>3. CASE /\ MoreParts /\ GoodMagic /\ run.file <= Len(PartFiles)
           /\ Put(PartFiles[run.file][1], Item(Garbage, "none", 0))
  <2>1. PICK item \in FileItems : item = Item(Garbage, "none", 0)
    BY DEF FileItems, Item, Held
  <2>2. /\ \A p \in DOMAIN dir' : dir'[p] \in [item : FileItems, run : 1 .. runs']
        /\ CabsInv'
    BY <1>1, <1>3, <2>1, PutInv
  <2>3. run'.mode = "idle" /\ run' \in Commands
    BY <1>1 DEF Idle, Commands
  <2>4. TypesInv'
    BY <1>1, <2>2, <2>3 DEF WorkspaceInv, TypesInv
  <2>5. UnpackInv'
    BY <2>3 DEF UnpackInv, Unpacking
  <2>6. whole' = <<>>
    BY <1>1 DEF WorkspaceInv, UnpackInv
  <2> QED BY <1>1, <2>2, <2>3, <2>4, <2>5, <2>6, NothingPacked DEF WorkspaceInv
<1> QED BY <1>2, <1>3 DEF UnpackStops

\* A part is packed.
LEMMA PackPartInv == WorkspaceInv /\ PackPart => WorkspaceInv'
<1> SUFFICES ASSUME WorkspaceInv, PackPart PROVE WorkspaceInv'
  OBVIOUS
<1>1. PICK format \in Formats, at \in Nat \ {0}, count \in Nat :
        run = [mode |-> "pack", format |-> format, count |-> count, part |-> at]
  <2>1. run \in [mode : {"pack"}, format : Formats, count : Nat, part : Nat \ {0}]
    BY DEF WorkspaceInv, TypesInv, Commands, PackPart, Packing, Idle
  <2> QED BY <2>1
<1>2. PICK n \in CabCounts(format, at) :
        /\ Present(at, n)
        /\ out' = Append(out, Part(format, at, n))
        /\ ages' = ages \cup AgesOf(format, at, n)
  BY <1>1 DEF PackPart
<1>3. /\ run' = [mode |-> "pack", format |-> format, count |-> count, part |-> at + 1]
      /\ UNCHANGED <<dir, runs, whole>>
  BY <1>1 DEF PackPart
<1>4. /\ \A p \in DOMAIN dir : /\ dir[p].item \in FileItems /\ dir[p].item.tag \in Held
                               /\ dir[p].item.n \in Nat /\ dir[p].run \in 1 .. runs
      /\ out \in Seq(Parts) /\ \A i \in DOMAIN out : Len(out[i].cabs) <= MaxCabs
  <2>1. /\ \A p \in DOMAIN dir : dir[p] \in [item : FileItems, run : 1 .. runs]
        /\ out \in Seq(Parts) /\ \A i \in DOMAIN out : Len(out[i].cabs) <= MaxCabs
    BY DEF WorkspaceInv, TypesInv
  <2> QED BY <2>1 DEF FileItems
<1>5. n \in 0 .. MaxCabs
  <2>1. \A c \in Nat : Clamped(c) \in 0 .. MaxCabs
    BY DEF Clamped
  <2> DEFINE path == <<at, "hdr", 0>>
  <2>2. CASE path \notin DOMAIN dir
    BY <1>2, <2>2 DEF CabCounts
  <2>3. CASE path \in DOMAIN dir
    <3>1. Clamped(dir[path].item.n) \in 0 .. MaxCabs
      BY <1>4, <2>1, <2>3
    <3>2. n \in {Clamped(dir[path].item.n)} \cup 0 .. MaxCabs
      BY <1>2, <2>3 DEF CabCounts
    <3> QED BY <3>1, <3>2
  <2> QED BY <2>2, <2>3
<1>6. Part(format, at, n) \in Parts /\ Len(Part(format, at, n).cabs) <= MaxCabs
  <2> DEFINE cabs == [c \in 1 .. n |-> CabAt(format, at, c)]
             Cab == [meta : Held, data : Held, size : Nat]
  <2>1. \A path : Read(path, format) \in Held
    BY <1>4 DEF Read, Held
  <2>2. \A c \in 1 .. n : CabAt(format, at, c) \in Cab
    BY <1>2, <1>4, <2>1 DEF CabAt, Present
  <2>3. cabs \in Cabs /\ Len(cabs) = n
    <3> HIDE DEF Cab
    <3>1. cabs \in Seq(Cab) /\ Len(cabs) = n
      BY <1>5, <2>2
    <3> QED BY <3>1 DEF Cabs, Cab
  <2> HIDE DEF cabs
  <2>4. BlockCount(cabs) \in Nat
    BY <2>3, BlockCountNat
  <2> DEFINE keys == IF HasKeys(format)
                     THEN [b \in 1 .. BlockCount(cabs) |-> Read(<<at, "key", b>>, format)]
                     ELSE <<>>
  <2>5. keys \in Seq(Held) /\ (HasKeys(format) => Len(keys) >= BlockCount(cabs))
    <3>1. CASE HasKeys(format)
      <4>1. \A b \in 1 .. BlockCount(cabs) : Read(<<at, "key", b>>, format) \in Held
        BY <2>1
      <4> DEFINE read == [b \in 1 .. BlockCount(cabs) |-> Read(<<at, "key", b>>, format)]
      <4>2. read \in Seq(Held) /\ Len(read) = BlockCount(cabs)
        <5> DEFINE blocks == BlockCount(cabs)
        <5>1. /\ blocks \in Nat /\ DOMAIN read = 1 .. blocks
              /\ \A b \in 1 .. blocks : read[b] \in Held
              /\ read = [b \in 1 .. blocks |-> read[b]]
          BY <2>4, <4>1
        <5> HIDE DEF read, blocks
        <5>2. read \in Seq(Held) /\ Len(read) = blocks
          BY <5>1
        <5> QED BY <5>2 DEF blocks
      <4> QED BY <2>4, <3>1, <4>2
    <3>2. CASE ~HasKeys(format)
      BY <3>2
    <3> QED BY <3>1, <3>2
  <2>6. Part(format, at, n) = [format |-> format, hdr |-> Read(<<at, "hdr", 0>>, format),
                               cabs |-> cabs, keys |-> keys]
    BY DEF Part, cabs
  <2> HIDE DEF keys
  <2> QED BY <1>5, <2>1, <2>3, <2>5, <2>6 DEF Parts
<1>7. PICK new \in Parts : new = Part(format, at, n) /\ Len(new.cabs) <= MaxCabs
  BY <1>6
<1>8. /\ out' \in Seq(Parts) /\ Len(out') = Len(out) + 1 /\ Len(out) = at - 1
      /\ \A i \in DOMAIN out' : (i \in DOMAIN out /\ out'[i] = out[i]) \/ (i = at /\ out'[i] = new)
  <2>1. Len(out) = at - 1
    BY <1>1 DEF WorkspaceInv, PackInv, Packing
  <2> QED BY <1>2, <1>4, <1>7, <2>1
<1>9. TypesInv'
  <2>1. run' \in Commands
    BY <1>1, <1>3 DEF Commands
  <2>2. \A i \in DOMAIN out' : Len(out'[i].cabs) <= MaxCabs
    BY <1>4, <1>7, <1>8
  <2>3. runs' >= 1
    BY <1>1, <1>3 DEF WorkspaceInv, TypesInv, Idle
  <2> QED BY <1>3, <1>8, <2>1, <2>2, <2>3 DEF WorkspaceInv, TypesInv
<1>10. CabsInv' /\ UnpackInv'
  <2>1. run'.mode = "pack"
    BY <1>3
  <2> QED BY <1>3, <2>1 DEF WorkspaceInv, CabsInv, UnpackInv, Unpacking
<1>11. WholeInv'
  BY <1>3, SameDir DEF WorkspaceInv, WholeInv
<1>12. DescribedByItsOwn'
  <2>1. \A c \in 1 .. n : \A p \in {<<at, "hdr", 0>>, <<at, "cab.hdr", c>>} :
          dir[p].run >= dir[<<at, "cab", c>>].run
    <3> SUFFICES ASSUME NEW c \in 1 .. n, NEW p \in {<<at, "hdr", 0>>, <<at, "cab.hdr", c>>}
                 PROVE  dir[p].run >= dir[<<at, "cab", c>>].run
      OBVIOUS
    <3>1. PICK q \in DOMAIN dir : q = <<at, "cab", c>>
      BY <1>2 DEF Present
    <3>2. q[1] = at /\ q[2] = "cab" /\ q[3] = c
      BY <3>1
    <3>3. dir[p].run >= dir[q].run
      BY <3>2 DEF WorkspaceInv, CabsInv
    <3> QED BY <3>1, <3>3
  <2>2. ASSUME NEW age \in AgesOf(format, at, n) PROVE age.meta >= age.cab
    <3>1. PICK c \in 1 .. n : \E p \in {<<at, "hdr", 0>>, <<at, "cab.hdr", c>>} :
            age = [cab |-> dir[<<at, "cab", c>>].run, meta |-> dir[p].run]
      BY DEF AgesOf
    <3> PICK p \in {<<at, "hdr", 0>>, <<at, "cab.hdr", c>>} :
            age = [cab |-> dir[<<at, "cab", c>>].run, meta |-> dir[p].run]
      BY <3>1
    <3>2. age.meta = dir[p].run /\ age.cab = dir[<<at, "cab", c>>].run
      BY <3>1
    <3> QED BY <2>1, <3>2
  <2> QED BY <1>2, <2>2 DEF WorkspaceInv, DescribedByItsOwn
<1>13. PackInv'
  <2>1. run'.part = at + 1 /\ run'.format = format /\ run.format = format /\ Packing
    BY <1>1, <1>3 DEF Packing
  <2>2. Len(out') = run'.part - 1
    BY <1>1, <1>8, <2>1
  <2>3. ASSUME NEW k \in DOMAIN whole, NEW i \in DOMAIN out' \cap DOMAIN whole[k],
               format = whole[k][i].format
        PROVE  out'[i] = Kept(whole[k][i])
    <3>1. CASE i \in DOMAIN out /\ out'[i] = out[i]
      BY <2>1, <2>3, <3>1 DEF WorkspaceInv, PackInv, OnlyLastUnpacked
    <3>2. CASE i = at /\ out'[i] = new
      <4>1. whole[k] \in Seq(Parts)
        BY DEF WorkspaceInv, TypesInv
      <4>2. PICK part \in Parts : part = whole[k][i]
        BY <4>1
      <4>3. AllThere(i, part)
        BY <4>2 DEF WorkspaceInv, WholeInv
      <4>4. n \in CabCounts(part.format, i) /\ new = Part(part.format, i, n)
        BY <1>2, <1>7, <2>3, <3>2, <4>2
      <4> QED BY <3>2, <4>2, <4>3, <4>4, Repacked
    <3> QED BY <1>8, <3>1, <3>2
  <2> QED BY <1>3, <2>1, <2>2, <2>3 DEF PackInv, OnlyLastUnpacked
<1> QED BY <1>9, <1>10, <1>11, <1>12, <1>13 DEF WorkspaceInv

\* Every step of a session keeps the invariant.
LEMMA NextInv == WorkspaceInv /\ [Next]_vars => WorkspaceInv'
<1> SUFFICES ASSUME WorkspaceInv, [Next]_vars PROVE WorkspaceInv'
  OBVIOUS
<1>1. CASE StartUnpack \/ StartPack
  BY <1>1, StartInv
<1>2. CASE WriteFile
  BY <1>2, WriteFileInv
<1>3. CASE NextPart
  BY <1>3, NextPartInv
<1>4. CASE UnpackReturns
  BY <1>4, UnpackReturnsInv
<1>5. CASE UnpackStops
  BY <1>5, UnpackStopsInv
<1>6. CASE PackPart
  BY <1>6, PackPartInv
<1>7. CASE PackFails \/ PackReturns \/ PackKilled
  BY <1>7, EndsInv DEF PackFails, PackReturns, PackKilled, Return
<1>8. CASE UNCHANGED vars
  <2>1. UNCHANGED <<dir, out, run, runs, whole, ages>>
    BY <1>8 DEF vars
  <2>2. TypesInv' /\ CabsInv' /\ DescribedByItsOwn'
    BY <2>1 DEF WorkspaceInv, TypesInv, CabsInv, DescribedByItsOwn
  <2>3. UnpackInv'
    BY <2>1 DEF WorkspaceInv, UnpackInv, Unpacking, MoreParts, GoodMagic, PartFiles,
                AllThere, There
  <2>4. WholeInv'
    BY <2>1, SameDir DEF WorkspaceInv, WholeInv
  <2>5. PackInv'
    BY <2>1 DEF WorkspaceInv, PackInv, OnlyLastUnpacked, Packing
  <2> QED BY <2>2, <2>3, <2>4, <2>5 DEF WorkspaceInv
<1> QED BY <1>1, <1>2, <1>3, <1>4, <1>5, <1>6, <1>7, <1>8 DEF Next

-----------------------------------------------------------------------------
(* Results.                                                                *)

\* A session starts in an empty directory.
LEMMA InitInv == Init => WorkspaceInv
<1> SUFFICES ASSUME Init PROVE WorkspaceInv
  OBVIOUS
<1>1. /\ DOMAIN dir = {} /\ DOMAIN out = {} /\ DOMAIN whole = {} /\ run = Idle /\ runs = 0
      /\ ages = {} /\ run.mode = "idle"
  BY DEF Init, Idle
<1>2. TypesInv
  <2>1. run \in Commands
    BY <1>1 DEF Commands
  <2>2. out \in Seq(Parts) /\ whole \in Seq(Seq(Parts))
    BY DEF Init
  <2> QED BY <1>1, <2>1, <2>2 DEF TypesInv
<1>3. CabsInv /\ UnpackInv /\ WholeInv /\ PackInv /\ DescribedByItsOwn
  BY <1>1 DEF CabsInv, UnpackInv, Unpacking, WholeInv, PackInv, Packing, OnlyLastUnpacked,
              DescribedByItsOwn
<1> QED BY <1>2, <1>3 DEF WorkspaceInv

\* The invariant holds of every session.
LEMMA WorkspaceInvHolds == Spec => []WorkspaceInv
<1>1. Init => WorkspaceInv
  BY InitInv
<1>2. WorkspaceInv /\ [Next]_vars => WorkspaceInv'
  BY NextInv
<1> QED BY <1>1, <1>2, PTL DEF Spec

(* No .hdr file, of whatever format or length, makes a pack go beyond its  *)
(* arrays of MaxCabs entries.                                              *)
THEOREM TypesHold == Spec => []TypeOK
<1>1. WorkspaceInv => TypeOK
  <2> SUFFICES ASSUME WorkspaceInv PROVE TypeOK
    OBVIOUS
  <2>1. run.mode \in {"idle", "unpack", "pack"}
    BY DEF WorkspaceInv, TypesInv, Commands, Idle
  <2>2. \A p \in DOMAIN dir : dir[p].run \in 1 .. runs
    BY DEF WorkspaceInv, TypesInv
  <2> QED BY <2>1, <2>2 DEF WorkspaceInv, TypesInv, TypeOK
<1> QED BY <1>1, WorkspaceInvHolds, PTL

(* A pack after a whole unpack of the same format writes what was unpacked *)
(* and nothing that was in the directory before, for every set of          *)
(* archives, size of blocks and limit of cabs and every session.           *)
THEOREM OnlyLastHolds == Spec => []OnlyLastUnpacked
<1>1. WorkspaceInv => OnlyLastUnpacked
  BY DEF WorkspaceInv, PackInv
<1> QED BY <1>1, WorkspaceInvHolds, PTL

(* Wherever unpacks are stopped, no cab is packed under a header or        *)
(* metadata older than it.                                                 *)
THEOREM DescribedHolds == Spec => []DescribedByItsOwn
<1>1. WorkspaceInv => DescribedByItsOwn
  BY DEF WorkspaceInv
<1> QED BY <1>1, WorkspaceInvHolds, PTL
=============================================================================
