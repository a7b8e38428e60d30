----------------------------- MODULE Workspace -----------------------------
(***************************************************************************)
(* Sessions of `blktool <format> unpack` and `pack` over one directory: the *)
(* runs share nothing but the files <prefix>.pack<i>.*, and an unpack does  *)
(* not clear what an earlier one left there. What a run does inside of an   *)
(* archive is in Unpack, BlockPacker and Headers; here a file is the item   *)
(* it holds, and a run may be stopped between any two files.                *)
(*                                                                         *)
(* Packing writes to a file of its own, and its <prefix>.pack<i>.blocks is   *)
(* read by nobody else. Metadata files that exist can be opened. A killed    *)
(* unpack may leave an empty cab: what packing one does is in BlockPacker     *)
(* (Repacked), here it is a part like any other.                             *)
(***************************************************************************)
EXTENDS Sums, FiniteSets

CONSTANTS
  Formats,   \* of mhy0, mhy1, encr and blb3
  Items,     \* what the archives at hand hold: headers, metadata, data and keys
  Sources,   \* the archives at hand: sequences of parts
  Counts,    \* values of pack's count argument
  BlockSize, \* 0x20000, in the unit of the cabs' sizes
  MaxCabs,   \* 256
  MaxRuns    \* bound: commands in a session

VARIABLES
  dir,   \* path -> the item in that file and the run that created the file
  out,   \* what the last pack wrote: parts, and Torn where it was killed
  run,   \* the command that is running
  runs,  \* commands started so far
  whole, \* <<source>> when the last unpack returned 0, <<>> otherwise
  ages   \* of each cab that the last pack read: runs that its files are from

vars == <<dir, out, run, runs, whole, ages>>

Default == <<"default">> \* made up by pack in place of a file that is missing
Garbage == <<"garbage">> \* another format's bytes, or memory that a short fread did not set
Torn    == [format |-> "none", hdr |-> Garbage, cabs |-> <<>>, keys |-> <<>>]

Idle == [mode |-> "idle"]

\* Only these have keys per block. encr's key files hold flags that pack_encr reads
\* and replaces by 3.
HasKeys(format) == format \in {"mhy0", "mhy1"}

\* Blocks that cabs of these sizes are cut into.
BlockCount(cabs) ==
  (Sum([c \in DOMAIN cabs |-> cabs[c].size]) + BlockSize - 1) \div BlockSize

\* The parts of an archive, with a key for every block.
Held == Items \cup {Default, Garbage}
Cabs == Seq([meta : Held, data : Held, size : Nat])
Parts ==
  {part \in [format : Formats \cup {"none"}, hdr : Held, cabs : Cabs, keys : Seq(Held)] :
     HasKeys(part.format) => Len(part.keys) >= BlockCount(part.cabs)}

ASSUME FormatsAssumption == Formats \subseteq {"mhy0", "mhy1", "encr", "blb3"}
ASSUME LimitsAssumption ==
  BlockSize \in Nat \ {0} /\ MaxCabs \in Nat \ {0} /\ MaxRuns \in Nat
ASSUME CountsAssumption == Counts \subseteq Nat
ASSUME SourcesAssumption == Sources \subseteq Seq(Parts)

Init ==
  /\ dir = <<>> /\ out = <<>> /\ run = Idle /\ runs = 0
  /\ whole = <<>> /\ ages = {}

Idling == run = Idle /\ runs < MaxRuns
Return == run' = Idle

-----------------------------------------------------------------------------
(* unpack                                                                  *)

Item(tag, format, n) == [tag |-> tag, format |-> format, n |-> n]

HdrFile(i, part) == <<<<i, "hdr", 0>>, Item(part.hdr, part.format, Len(part.cabs))>>
CabHdrFiles(i, part) ==
  [c \in DOMAIN part.cabs |-> <<<<i, "cab.hdr", c>>, Item(part.cabs[c].meta, part.format, 0)>>]
KeyFiles(i, part) ==
  LET keys == IF part.format = "encr" THEN [b \in 1 .. BlockCount(part.cabs) |-> Default]
              ELSE part.keys
  IN  [b \in DOMAIN keys |-> <<<<i, "key", b>>, Item(keys[b], part.format, 0)>>]
CabFiles(i, part) ==
  [c \in DOMAIN part.cabs |->
     <<<<i, "cab", c>>, Item(part.cabs[c].data, part.format, part.cabs[c].size)>>]

\* Mutant of FilesOf: the cabs before what describes them.
FilesCabsFirst(i, part) ==
  CabFiles(i, part) \o <<HdrFile(i, part)>> \o CabHdrFiles(i, part) \o KeyFiles(i, part)

\* The files of part i in the order that extract_* writes them.
FilesOf(i, part) ==
  <<HdrFile(i, part)>> \o CabHdrFiles(i, part) \o KeyFiles(i, part) \o CabFiles(i, part)

\* A torn file is not unpacked: what is read behind its end is not the tool's.
StartUnpack ==
  /\ Idling
  /\ \E format \in Formats, src \in Sources \cup {out} :
       /\ \A i \in DOMAIN src : src[i] # Torn
       /\ run' = [mode |-> "unpack", format |-> format, src |-> src, part |-> 1, file |-> 1]
  /\ runs' = runs + 1 /\ whole' = <<>>
  /\ UNCHANGED <<dir, out, ages>>

Unpacking == run.mode = "unpack"
MoreParts == run.part <= Len(run.src)
GoodMagic == run.src[run.part].format = run.format
PartFiles == FilesOf(run.part, run.src[run.part])

Put(path, item) ==
  dir' = [p \in DOMAIN dir \cup {path} |->
            IF p = path THEN [item |-> item, run |-> runs] ELSE dir[p]]

WriteFile ==
  /\ Unpacking /\ MoreParts /\ GoodMagic
  /\ run.file <= Len(PartFiles)
  /\ Put(PartFiles[run.file][1], PartFiles[run.file][2])
  /\ run' = [run EXCEPT !.file = @ + 1]
  /\ UNCHANGED <<out, runs, whole, ages>>

NextPart ==
  /\ Unpacking /\ MoreParts /\ GoodMagic
  /\ run.file > Len(PartFiles)
  /\ run' = [run EXCEPT !.part = @ + 1, !.file = 1]
  /\ UNCHANGED <<dir, out, runs, whole, ages>>

UnpackReturns ==
  /\ Unpacking /\ ~MoreParts
  /\ Return /\ whole' = <<run.src>>
  /\ UNCHANGED <<dir, out, runs, ages>>

\* A bad magic, a file that cannot be opened, memory that there is not, or a kill:
\* before a file, or when it has been created and nothing has reached it.
UnpackStops ==
  /\ Unpacking /\ Return
  /\ \/ UNCHANGED dir
     \/ /\ MoreParts /\ GoodMagic /\ run.file <= Len(PartFiles)
        /\ Put(PartFiles[run.file][1], Item(Garbage, "none", 0))
  /\ UNCHANGED <<out, runs, whole, ages>>

-----------------------------------------------------------------------------
(* pack                                                                    *)

\* The output is created before anything is read.
StartPack ==
  /\ Idling
  /\ \E format \in Formats, count \in Counts :
       run' = [mode |-> "pack", format |-> format, count |-> count, part |-> 1]
  /\ out' = <<>> /\ ages' = {} /\ runs' = runs + 1
  /\ UNCHANGED <<dir, whole>>

Packing == run.mode = "pack"

\* Mutant of Clamped.
Unclamped(n) == n

Clamped(n) == IF n >= MaxCabs THEN MaxCabs ELSE n

\* Mutant of CabCounts: as many as there are files.
CabsThere(format, i) == {Clamped(Cardinality({p \in DOMAIN dir : p[1] = i /\ p[2] = "cab"}))}

\* Without a .hdr file one cab is assumed. From a short one, or one of another
\* format, any number may result.
CabCounts(format, i) ==
  LET path == <<i, "hdr", 0>>
  IN  IF path \notin DOMAIN dir THEN {1}
      ELSE IF dir[path].item.format = format THEN {Clamped(dir[path].item.n)}
      ELSE 0 .. MaxCabs

Read(path, format) ==
  IF path \notin DOMAIN dir THEN Default
  ELSE IF dir[path].item.format = format THEN dir[path].item.tag ELSE Garbage

CabAt(format, i, c) ==
  [meta |-> Read(<<i, "cab.hdr", c>>, format),
   data |-> dir[<<i, "cab", c>>].item.tag, size |-> dir[<<i, "cab", c>>].item.n]

\* Every cab must be there, or the pack fails.
Present(i, n) == \A c \in 1 .. n : <<i, "cab", c>> \in DOMAIN dir

Part(format, i, n) ==
  LET cabs == [c \in 1 .. n |-> CabAt(format, i, c)]
  IN  [format |-> format, hdr |-> Read(<<i, "hdr", 0>>, format), cabs |-> cabs,
       keys |-> IF HasKeys(format)
                THEN [b \in 1 .. BlockCount(cabs) |-> Read(<<i, "key", b>>, format)]
                ELSE <<>>]

\* The runs that a cab and its own and the archive's metadata are from.
AgesOf(format, i, n) ==
  LET read(c) == {p \in {<<i, "hdr", 0>>, <<i, "cab.hdr", c>>} :
                    p \in DOMAIN dir /\ dir[p].item.format = format}
  IN  UNION {{[cab |-> dir[<<i, "cab", c>>].run, meta |-> dir[p].run] : p \in read(c)} :
             c \in 1 .. n}

PackPart ==
  /\ Packing /\ run.part <= run.count
  /\ \E n \in CabCounts(run.format, run.part) :
       /\ Present(run.part, n)
       /\ out' = Append(out, Part(run.format, run.part, n))
       /\ ages' = ages \cup AgesOf(run.format, run.part, n)
  /\ run' = [run EXCEPT !.part = @ + 1]
  /\ UNCHANGED <<dir, runs, whole>>

\* A cab is missing, or a file cannot be opened or memory is not to be had.
PackFails ==
  /\ Packing /\ run.part <= run.count
  /\ Return
  /\ UNCHANGED <<dir, out, runs, whole, ages>>

PackReturns ==
  /\ Packing /\ run.part > run.count
  /\ Return
  /\ UNCHANGED <<dir, out, runs, whole, ages>>

PackKilled ==
  /\ Packing /\ Return
  /\ out' = Append(out, Torn)
  /\ UNCHANGED <<dir, runs, whole, ages>>

-----------------------------------------------------------------------------
Next ==
  \/ StartUnpack \/ WriteFile \/ NextPart
  \/ UnpackReturns \/ UnpackStops
  \/ StartPack \/ PackPart \/ PackFails \/ PackReturns \/ PackKilled

Spec == Init /\ [][Next]_vars

-----------------------------------------------------------------------------
(* Properties.                                                             *)

\* Types; pack_* has arrays of MaxCabs entries at most, whatever a .hdr says.
TypeOK ==
  /\ run.mode \in {"idle", "unpack", "pack"} /\ runs \in 0 .. MaxRuns
  /\ \A p \in DOMAIN dir : dir[p].run \in 1 .. runs
  /\ \A i \in DOMAIN out : out[i] # Torn => Len(out[i].cabs) <= MaxCabs

\* What a pack can keep of a part: the cabs beyond the limit are dropped, and the
\* keys of the blocks that there are without them.
Kept(part) ==
  LET cabs == SubSeq(part.cabs, 1, Clamped(Len(part.cabs)))
  IN  [part EXCEPT !.cabs = cabs,
                   !.keys = IF HasKeys(part.format) THEN SubSeq(@, 1, BlockCount(cabs)) ELSE <<>>]

\* After an unpack that returned 0, a pack of the same format that returns 0 and
\* asks for no more parts than there were writes what was unpacked: nothing that
\* earlier runs left in the directory, more parts, cabs or keys, of the same or
\* another format, whole or not, gets into it.
OnlyLastUnpacked ==
  \A k \in DOMAIN whole :
    \A i \in DOMAIN out \cap DOMAIN whole[k] :
      Packing /\ run.format = whole[k][i].format => out[i] = Kept(whole[k][i])

\* Wherever unpacks were stopped, a packed cab is never described by a header
\* that is older than its own data: an old cab may get a newer header, which
\* shows in its size or content, but a new cab never goes out under an old name.
DescribedByItsOwn == \A age \in ages : age.meta >= age.cab
=============================================================================
