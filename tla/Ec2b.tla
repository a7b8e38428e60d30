-------------------------------- MODULE Ec2b --------------------------------
(***************************************************************************)
(* One run of `blktool ec2b gen|xor|edit`: ec2b_main of blktool.c with     *)
(* genNewEc2b and xorKeyFromEc2b of ec2b.c.                                *)
(*                                                                         *)
(* An .ec2b file stands for a 64-bit seed that it does not store: the seed *)
(* is the xor of a constant, the key (after aes and xor) and the data. gen *)
(* makes a file, xor writes the pad of its seed, edit makes a file from    *)
(* another with a new key, data or seed. The arguments of edit are a loop  *)
(* over argv, here one action per branch; argv[1] is what follows the mode *)
(* (argv[2] in C).                                                         *)
(***************************************************************************)
EXTENDS XorWords

CONSTANTS
  Arg,        \* the strings of a command line; any may name a file
  Argvs,      \* the command lines
  NULL,       \* no string
  Numbers,    \* strings that strtoull reads -> the seed they stand for
  DataWords,  \* 256: words of an ec2b's data
  InitialFiles, \* what a run may find in the directory
  Transform,  \* key as stored -> key as used (aesScrambleKeyMhy, ec2bXorKey)
  SeedConst   \* ~0xceac3b5a867837ac

Key  == W64 \X W64
Data == [1 .. DataWords -> W64]

Ec2bFile(key, data) == [kind |-> "ec2b", key |-> key, data |-> data]
PadFile(s)          == [kind |-> "pad", seed |-> s]
NoFile == [kind |-> "none"]
Empty  == [kind |-> "empty"]
Other  == [kind |-> "other"]
Contents == {NoFile, Empty, Other} \cup [kind : {"pad"}, seed : W64]
            \cup [kind : {"ec2b"}, key : Key, data : Data]

ASSUME ArgsAssumption ==
  /\ Argvs \subseteq Seq(Arg) /\ NULL \notin Arg
  /\ DOMAIN Numbers \subseteq Arg /\ Numbers \in [DOMAIN Numbers -> W64]
ASSUME FilesAssumption == InitialFiles \subseteq [Arg -> Contents]
ASSUME WordsAssumption == DataWords \in Nat /\ SeedConst \in W64
\* The key transformation is a permutation, as in Blk.
ASSUME TransformAssumption ==
  /\ Transform \in [Key -> Key]
  /\ \A k \in Key : \E s \in Key : Transform[s] = k
  /\ \A s, t \in Key : Transform[s] = Transform[t] => s = t

VARIABLES
  files,    \* the directory
  before,   \* history: the directory as the run found it
  mode, argv,
  pc,       \* where ec2b_main is, or how it ended
  i,        \* the argument edit looks at
  opt,      \* what edit learns from its arguments
  seed,     \* seed of ec2b_main; NULL while unset
  in_ec2b   \* the file edit has read

vars == <<files, before, mode, argv, pc, i, opt, seed, in_ec2b>>

Ends == {"ok", "fail", "help", "killed"}

NoOptions ==
  [in_file |-> NULL, out_file |-> NULL, gen_key |-> FALSE, gen_data |-> FALSE,
   gen_seed |-> FALSE, new_seed |-> FALSE]

Init ==
  /\ files \in InitialFiles /\ before = files
  /\ mode \in {"gen", "xor", "edit"} /\ argv \in Argvs
  /\ pc = "begin" /\ i = 1
  /\ opt = NoOptions /\ seed = NULL /\ in_ec2b = NULL

-----------------------------------------------------------------------------
(* ec2b.c                                                                  *)

\* xorKeyFromEc2b: the seed of a key as used and data.
SeedOf(key, data) ==
  ((SeedConst ^^ key[1]) ^^ key[2]) ^^ XorFirst(data, DataWords)

DerivedSeed(file) == SeedOf(Transform[file.key], file.data)

\* Mutant of KeyFor: xors the second half of the key into its own place.
KeyForSecond(key, data, s) ==
  << key[1],
     (((XorFirst(data, DataWords) ^^ Bits) ^^ s) ^^ key[2]) ^^ Not(SeedConst) >>

\* genNewEc2b with a seed to keep: the first half of the key that gives it.
KeyFor(key, data, s) ==
  << (((XorFirst(data, DataWords) ^^ Bits) ^^ s) ^^ key[2]) ^^ Not(SeedConst),
     key[2] >>

Stored(key) == CHOOSE s \in Key : Transform[s] = key

\* genNewEc2b(out, key, data, &seed, getNewSeed) with key as used: writes
\* the file, and seed unless it was to be kept.
GenNewEc2b(name, key, data, s, getNewSeed) ==
  LET newKey == IF getNewSeed THEN key ELSE KeyFor(key, data, s)
  IN  /\ files' = [files EXCEPT ![name] = Ec2bFile(Stored(newKey), data)]
      /\ seed' = IF getNewSeed THEN SeedOf(newKey, data) ELSE s

-----------------------------------------------------------------------------
(* gen and xor                                                             *)

Goto(l) == pc' = l

Needed == IF mode = "xor" THEN 2 ELSE 1
TooFew ==
  /\ pc = "begin" /\ Len(argv) < Needed
  /\ Goto("fail")
  /\ UNCHANGED <<files, before, mode, argv, i, opt, seed, in_ec2b>>

GenOpen ==
  /\ pc = "begin" /\ mode = "gen" /\ Len(argv) >= Needed
  /\ files' = [files EXCEPT ![argv[1]] = Empty]
  /\ Goto("write")
  /\ UNCHANGED <<before, mode, argv, i, opt, seed, in_ec2b>>

GenWrite ==
  /\ pc = "write" /\ mode = "gen"
  /\ \E key \in Key, data \in Data : GenNewEc2b(argv[1], key, data, NULL, TRUE)
  /\ Goto("ok")
  /\ UNCHANGED <<before, mode, argv, i, opt, in_ec2b>>

\* The output is created before the input is read.
XorOpen ==
  /\ pc = "begin" /\ mode = "xor" /\ Len(argv) >= Needed
  /\ files[argv[1]] # NoFile
  /\ files' = [files EXCEPT ![argv[2]] = Empty]
  /\ Goto("write")
  /\ UNCHANGED <<before, mode, argv, i, opt, seed, in_ec2b>>

XorWrite ==
  /\ pc = "write" /\ mode = "xor"
  /\ IF files[argv[1]].kind = "ec2b"
       THEN /\ files' = [files EXCEPT ![argv[2]] = PadFile(DerivedSeed(files[argv[1]]))]
            /\ Goto("ok")
       ELSE Goto("fail") /\ UNCHANGED files
  /\ UNCHANGED <<before, mode, argv, i, opt, seed, in_ec2b>>

\* The input is not there, or the output of gen or xor cannot be created.
CannotOpen ==
  /\ pc = "begin" /\ mode \in {"gen", "xor"} /\ Len(argv) >= Needed
  /\ Goto("fail")
  /\ UNCHANGED <<files, before, mode, argv, i, opt, seed, in_ec2b>>

-----------------------------------------------------------------------------
(* edit: the arguments                                                     *)

ArgAt(k) == IF k <= Len(argv) THEN argv[k] ELSE NULL

EditBegin ==
  /\ pc = "begin" /\ mode = "edit" /\ Len(argv) >= Needed
  /\ Goto("parse")
  /\ UNCHANGED <<files, before, mode, argv, i, opt, seed, in_ec2b>>

\* Mutant of Turn: i is advanced by the branch and by the loop.
TurnTwice(a, n) ==
  /\ pc = "parse" /\ i <= Len(argv) /\ argv[i] = a
  /\ i' = i + 2 * n
  /\ UNCHANGED <<files, before, mode, argv, in_ec2b>>

\* One turn of the loop at an argument a: n strings are used up.
Turn(a, n) ==
  /\ pc = "parse" /\ i <= Len(argv) /\ argv[i] = a
  /\ i' = i + n
  /\ UNCHANGED <<files, before, mode, argv, in_ec2b>>

Help == Turn("-h", 0) /\ Goto("help") /\ UNCHANGED <<opt, seed>>

GenKey == Turn("-k", 1) /\ opt' = [opt EXCEPT !.gen_key = TRUE]
          /\ UNCHANGED <<pc, seed>>

GenData == Turn("-d", 1) /\ opt' = [opt EXCEPT !.gen_data = TRUE]
           /\ UNCHANGED <<pc, seed>>

\* Mutant of GenSeed: a seed already given does not stop -s.
GenSeedAlways == Turn("-s", 1) /\ opt' = [opt EXCEPT !.gen_seed = TRUE]
                 /\ UNCHANGED <<pc, seed>>

GenSeed == Turn("-s", 1) /\ opt' = [opt EXCEPT !.gen_seed = @ \/ ~opt.new_seed]
           /\ UNCHANGED <<pc, seed>>

\* strtoull of NULL kills the program: i + 1 > argc never holds.
NewSeed ==
  /\ Turn("-S", 2)
  /\ \/ /\ ArgAt(i + 1) \in DOMAIN Numbers
        /\ seed' = Numbers[ArgAt(i + 1)]
        /\ opt' = [opt EXCEPT !.new_seed = TRUE, !.gen_seed = FALSE]
        /\ UNCHANGED pc
     \/ ArgAt(i + 1) \in Arg \ DOMAIN Numbers /\ Goto("fail") /\ UNCHANGED <<opt, seed>>
     \/ ArgAt(i + 1) = NULL /\ Goto("killed") /\ UNCHANGED <<opt, seed>>

\* At the end of argv the name is NULL, and the loop goes on.
OutFile == Turn("-o", 2) /\ opt' = [opt EXCEPT !.out_file = ArgAt(i + 1)]
           /\ UNCHANGED <<pc, seed>>

InFile == Turn("-i", 2) /\ opt' = [opt EXCEPT !.in_file = ArgAt(i + 1)]
          /\ UNCHANGED <<pc, seed>>

Options == {"-h", "-k", "-d", "-s", "-S", "-o", "-i"}

\* Anything else is the input if it comes first.
Input ==
  /\ \E a \in Arg \ Options : Turn(a, 1)
  /\ IF i = 1 THEN opt' = [opt EXCEPT !.in_file = argv[i]] /\ UNCHANGED pc
              ELSE Goto("fail") /\ UNCHANGED opt
  /\ UNCHANGED seed

-----------------------------------------------------------------------------
(* edit: the files                                                         *)

output_to_input == opt.out_file \in {NULL, opt.in_file}
Target == IF output_to_input THEN opt.in_file ELSE opt.out_file

Asked == opt.gen_key \/ opt.gen_data \/ opt.gen_seed \/ opt.new_seed

\* Nothing to do, or nothing to do it on.
NothingToEdit ==
  /\ pc = "parse" /\ i > Len(argv)
  /\ ~Asked \/ opt.in_file = NULL
  /\ Goto("fail")
  /\ UNCHANGED <<files, before, mode, argv, i, opt, seed, in_ec2b>>

\* Mutant of Created: the input is created anew even when edited in place.
CreatedAnyway == [files EXCEPT ![Target] = Empty]

\* In place the input is opened with "rb+", and no file is truncated.
Created == IF output_to_input THEN files ELSE [files EXCEPT ![opt.out_file] = Empty]

EditOpen ==
  /\ pc = "parse" /\ i > Len(argv)
  /\ Asked /\ opt.in_file # NULL
  /\ IF files[opt.in_file] = NoFile THEN Goto("fail") /\ UNCHANGED files
     ELSE \/ Goto("read") /\ files' = Created
          \/ Goto("fail") /\ UNCHANGED files
  /\ UNCHANGED <<before, mode, argv, i, opt, seed, in_ec2b>>

EditRead ==
  /\ pc = "read"
  /\ IF files[opt.in_file].kind = "ec2b"
       THEN in_ec2b' = files[opt.in_file] /\ Goto("write")
       ELSE Goto("fail") /\ UNCHANGED in_ec2b
  /\ UNCHANGED <<files, before, mode, argv, i, opt, seed>>

KeptKeys  == IF opt.gen_key THEN Key ELSE {Transform[in_ec2b.key]}
\* Mutant of KeptDatas: it is -k that asks for new data.
KeptDatasByKey == IF opt.gen_key THEN Data ELSE {in_ec2b.data}
KeptDatas == IF opt.gen_data THEN Data ELSE {in_ec2b.data}
Seeds     == IF opt.gen_seed THEN W64 ELSE {seed}

EditWrite ==
  /\ pc = "write" /\ mode = "edit"
  /\ \E key \in KeptKeys, data \in KeptDatas, s \in Seeds :
       GenNewEc2b(Target, key, data, s, ~(opt.new_seed \/ opt.gen_seed))
  /\ Goto("ok")
  /\ UNCHANGED <<before, mode, argv, i, opt, in_ec2b>>

\* The run is stopped from outside.
Killed ==
  /\ pc \notin Ends
  /\ Goto("killed")
  /\ UNCHANGED <<files, before, mode, argv, i, opt, seed, in_ec2b>>

Next ==
  \/ TooFew \/ CannotOpen \/ GenOpen \/ GenWrite \/ XorOpen \/ XorWrite
  \/ EditBegin \/ Help \/ GenKey \/ GenData \/ GenSeed \/ NewSeed
  \/ OutFile \/ InFile \/ Input
  \/ NothingToEdit \/ EditOpen \/ EditRead \/ EditWrite
  \/ Killed

Spec == Init /\ [][Next]_vars

-----------------------------------------------------------------------------
(* Properties. Asking is read off argv, not off what the loop recorded.    *)

\* TakesNext(args)[p] is 1 when args[p] is an option that takes args[p + 1].
TakesNext(args) ==
  LET takes[p \in 0 .. Len(args)] ==
        IF p = 0 THEN 0
        ELSE IF takes[p - 1] = 0 /\ args[p] \in {"-S", "-o", "-i"} THEN 1 ELSE 0
  IN  takes

Gives(o) == {p \in DOMAIN argv : argv[p] = o /\ TakesNext(argv)[p - 1] = 0}

(* Types of the variables. *)
TypeOK ==
  /\ files \in [Arg -> Contents] /\ before \in [Arg -> Contents]
  /\ mode \in {"gen", "xor", "edit"} /\ argv \in Seq(Arg)
  /\ pc \in Ends \cup {"begin", "parse", "read", "write"}
  /\ i \in 1 .. Len(argv) + 2
  /\ opt \in [in_file : Arg \cup {NULL}, out_file : Arg \cup {NULL},
              gen_key : BOOLEAN, gen_data : BOOLEAN, gen_seed : BOOLEAN,
              new_seed : BOOLEAN]
  /\ seed \in W64 \cup {NULL}
  /\ in_ec2b \in {NULL} \cup [kind : {"ec2b"}, key : Key, data : Data]

(* The seed that gen and edit print is the one that `ec2b xor` derives     *)
(* from the file they wrote, whichever of key, data and seed are new.      *)
SeedPrinted ==
  pc = "ok" /\ mode \in {"gen", "edit"} =>
    LET file == files[IF mode = "gen" THEN argv[1] ELSE Target]
    IN  file.kind = "ec2b" /\ DerivedSeed(file) = seed

(* A seed given with -S is the seed of the edited file, whether -s comes   *)
(* before it or after it; of several, the last one is.                     *)
GivenSeedWins ==
  pc = "ok" /\ mode = "edit" /\ Gives("-S") # {} =>
    LET last == CHOOSE p \in Gives("-S") : \A q \in Gives("-S") : q <= p
    IN  DerivedSeed(files[Target]) = Numbers[argv[last + 1]]

(* An edit leaves what it was not asked to change: the data without -d;    *)
(* without -k the key, or half of it when the seed is to change.           *)
KeepsUnasked ==
  pc = "ok" /\ mode = "edit" =>
    LET old == before[opt.in_file]
        new == files[Target]
    IN  /\ Gives("-d") = {} => new.data = old.data
        /\ Gives("-k") = {} => Transform[new.key][2] = Transform[old.key][2]
        /\ Gives("-k") \cup Gives("-s") \cup Gives("-S") = {} => new.key = old.key

(* Until an edit in place has written, and for ever when it fails, is      *)
(* killed or has another output, its input is as it was.                   *)
EditSparesInput ==
  mode = "edit" /\ opt.in_file # NULL /\ (pc = "ok" => ~output_to_input)
    => files[opt.in_file] = before[opt.in_file]
=============================================================================
