----------------------------- MODULE Ec2bProofs -----------------------------
(***************************************************************************)
(* Proofs that the seed printed for an .ec2b is the one it stands for,     *)
(* that an edit spares its input and keeps what it was not asked to        *)
(* change, and that a seed given is the seed it gets, for every width of   *)
(* words, length of data and key transformation, every command line and    *)
(* every directory.                                                        *)
(***************************************************************************)
EXTENDS Ec2b, SumsProofs

USE ArgsAssumption, FilesAssumption, WordsAssumption

-----------------------------------------------------------------------------
(* The inductive invariant.                                                *)

\* What has been made sure of before a file is touched.
ReadyInv ==
  /\ mode # "edit" /\ pc \in {"write", "ok"} => Len(argv) >= Needed
  /\ pc \in {"parse", "read"} => mode = "edit"
  /\ mode = "edit" /\ pc \in {"read", "write", "ok"} => opt.in_file # NULL
  /\ mode = "edit" /\ pc = "write" =>
       in_ec2b \in [kind : {"ec2b"}, key : Key, data : Data]
  /\ opt.new_seed => seed \in W64

\* Only the target of an edit differs from what the run found, in place only
\* after the edit has succeeded.
FilesInv ==
  mode = "edit" =>
    \A a \in Arg : \/ files[a] = before[a]
                   \/ /\ pc \notin {"begin", "parse"} /\ a = Target
                      /\ pc = "ok" \/ ~output_to_input

Ec2bInv == TypeOK /\ ReadyInv /\ FilesInv /\ SeedPrinted

-----------------------------------------------------------------------------
(* Words.                                                                  *)

\* xor of words is a word.
LEMMA XorWord == ASSUME NEW a \in W64, NEW b \in W64 PROVE a ^^ b \in W64
  BY DEF W64, ^^

\* So is the xor of the first words of anything.
LEMMA XorFirstWord == \A data, n : XorFirst(data, n) \in W64
  BY DEF XorFirst, W64

\* The seed of a key and data is a word.
LEMMA SeedWord ==
  ASSUME NEW key \in Key, NEW data
  PROVE  SeedOf(key, data) \in W64
<1>1. key[1] \in W64 /\ key[2] \in W64
  BY DEF Key
<1>2. SeedConst ^^ key[1] \in W64
  BY <1>1, XorWord
<1>3. (SeedConst ^^ key[1]) ^^ key[2] \in W64
  BY <1>1, <1>2, XorWord
<1> QED BY <1>3, XorFirstWord, XorWord DEF SeedOf

\* What genNewEc2b solves for: the half of the key that makes the sum the seed.
LEMMA XorSolved ==
  ASSUME NEW x \in W64, NEW k \in W64, NEW s \in W64, NEW c \in W64
  PROVE  /\ (((x ^^ Bits) ^^ s) ^^ k) ^^ Not(c) \in W64
         /\ ((c ^^ ((((x ^^ Bits) ^^ s) ^^ k) ^^ Not(c))) ^^ k) ^^ x = s
  BY DEF W64, ^^, Not

\* The file made with the key that was solved for stands for the seed asked for.
LEMMA KeyForGives ==
  ASSUME NEW key \in Key, NEW data, NEW s \in W64
  PROVE  /\ KeyFor(key, data, s) \in Key
         /\ SeedOf(KeyFor(key, data, s), data) = s
<1> DEFINE x == XorFirst(data, DataWords)
<1>1. key[2] \in W64 /\ x \in W64 /\ SeedConst \in W64
  BY XorFirstWord DEF Key
<1>2. KeyFor(key, data, s) = << (((x ^^ Bits) ^^ s) ^^ key[2]) ^^ Not(SeedConst), key[2] >>
  BY DEF KeyFor
<1>3. SeedOf(KeyFor(key, data, s), data)
        = ((SeedConst ^^ ((((x ^^ Bits) ^^ s) ^^ key[2]) ^^ Not(SeedConst))) ^^ key[2]) ^^ x
  BY <1>2 DEF SeedOf
<1> HIDE DEF x
<1> QED BY <1>1, <1>2, <1>3, XorSolved DEF Key

\* Storing a key loses nothing.
LEMMA StoredKey ==
  ASSUME NEW key \in Key
  PROVE  Stored(key) \in Key /\ Transform[Stored(key)] = key
<1>1. \E s \in Key : Transform[s] = key
  BY TransformAssumption
<1> QED BY <1>1 DEF Stored

-----------------------------------------------------------------------------
(* genNewEc2b.                                                             *)

\* The file that genNewEc2b writes stands for the seed that it returns.
LEMMA Generated ==
  ASSUME TypeOK, NEW name \in Arg, NEW key \in Key, NEW data \in Data,
         NEW s, NEW getNewSeed \in BOOLEAN, getNewSeed \/ s \in W64,
         GenNewEc2b(name, key, data, s, getNewSeed)
  PROVE  /\ files' \in [Arg -> Contents] /\ seed' \in W64
         /\ \A a \in Arg : a # name => files'[a] = files[a]
         /\ files'[name].kind = "ec2b" /\ DerivedSeed(files'[name]) = seed'
<1> DEFINE newKey == IF getNewSeed THEN key ELSE KeyFor(key, data, s)
           file == Ec2bFile(Stored(newKey), data)
<1>1. newKey \in Key /\ SeedOf(newKey, data) = seed' /\ seed' \in W64
  <2>1. CASE getNewSeed
    BY <2>1, SeedWord DEF GenNewEc2b
  <2>2. CASE ~getNewSeed
    <3>1. s \in W64 /\ seed' = s /\ newKey = KeyFor(key, data, s)
      BY <2>2 DEF GenNewEc2b
    <3> QED BY <3>1, KeyForGives
  <2> QED BY <2>1, <2>2
<1>2. files' = [files EXCEPT ![name] = file]
  BY DEF GenNewEc2b
<1> HIDE DEF newKey
<1>3. Stored(newKey) \in Key /\ Transform[Stored(newKey)] = newKey
  BY <1>1, StoredKey
<1>4. file \in Contents /\ file.kind = "ec2b" /\ DerivedSeed(file) = seed'
  BY <1>1, <1>3 DEF Contents, Ec2bFile, DerivedSeed
<1>5. files \in [Arg -> Contents]
  BY DEF TypeOK
<1> HIDE DEF file
<1> QED BY <1>1, <1>2, <1>4, <1>5

-----------------------------------------------------------------------------
(* The steps.                                                              *)

\* A run starts with nothing changed and nothing printed.
LEMMA InitInv == Init => Ec2bInv
<1> SUFFICES ASSUME Init PROVE Ec2bInv
  OBVIOUS
<1>1. argv \in Seq(Arg) /\ Len(argv) \in Nat
  BY DEF Init
<1>2. TypeOK
  BY <1>1 DEF Init, TypeOK, NoOptions
<1>3. ReadyInv /\ FilesInv /\ SeedPrinted
  BY DEF Init, ReadyInv, FilesInv, SeedPrinted, NoOptions
<1> QED BY <1>2, <1>3 DEF Ec2bInv

\* A run that ends without a file written leaves what there was.
LEMMA EndsInv ==
  ASSUME Ec2bInv, pc \notin Ends, pc' \in Ends \ {"ok"},
         UNCHANGED <<files, before, mode, argv, i, opt, seed, in_ec2b>>
  PROVE  Ec2bInv'
<1>1. TypeOK'
  BY DEF Ec2bInv, TypeOK, Ends
<1>2. ReadyInv' /\ SeedPrinted'
  BY DEF Ec2bInv, ReadyInv, SeedPrinted, Needed, Ends
<1>3. FilesInv'
  BY DEF Ec2bInv, FilesInv, Target, output_to_input, Ends
<1> QED BY <1>1, <1>2, <1>3 DEF Ec2bInv

\* gen and xor create their output first.
LEMMA OpenInv == Ec2bInv /\ (GenOpen \/ XorOpen) => Ec2bInv'
<1> SUFFICES ASSUME Ec2bInv, GenOpen \/ XorOpen PROVE Ec2bInv'
  OBVIOUS
<1>1. PICK name \in Arg : files' = [files EXCEPT ![name] = Empty]
  <2>1. argv \in Seq(Arg) /\ Len(argv) \in Nat
    BY DEF Ec2bInv, TypeOK
  <2>2. CASE GenOpen
    <3>1. argv[1] \in Arg
      BY <2>1, <2>2 DEF GenOpen, Needed
    <3> QED BY <2>2, <3>1 DEF GenOpen
  <2>3. CASE XorOpen
    <3>1. argv[2] \in Arg
      BY <2>1, <2>3 DEF XorOpen, Needed
    <3> QED BY <2>3, <3>1 DEF XorOpen
  <2> QED BY <2>2, <2>3
<1>2. /\ mode \in {"gen", "xor"} /\ mode' = mode /\ pc = "begin" /\ pc' = "write"
      /\ Len(argv) >= Needed
      /\ UNCHANGED <<before, mode, argv, i, opt, seed, in_ec2b>>
  BY DEF GenOpen, XorOpen, Goto
<1>3. TypeOK'
  <2>1. files' \in [Arg -> Contents]
    BY <1>1 DEF Ec2bInv, TypeOK, Contents
  <2> QED BY <1>2, <2>1 DEF Ec2bInv, TypeOK
<1>4. ReadyInv' /\ FilesInv' /\ SeedPrinted'
  BY <1>2 DEF Ec2bInv, ReadyInv, FilesInv, SeedPrinted, Needed
<1> QED BY <1>3, <1>4 DEF Ec2bInv

\* gen writes its file.
LEMMA GenWriteInv == Ec2bInv /\ GenWrite => Ec2bInv'
<1> SUFFICES ASSUME Ec2bInv, GenWrite PROVE Ec2bInv'
  OBVIOUS
<1>1. /\ pc = "write" /\ mode = "gen" /\ pc' = "ok" /\ mode' = "gen"
      /\ UNCHANGED <<before, mode, argv, i, opt, in_ec2b>>
  BY DEF GenWrite, Goto
<1>2. argv[1] \in Arg /\ Len(argv) >= Needed
  BY <1>1 DEF Ec2bInv, ReadyInv, TypeOK, Needed
<1>3. PICK key \in Key, data \in Data : GenNewEc2b(argv[1], key, data, NULL, TRUE)
  BY DEF GenWrite
<1>4. /\ files' \in [Arg -> Contents] /\ seed' \in W64
      /\ files'[argv[1]].kind = "ec2b" /\ DerivedSeed(files'[argv[1]]) = seed'
  BY <1>2, <1>3, Generated DEF Ec2bInv
<1>5. TypeOK'
  BY <1>1, <1>4 DEF Ec2bInv, TypeOK, Ends
<1>6. SeedPrinted'
  BY <1>1, <1>4 DEF SeedPrinted, DerivedSeed
<1>7. ReadyInv' /\ FilesInv'
  <2>1. Needed' = Needed /\ Len(argv') = Len(argv)
    BY <1>1 DEF Needed
  <2> QED BY <1>1, <1>2, <1>4, <2>1 DEF ReadyInv, FilesInv
<1> QED BY <1>5, <1>6, <1>7 DEF Ec2bInv

\* xor writes the pad, or nothing.
LEMMA XorWriteInv == Ec2bInv /\ XorWrite => Ec2bInv'
<1> SUFFICES ASSUME Ec2bInv, XorWrite PROVE Ec2bInv'
  OBVIOUS
<1>1. /\ pc = "write" /\ mode = "xor" /\ mode' = "xor" /\ pc' \in {"ok", "fail"}
      /\ UNCHANGED <<before, mode, argv, i, opt, seed, in_ec2b>>
  BY DEF XorWrite, Goto
<1>2. /\ argv[1] \in Arg /\ argv[2] \in Arg /\ Len(argv) >= Needed
      /\ files \in [Arg -> Contents]
  BY <1>1 DEF Ec2bInv, ReadyInv, TypeOK, Needed
<1>3. files' \in [Arg -> Contents]
  <2>1. CASE files[argv[1]].kind = "ec2b"
    <3>1. files[argv[1]].key \in Key
      BY <1>2, <2>1 DEF Contents, NoFile, Empty, Other
    <3>2. DerivedSeed(files[argv[1]]) \in W64
      BY <3>1, SeedWord, TransformAssumption DEF DerivedSeed
    <3>3. PadFile(DerivedSeed(files[argv[1]])) \in Contents
      BY <3>2 DEF PadFile, Contents
    <3> QED BY <1>2, <2>1, <3>3 DEF XorWrite
  <2>2. CASE files[argv[1]].kind # "ec2b"
    BY <1>2, <2>2 DEF XorWrite
  <2> QED BY <2>1, <2>2
<1>4. TypeOK'
  BY <1>1, <1>3 DEF Ec2bInv, TypeOK, Ends
<1>5. ReadyInv' /\ FilesInv' /\ SeedPrinted'
  <2>1. Needed' = Needed
    BY <1>1 DEF Needed
  <2> QED BY <1>1, <1>2, <2>1 DEF Ec2bInv, ReadyInv, FilesInv, SeedPrinted
<1> QED BY <1>4, <1>5 DEF Ec2bInv

\* Reading the arguments changes opt, seed and i only.
LEMMA ParseInv ==
  ASSUME Ec2bInv, pc \in {"begin", "parse"}, pc' \in {"parse", "help", "fail", "killed"},
         UNCHANGED <<files, before, mode, argv, in_ec2b>>, mode = "edit",
         i' \in 1 .. Len(argv) + 2,
         opt' \in [in_file : Arg \cup {NULL}, out_file : Arg \cup {NULL},
                   gen_key : BOOLEAN, gen_data : BOOLEAN, gen_seed : BOOLEAN,
                   new_seed : BOOLEAN],
         seed' \in W64 \cup {NULL}, opt'.new_seed => seed' \in W64
  PROVE  Ec2bInv'
<1>1. TypeOK'
  BY DEF Ec2bInv, TypeOK, Ends
<1>2. ReadyInv' /\ SeedPrinted'
  BY DEF ReadyInv, SeedPrinted
<1>3. FilesInv'
  <2>1. \A a \in Arg : files[a] = before[a]
    BY DEF Ec2bInv, FilesInv
  <2> QED BY <2>1 DEF FilesInv
<1> QED BY <1>1, <1>2, <1>3 DEF Ec2bInv

\* Every branch of the loop over the arguments does no more than that.
LEMMA BranchesInv ==
  Ec2bInv /\ (EditBegin \/ Help \/ GenKey \/ GenData \/ GenSeed \/ NewSeed
              \/ OutFile \/ InFile \/ Input) => Ec2bInv'
<1> SUFFICES ASSUME Ec2bInv,
                    EditBegin \/ Help \/ GenKey \/ GenData \/ GenSeed \/ NewSeed
                      \/ OutFile \/ InFile \/ Input
             PROVE  Ec2bInv'
  OBVIOUS
<1> DEFINE Opts == [in_file : Arg \cup {NULL}, out_file : Arg \cup {NULL},
                    gen_key : BOOLEAN, gen_data : BOOLEAN, gen_seed : BOOLEAN,
                    new_seed : BOOLEAN]
<1>1. /\ argv \in Seq(Arg) /\ Len(argv) \in Nat /\ i \in 1 .. Len(argv) + 2 /\ i \in Nat
      /\ opt \in Opts /\ seed \in W64 \cup {NULL} /\ (opt.new_seed => seed \in W64)
      /\ (pc \in {"parse", "read"} => mode = "edit")
  BY DEF Ec2bInv, TypeOK, ReadyInv
<1>2. \A k \in Nat \ {0} : ArgAt(k) \in Arg \cup {NULL}
  BY <1>1 DEF ArgAt
<1>3. i + 1 \in Nat \ {0} /\ ArgAt(i + 1) \in Arg \cup {NULL}
  BY <1>1, <1>2
<1>4. ASSUME NEW a, NEW n \in 0 .. 2, Turn(a, n)
      PROVE  /\ pc = "parse" /\ mode = "edit" /\ i \in 1 .. Len(argv)
             /\ i' \in 1 .. Len(argv) + 2
             /\ UNCHANGED <<files, before, mode, argv, in_ec2b>>
  BY <1>1, <1>4 DEF Turn
<1>5. CASE EditBegin
  BY <1>1, <1>5, ParseInv DEF EditBegin, Goto
<1>6. CASE Help
  BY <1>1, <1>4, <1>6, ParseInv DEF Help, Goto
<1>7. CASE GenKey \/ GenData \/ GenSeed
  <2>1. Turn("-k", 1) \/ Turn("-d", 1) \/ Turn("-s", 1)
    BY <1>7 DEF GenKey, GenData, GenSeed
  <2>2. pc = "parse" /\ mode = "edit" /\ i' \in 1 .. Len(argv) + 2
        /\ UNCHANGED <<files, before, mode, argv, in_ec2b>>
    BY <1>4, <2>1
  <2>3. opt' \in Opts /\ opt'.new_seed = opt.new_seed /\ seed' = seed /\ pc' = pc
    BY <1>1, <1>7 DEF GenKey, GenData, GenSeed
  <2> QED BY <1>1, <2>2, <2>3, ParseInv
<1>8. CASE NewSeed
  <2>1. pc = "parse" /\ mode = "edit" /\ i' \in 1 .. Len(argv) + 2
        /\ UNCHANGED <<files, before, mode, argv, in_ec2b>>
    BY <1>4, <1>8 DEF NewSeed
  <2>2. CASE ArgAt(i + 1) \in DOMAIN Numbers /\ seed' = Numbers[ArgAt(i + 1)]
             /\ opt' = [opt EXCEPT !.new_seed = TRUE, !.gen_seed = FALSE] /\ pc' = pc
    <3>1. seed' \in W64
      BY <2>2
    <3>2. opt' \in Opts
      BY <1>1, <2>2
    <3> QED BY <2>1, <2>2, <3>1, <3>2, ParseInv
  <2>3. CASE pc' \in {"fail", "killed"} /\ opt' = opt /\ seed' = seed
    BY <1>1, <2>1, <2>3, ParseInv
  <2> QED BY <1>8, <2>2, <2>3 DEF NewSeed, Goto
<1>9. CASE OutFile \/ InFile
  <2>1. pc = "parse" /\ mode = "edit" /\ i' \in 1 .. Len(argv) + 2
        /\ UNCHANGED <<files, before, mode, argv, in_ec2b>>
    BY <1>4, <1>9 DEF OutFile, InFile
  <2>2. opt' \in Opts /\ opt'.new_seed = opt.new_seed /\ seed' = seed /\ pc' = pc
    BY <1>1, <1>3, <1>9 DEF OutFile, InFile
  <2> QED BY <1>1, <2>1, <2>2, ParseInv
<1>10. CASE Input
  <2>1. pc = "parse" /\ mode = "edit" /\ i' \in 1 .. Len(argv) + 2 /\ i \in 1 .. Len(argv)
        /\ UNCHANGED <<files, before, mode, argv, in_ec2b>>
    BY <1>4, <1>10 DEF Input
  <2>2. opt' \in Opts /\ opt'.new_seed = opt.new_seed /\ seed' = seed
        /\ pc' \in {"parse", "fail"}
    <3>1. argv[i] \in Arg
      BY <1>1, <2>1
    <3> QED BY <1>1, <1>10, <2>1, <3>1 DEF Input, Goto
  <2> QED BY <1>1, <2>1, <2>2, ParseInv
<1> QED BY <1>5, <1>6, <1>7, <1>8, <1>9, <1>10

\* The output of an edit is created unless it is the input.
LEMMA EditOpenInv == Ec2bInv /\ EditOpen => Ec2bInv'
<1> SUFFICES ASSUME Ec2bInv, EditOpen PROVE Ec2bInv'
  OBVIOUS
<1>1. /\ pc = "parse" /\ mode = "edit" /\ pc' \in {"read", "fail"}
      /\ opt.in_file # NULL
      /\ UNCHANGED <<before, mode, argv, i, opt, seed, in_ec2b>>
  BY DEF EditOpen, Goto, Ec2bInv, ReadyInv
<1>2. /\ files \in [Arg -> Contents] /\ \A a \in Arg : files[a] = before[a]
      /\ opt.in_file \in Arg /\ opt.out_file \in Arg \cup {NULL}
  BY <1>1 DEF Ec2bInv, TypeOK, FilesInv
<1>3. CASE files' = files
  <2>1. TypeOK'
    BY <1>1, <1>3 DEF Ec2bInv, TypeOK, Ends
  <2>2. ReadyInv' /\ FilesInv' /\ SeedPrinted'
    BY <1>1, <1>2, <1>3 DEF Ec2bInv, ReadyInv, FilesInv, SeedPrinted
  <2> QED BY <2>1, <2>2 DEF Ec2bInv
<1>4. CASE pc' = "read" /\ files' = Created /\ ~output_to_input
  <2>1. opt.out_file \in Arg /\ Target = opt.out_file
    BY <1>2, <1>4 DEF output_to_input, Target
  <2>2. files' = [files EXCEPT ![opt.out_file] = Empty]
    BY <1>4 DEF Created
  <2>3. TypeOK'
    <3>1. files' \in [Arg -> Contents]
      BY <1>2, <2>2 DEF Contents
    <3> QED BY <1>1, <1>4, <3>1 DEF Ec2bInv, TypeOK
  <2>4. Target' = Target /\ output_to_input' = output_to_input
    BY <1>1 DEF Target, output_to_input
  <2>5. FilesInv'
    BY <1>1, <1>2, <1>4, <2>1, <2>2, <2>4 DEF FilesInv
  <2>6. ReadyInv' /\ SeedPrinted'
    BY <1>1, <1>4 DEF Ec2bInv, ReadyInv, SeedPrinted
  <2> QED BY <2>3, <2>5, <2>6 DEF Ec2bInv
<1> QED BY <1>3, <1>4 DEF EditOpen, Created, Goto

\* The input is an .ec2b, or the edit fails.
LEMMA EditReadInv == Ec2bInv /\ EditRead => Ec2bInv'
<1> SUFFICES ASSUME Ec2bInv, EditRead PROVE Ec2bInv'
  OBVIOUS
<1>1. /\ pc = "read" /\ mode = "edit" /\ UNCHANGED <<files, before, mode, argv, i, opt, seed>>
      /\ opt.in_file \in Arg /\ files \in [Arg -> Contents]
  BY DEF EditRead, Ec2bInv, ReadyInv, TypeOK
<1>2. Target' = Target /\ output_to_input' = output_to_input
  BY <1>1 DEF Target, output_to_input
<1>3. CASE files[opt.in_file].kind = "ec2b"
  <2>1. in_ec2b' = files[opt.in_file] /\ pc' = "write"
    BY <1>3 DEF EditRead, Goto
  <2>2. in_ec2b' \in [kind : {"ec2b"}, key : Key, data : Data]
    BY <1>1, <1>3, <2>1 DEF Contents, NoFile, Empty, Other
  <2>3. TypeOK'
    BY <1>1, <2>1, <2>2 DEF Ec2bInv, TypeOK
  <2>4. FilesInv'
    BY <1>1, <1>2, <2>1 DEF Ec2bInv, FilesInv
  <2>5. ReadyInv' /\ SeedPrinted'
    BY <1>1, <2>1, <2>2 DEF Ec2bInv, ReadyInv, SeedPrinted
  <2> QED BY <2>3, <2>4, <2>5 DEF Ec2bInv
<1>4. CASE files[opt.in_file].kind # "ec2b"
  BY <1>1, <1>4, EndsInv DEF EditRead, Goto, Ends
<1> QED BY <1>3, <1>4

\* The edit writes its target.
LEMMA EditWriteInv == Ec2bInv /\ EditWrite => Ec2bInv'
<1> SUFFICES ASSUME Ec2bInv, EditWrite PROVE Ec2bInv'
  OBVIOUS
<1>1. /\ pc = "write" /\ mode = "edit" /\ pc' = "ok"
      /\ UNCHANGED <<before, mode, argv, i, opt, in_ec2b>>
      /\ opt.in_file \in Arg /\ Target \in Arg
      /\ in_ec2b \in [kind : {"ec2b"}, key : Key, data : Data]
  BY DEF EditWrite, Goto, Ec2bInv, ReadyInv, TypeOK, Target, output_to_input
<1>2. PICK key \in KeptKeys, data \in KeptDatas, s \in Seeds :
        GenNewEc2b(Target, key, data, s, ~(opt.new_seed \/ opt.gen_seed))
  BY DEF EditWrite
<1>3. key \in Key /\ data \in Data
  <2>1. Transform[in_ec2b.key] \in Key
    BY <1>1, TransformAssumption
  <2> QED BY <1>1, <1>2, <2>1 DEF KeptKeys, KeptDatas
<1>4. opt.new_seed \/ opt.gen_seed => s \in W64
  BY <1>2 DEF Seeds, Ec2bInv, ReadyInv
<1>5. /\ files' \in [Arg -> Contents] /\ seed' \in W64
      /\ \A a \in Arg : a # Target => files'[a] = files[a]
      /\ files'[Target].kind = "ec2b" /\ DerivedSeed(files'[Target]) = seed'
  <2>1. (~(opt.new_seed \/ opt.gen_seed)) \in BOOLEAN
    OBVIOUS
  <2> QED BY <1>1, <1>2, <1>3, <1>4, <2>1, Generated DEF Ec2bInv
<1>6. Target' = Target
  BY <1>1 DEF Target, output_to_input
<1>7. TypeOK'
  BY <1>1, <1>5 DEF Ec2bInv, TypeOK, Ends
<1>8. FilesInv'
  BY <1>1, <1>5, <1>6 DEF Ec2bInv, FilesInv
<1>9. ReadyInv' /\ SeedPrinted'
  BY <1>1, <1>5, <1>6 DEF ReadyInv, SeedPrinted, DerivedSeed
<1> QED BY <1>7, <1>8, <1>9 DEF Ec2bInv

\* Every step of the command keeps the invariant.
LEMMA NextInv == Ec2bInv /\ [Next]_vars => Ec2bInv'
<1> SUFFICES ASSUME Ec2bInv, [Next]_vars PROVE Ec2bInv'
  OBVIOUS
<1>1. CASE TooFew \/ CannotOpen \/ NothingToEdit \/ Killed
  <2>1. /\ pc \notin Ends /\ pc' \in Ends \ {"ok"}
        /\ UNCHANGED <<files, before, mode, argv, i, opt, seed, in_ec2b>>
    BY <1>1 DEF TooFew, CannotOpen, NothingToEdit, Killed, Goto, Ends
  <2> QED BY <2>1, EndsInv
<1>2. CASE GenOpen \/ XorOpen
  BY <1>2, OpenInv
<1>3. CASE GenWrite
  BY <1>3, GenWriteInv
<1>4. CASE XorWrite
  BY <1>4, XorWriteInv
<1>5. CASE EditBegin \/ Help \/ GenKey \/ GenData \/ GenSeed \/ NewSeed
           \/ OutFile \/ InFile \/ Input
  BY <1>5, BranchesInv
<1>6. CASE EditOpen
  BY <1>6, EditOpenInv
<1>7. CASE EditRead
  BY <1>7, EditReadInv
<1>8. CASE EditWrite
  BY <1>8, EditWriteInv
<1>9. CASE UNCHANGED vars
  <2>1. UNCHANGED <<files, before, mode, argv, pc, i, opt, seed, in_ec2b>>
    BY <1>9 DEF vars
  <2>2. TypeOK'
    BY <2>1 DEF Ec2bInv, TypeOK
  <2>3. ReadyInv'
    BY <2>1 DEF Ec2bInv, ReadyInv, Needed
  <2>4. FilesInv'
    BY <2>1 DEF Ec2bInv, FilesInv, Target, output_to_input
  <2>5. SeedPrinted'
    BY <2>1 DEF Ec2bInv, SeedPrinted, Target, output_to_input, DerivedSeed
  <2> QED BY <2>2, <2>3, <2>4, <2>5 DEF Ec2bInv
<1> QED BY <1>1, <1>2, <1>3, <1>4, <1>5, <1>6, <1>7, <1>8, <1>9 DEF Next

-----------------------------------------------------------------------------
(* The arguments.                                                          *)

\* The options met so far.
Seen(o) == {p \in Gives(o) : p < i}

\* What the loop over argv has recorded: each option once it was met, and of
\* the seeds given the last.
OptInv ==
  mode = "edit" =>
    /\ pc = "begin" => i = 1 /\ opt = NoOptions
    /\ pc \in {"parse", "read", "write", "ok"} =>
         /\ i \in DOMAIN argv => TakesNext(argv)[i - 1] = 0
         /\ pc # "parse" => i > Len(argv)
         /\ opt.gen_key <=> Seen("-k") # {}
         /\ opt.gen_data <=> Seen("-d") # {}
         /\ opt.new_seed <=> Seen("-S") # {}
         /\ opt.gen_seed => Seen("-s") # {} /\ ~opt.new_seed
         /\ opt.new_seed =>
              \E p \in Seen("-S") : /\ \A q \in Seen("-S") : q <= p
                                    /\ argv[p + 1] \in DOMAIN Numbers
                                    /\ seed = Numbers[argv[p + 1]]

\* What the edit takes over from its input.
KeptInv ==
  mode = "edit" =>
    /\ pc = "write" => in_ec2b = before[opt.in_file]
    /\ pc = "ok" =>
         LET old == before[opt.in_file]
             new == files[Target]
         IN  /\ ~opt.gen_data => new.data = old.data
             /\ ~opt.gen_key => Transform[new.key][2] = Transform[old.key][2]
             /\ ~(opt.gen_key \/ opt.gen_seed \/ opt.new_seed) => new.key = old.key

\* The recursion of TakesNext has a solution, and TakesNext is one.
LEMMA TakesNextDef ==
  ASSUME NEW args \in Seq(Arg)
  PROVE  /\ TakesNext(args)[0] = 0
         /\ \A p \in 1 .. Len(args) :
              TakesNext(args)[p] =
                IF TakesNext(args)[p - 1] = 0 /\ args[p] \in {"-S", "-o", "-i"} THEN 1 ELSE 0
<1> DEFINE n == Len(args)
           S == {0, 1}
           takes(p) == args[p] \in {"-S", "-o", "-i"}
           step == [p \in 1 .. n |-> [x \in S |-> IF x = 0 /\ takes(p) THEN 1 ELSE 0]]
           R(u) == u = [p \in 0 .. n |->
                          IF p = 0 THEN 0 ELSE IF u[p - 1] = 0 /\ takes(p) THEN 1 ELSE 0]
<1>1. n \in Nat /\ 0 \in S
  OBVIOUS
<1>2. step \in [1 .. n -> [S -> S]]
  OBVIOUS
<1>3. PICK t \in [0 .. n -> S] : Recurs(t, n, 0, step)
  <2> HIDE DEF step, n, S
  <2> QED BY <1>1, <1>2, Recursion
<1>4. R(t)
  <2>1. \A p \in 0 .. n : t[p] = IF p = 0 THEN 0 ELSE step[p][t[p - 1]]
    <3> HIDE DEF step, n
    <3> QED BY <1>3, Zenon DEF Recurs
  <2>2. \A p \in 0 .. n : p # 0 => p \in 1 .. n /\ t[p - 1] \in S
    <3>1. \A p \in 0 .. n : p # 0 => p \in 1 .. n /\ p - 1 \in 0 .. n
      BY <1>1
    <3> HIDE DEF n, S
    <3> QED BY <3>1
  <2>3. \A p \in 1 .. n : \A x \in S : step[p][x] = IF x = 0 /\ takes(p) THEN 1 ELSE 0
    OBVIOUS
  <2> HIDE DEF step, n, S, takes
  <2>4. \A p \in 0 .. n : t[p] = IF p = 0 THEN 0 ELSE IF t[p - 1] = 0 /\ takes(p) THEN 1 ELSE 0
    BY <2>1, <2>2, <2>3, Zenon
  <2> QED BY <2>4
<1>5. R(TakesNext(args))
  <2>1. TakesNext(args) = CHOOSE u : R(u)
    BY DEF TakesNext
  <2> HIDE DEF R
  <2> QED BY <1>4, <2>1, Zenon
<1>6. \A p \in 0 .. n : TakesNext(args)[p] =
        IF p = 0 THEN 0 ELSE IF TakesNext(args)[p - 1] = 0 /\ takes(p) THEN 1 ELSE 0
  <2> HIDE DEF n, takes
  <2> QED BY <1>5, Zenon
<1>7. 0 \in 0 .. n /\ \A p \in 1 .. n : p \in 0 .. n /\ p # 0
  OBVIOUS
<1>8. TakesNext(args)[0] = 0
  <2> HIDE DEF n
  <2> QED BY <1>6, <1>7, Zenon
<1>9. ASSUME NEW p \in 1 .. n
      PROVE  TakesNext(args)[p] = IF TakesNext(args)[p - 1] = 0 /\ takes(p) THEN 1 ELSE 0
  <2> HIDE DEF n, takes
  <2> QED BY <1>6, <1>7
<1> QED BY <1>8, <1>9

\* A turn of the loop meets the argument it looks at and no other, and goes on
\* at an option.
LEMMA TurnSeen ==
  ASSUME argv \in Seq(Arg), i \in 1 .. Len(argv) + 2,
         i \in DOMAIN argv => TakesNext(argv)[i - 1] = 0,
         NEW a, NEW n, n = IF a \in {"-S", "-o", "-i"} THEN 2 ELSE 1, Turn(a, n)
  PROVE  /\ i \in DOMAIN argv /\ argv[i] = a /\ pc = "parse"
         /\ i' \in DOMAIN argv' => TakesNext(argv')[i' - 1] = 0
         /\ \A o : Seen(o)' = Seen(o) \cup (IF o = a THEN {i} ELSE {})
<1> DEFINE T == TakesNext(argv)
<1>1. /\ argv' = argv /\ i' = i + n /\ i \in 1 .. Len(argv) /\ argv[i] = a
      /\ DOMAIN argv = 1 .. Len(argv) /\ pc = "parse" /\ Len(argv) \in Nat
  BY DEF Turn
<1>2. T[i - 1] = 0
  BY <1>1
<1>3. \A p \in 1 .. Len(argv) : T[p] = IF T[p - 1] = 0 /\ argv[p] \in {"-S", "-o", "-i"} THEN 1 ELSE 0
  BY TakesNextDef, Zenon
<1>4. T[i] = IF a \in {"-S", "-o", "-i"} THEN 1 ELSE 0
  BY <1>1, <1>2, <1>3
<1>5. i' \in DOMAIN argv' => TakesNext(argv')[i' - 1] = 0
  <2> SUFFICES ASSUME i' \in DOMAIN argv PROVE T[i' - 1] = 0
    BY <1>1
  <2>1. CASE a \in {"-S", "-o", "-i"}
    <3>1. i' - 1 = i + 1 /\ i + 1 \in 1 .. Len(argv) /\ (i + 1) - 1 = i
      BY <1>1, <2>1
    <3>2. T[i] = 1
      BY <1>4, <2>1
    <3> HIDE DEF T
    <3>3. T[i + 1] = 0
      BY <1>3, <3>1, <3>2
    <3> QED BY <3>1, <3>3
  <2>2. CASE a \notin {"-S", "-o", "-i"}
    BY <1>1, <1>4, <2>2
  <2> QED BY <2>1, <2>2
<1>6. ASSUME NEW o PROVE Seen(o)' = Seen(o) \cup (IF o = a THEN {i} ELSE {})
  <2>1. Seen(o)' = {p \in 1 .. Len(argv) : argv[p] = o /\ T[p - 1] = 0 /\ p < i + n}
    BY <1>1 DEF Seen, Gives
  <2>2. Seen(o) = {p \in 1 .. Len(argv) : argv[p] = o /\ T[p - 1] = 0 /\ p < i}
    BY <1>1 DEF Seen, Gives
  <2> HIDE DEF T
  <2>3. \A p \in 1 .. Len(argv) : p < i + n <=> p < i \/ p = i \/ (p = i + 1 /\ n = 2)
    BY <1>1
  <2>4. \A p : p = i + 1 => p - 1 = i
    BY <1>1
  <2>5. n = 2 => T[i] # 0
    BY <1>4
  <2>6. \A p \in 1 .. Len(argv) :
          argv[p] = o /\ T[p - 1] = 0 /\ p < i + n
            <=> (argv[p] = o /\ T[p - 1] = 0 /\ p < i) \/ (p = i /\ o = a)
    <3> SUFFICES ASSUME NEW p \in 1 .. Len(argv)
                 PROVE  argv[p] = o /\ T[p - 1] = 0 /\ p < i + n
                          <=> (argv[p] = o /\ T[p - 1] = 0 /\ p < i) \/ (p = i /\ o = a)
      OBVIOUS
    <3>1. p < i + n <=> p < i \/ p = i \/ (p = i + 1 /\ n = 2)
      BY <2>3
    <3>2. p = i + 1 /\ n = 2 => T[p - 1] # 0
      BY <2>4, <2>5
    <3> QED BY <1>1, <1>2, <3>1, <3>2
  <2> QED BY <1>1, <2>1, <2>2, <2>6
<1> QED BY <1>1, <1>5, <1>6

\* Every branch of the loop records what it met.
LEMMA BranchesOpt ==
  Ec2bInv /\ OptInv /\ (GenKey \/ GenData \/ GenSeed \/ NewSeed \/ OutFile \/ InFile \/ Input)
    => OptInv'
<1> SUFFICES ASSUME Ec2bInv, OptInv,
                    GenKey \/ GenData \/ GenSeed \/ NewSeed \/ OutFile \/ InFile \/ Input
             PROVE  OptInv'
  OBVIOUS
<1> DEFINE Branch(a, n) ==
      /\ n = (IF a \in {"-S", "-o", "-i"} THEN 2 ELSE 1) /\ Turn(a, n)
      /\ \/ GenKey /\ a = "-k"
         \/ GenData /\ a = "-d"
         \/ GenSeed /\ a = "-s"
         \/ NewSeed /\ a = "-S"
         \/ OutFile /\ a = "-o"
         \/ InFile /\ a = "-i"
         \/ Input /\ a \notin Options
<1>1. PICK a, n : Branch(a, n)
  <2>1. CASE GenKey
    <3>1. Turn("-k", 1)
      BY <2>1 DEF GenKey
    <3>2. Branch("-k", 1)
      BY <2>1, <3>1
    <3> HIDE DEF Branch
    <3> QED BY <3>2
  <2>2. CASE GenData
    <3>1. Turn("-d", 1)
      BY <2>2 DEF GenData
    <3>2. Branch("-d", 1)
      BY <2>2, <3>1
    <3> HIDE DEF Branch
    <3> QED BY <3>2
  <2>3. CASE GenSeed
    <3>1. Turn("-s", 1)
      BY <2>3 DEF GenSeed
    <3>2. Branch("-s", 1)
      BY <2>3, <3>1
    <3> HIDE DEF Branch
    <3> QED BY <3>2
  <2>4. CASE NewSeed
    <3>1. Turn("-S", 2)
      BY <2>4 DEF NewSeed
    <3>2. Branch("-S", 2)
      BY <2>4, <3>1
    <3> HIDE DEF Branch
    <3> QED BY <3>2
  <2>5. CASE OutFile
    <3>1. Turn("-o", 2)
      BY <2>5 DEF OutFile
    <3>2. Branch("-o", 2)
      BY <2>5, <3>1
    <3> HIDE DEF Branch
    <3> QED BY <3>2
  <2>6. CASE InFile
    <3>1. Turn("-i", 2)
      BY <2>6 DEF InFile
    <3>2. Branch("-i", 2)
      BY <2>6, <3>1
    <3> HIDE DEF Branch
    <3> QED BY <3>2
  <2>7. CASE Input
    <3>1. PICK b \in Arg \ Options : Turn(b, 1)
      BY <2>7 DEF Input
    <3>2. Branch(b, 1)
      BY <2>7, <3>1 DEF Options
    <3> HIDE DEF Branch
    <3> QED BY <3>2
  <2> QED BY <2>1, <2>2, <2>3, <2>4, <2>5, <2>6, <2>7
<1>2. /\ argv \in Seq(Arg) /\ i \in 1 .. Len(argv) + 2 /\ mode = "edit" /\ mode' = "edit"
      /\ pc = "parse" /\ argv' = argv /\ opt.gen_seed \in BOOLEAN
      /\ opt \in [in_file : Arg \cup {NULL}, out_file : Arg \cup {NULL},
              gen_key : BOOLEAN, gen_data : BOOLEAN, gen_seed : BOOLEAN,
              new_seed : BOOLEAN]
  BY <1>1 DEF Turn, Ec2bInv, TypeOK, ReadyInv
<1>3. /\ i \in DOMAIN argv => TakesNext(argv)[i - 1] = 0
      /\ opt.gen_key <=> Seen("-k") # {}
      /\ opt.gen_data <=> Seen("-d") # {}
      /\ opt.new_seed <=> Seen("-S") # {}
      /\ opt.gen_seed => Seen("-s") # {} /\ ~opt.new_seed
      /\ opt.new_seed =>
           \E p \in Seen("-S") : /\ \A q \in Seen("-S") : q <= p
                                 /\ argv[p + 1] \in DOMAIN Numbers
                                 /\ seed = Numbers[argv[p + 1]]
  BY <1>2 DEF OptInv
<1>4. /\ i \in DOMAIN argv /\ argv[i] = a
      /\ i' \in DOMAIN argv' => TakesNext(argv')[i' - 1] = 0
      /\ \A o : Seen(o)' = Seen(o) \cup (IF o = a THEN {i} ELSE {})
  BY <1>1, <1>2, <1>3, TurnSeen
<1>5. /\ Seen("-k")' = Seen("-k") \cup (IF a = "-k" THEN {i} ELSE {})
      /\ Seen("-d")' = Seen("-d") \cup (IF a = "-d" THEN {i} ELSE {})
      /\ Seen("-s")' = Seen("-s") \cup (IF a = "-s" THEN {i} ELSE {})
      /\ Seen("-S")' = Seen("-S") \cup (IF a = "-S" THEN {i} ELSE {})
  BY <1>4
<1>6. CASE pc' # "parse"
  <2>1. pc' \in {"fail", "killed"}
    BY <1>1, <1>2, <1>6 DEF GenKey, GenData, GenSeed, NewSeed, OutFile, InFile, Input, Goto
  <2> QED BY <2>1 DEF OptInv
<1>7. CASE pc' = "parse" /\ a # "-S"
  <2>1. seed' = seed /\ opt'.new_seed = opt.new_seed /\ Seen("-S")' = Seen("-S")
    BY <1>1, <1>2, <1>5, <1>7 DEF GenKey, GenData, GenSeed, OutFile, InFile, Input
  <2>2. opt'.gen_key <=> opt.gen_key \/ a = "-k"
    BY <1>1, <1>2, <1>7 DEF GenKey, GenData, GenSeed, OutFile, InFile, Input, Options
  <2>3. opt'.gen_data <=> opt.gen_data \/ a = "-d"
    BY <1>1, <1>2, <1>7 DEF GenKey, GenData, GenSeed, OutFile, InFile, Input, Options
  <2>4. opt'.gen_seed => opt.gen_seed \/ (a = "-s" /\ ~opt.new_seed)
    BY <1>1, <1>2, <1>7 DEF GenKey, GenData, GenSeed, OutFile, InFile, Input, Options
  <2>5. /\ opt'.gen_key <=> Seen("-k")' # {}
        /\ opt'.gen_data <=> Seen("-d")' # {}
        /\ opt'.new_seed <=> Seen("-S")' # {}
        /\ opt'.gen_seed => Seen("-s")' # {} /\ ~opt'.new_seed
    BY <1>3, <1>5, <2>1, <2>2, <2>3, <2>4
  <2>6. opt'.new_seed =>
          \E p \in Seen("-S")' : /\ \A q \in Seen("-S")' : q <= p
                                 /\ argv'[p + 1] \in DOMAIN Numbers
                                 /\ seed' = Numbers[argv'[p + 1]]
    BY <1>2, <1>3, <2>1
  <2> QED BY <1>2, <1>4, <1>7, <2>5, <2>6 DEF OptInv
<1>8. CASE pc' = "parse" /\ a = "-S"
  <2>1. NewSeed /\ ArgAt(i + 1) \in DOMAIN Numbers /\ seed' = Numbers[ArgAt(i + 1)]
        /\ opt' = [opt EXCEPT !.new_seed = TRUE, !.gen_seed = FALSE]
    BY <1>1, <1>8 DEF NewSeed, Options, Goto
  <2>2. opt'.new_seed /\ ~opt'.gen_seed /\ opt'.gen_key = opt.gen_key
        /\ opt'.gen_data = opt.gen_data
    BY <1>2, <2>1
  <2>3. ArgAt(i + 1) = argv[i + 1]
    <3>1. ArgAt(i + 1) \in Arg
      BY <2>1, ArgsAssumption
    <3> QED BY <3>1, ArgsAssumption DEF ArgAt
  <2>4. \A q \in Seen("-S")' : q <= i
    <3>1. \A q \in Seen("-S") : q \in Int /\ q < i
      BY <1>2 DEF Seen, Gives
    <3> QED BY <1>2, <1>5, <3>1
  <2>5. i \in Seen("-S")' /\ Seen("-k")' = Seen("-k") /\ Seen("-d")' = Seen("-d")
    BY <1>5, <1>8
  <2>6. \E p \in Seen("-S")' : /\ \A q \in Seen("-S")' : q <= p
                               /\ argv'[p + 1] \in DOMAIN Numbers
                               /\ seed' = Numbers[argv'[p + 1]]
    BY <1>2, <2>1, <2>3, <2>4, <2>5
  <2> QED BY <1>2, <1>3, <1>4, <1>8, <2>2, <2>5, <2>6 DEF OptInv
<1> QED BY <1>6, <1>7, <1>8

\* Every step keeps what the loop recorded; genNewEc2b keeps a seed that was given.
LEMMA NextOpt == Ec2bInv /\ OptInv /\ [Next]_vars => OptInv'
<1> SUFFICES ASSUME Ec2bInv, OptInv, [Next]_vars, mode = "edit" PROVE OptInv'
  <2>1. [Next]_vars => mode' = mode
    BY DEF Next, vars, TooFew, CannotOpen, GenOpen, GenWrite, XorOpen, XorWrite, EditBegin,
           Help, GenKey, GenData, GenSeed, NewSeed, OutFile, InFile, Input, Turn,
           NothingToEdit, EditOpen, EditRead, EditWrite, Killed
  <2> QED BY <2>1 DEF OptInv
<1>1. CASE TooFew \/ CannotOpen \/ Help \/ NothingToEdit \/ Killed
  <2>1. pc' \in {"fail", "help", "killed"}
    BY <1>1 DEF TooFew, CannotOpen, Help, NothingToEdit, Killed, Goto
  <2> QED BY <2>1 DEF OptInv
<1>2. CASE GenOpen \/ GenWrite \/ XorOpen \/ XorWrite
  BY <1>2 DEF GenOpen, GenWrite, XorOpen, XorWrite
<1>3. CASE EditBegin
  <2>1. /\ pc' = "parse" /\ i' = 1 /\ opt' = NoOptions /\ argv' = argv
        /\ argv \in Seq(Arg)
    BY <1>3 DEF EditBegin, Goto, OptInv, Ec2bInv, TypeOK
  <2>2. TakesNext(argv)[0] = 0
    BY <2>1, TakesNextDef
  <2>3. \A o : Seen(o)' = {}
    <3>1. \A o : \A p \in Seen(o)' : p \in 1 .. Len(argv) /\ p < 1
      BY <2>1 DEF Seen, Gives
    <3> QED BY <3>1
  <2>4. ~opt'.gen_key /\ ~opt'.gen_data /\ ~opt'.new_seed /\ ~opt'.gen_seed
    BY <2>1 DEF NoOptions
  <2>5. TakesNext(argv')[i' - 1] = 0
    BY <2>1, <2>2
  <2> QED BY <2>1, <2>3, <2>4, <2>5 DEF OptInv
<1>4. CASE GenKey \/ GenData \/ GenSeed \/ NewSeed \/ OutFile \/ InFile \/ Input
  BY <1>4, BranchesOpt
<1>5. ASSUME EditOpen \/ EditRead \/ EditWrite \/ UNCHANGED vars PROVE OptInv'
  <2>1. /\ UNCHANGED <<mode, argv, i, opt>>
        /\ \/ pc' = pc /\ seed' = seed
           \/ pc' = "fail"
           \/ pc \in {"parse", "read"} /\ pc' \in {"read", "write"} /\ i > Len(argv) /\ seed' = seed
           \/ EditWrite /\ pc = "write" /\ pc' = "ok"
    <3>1. pc = "read" => i > Len(argv)
      BY DEF OptInv
    <3> QED BY <1>5, <3>1 DEF EditOpen, EditRead, EditWrite, vars, Goto
  <2>2. \A o : Seen(o)' = Seen(o)
    BY <2>1 DEF Seen, Gives
  <2>3. TakesNext(argv') = TakesNext(argv)
    BY <2>1
  <2>4. CASE pc' = "fail"
    BY <2>4 DEF OptInv
  <2>5. CASE pc' # "fail" /\ seed' = seed
    BY <2>1, <2>2, <2>3, <2>5 DEF OptInv
  <2>6. CASE EditWrite /\ pc = "write" /\ pc' = "ok"
    <3>1. PICK s \in Seeds, key \in KeptKeys, data \in KeptDatas :
            GenNewEc2b(Target, key, data, s, ~(opt.new_seed \/ opt.gen_seed))
      BY <2>6 DEF EditWrite
    <3>2. opt.new_seed => seed' = seed
      BY <2>6, <3>1 DEF GenNewEc2b, Seeds, OptInv
    <3> QED BY <2>1, <2>2, <2>3, <2>6, <3>2 DEF OptInv
  <2> QED BY <2>1, <2>4, <2>5, <2>6
<1> QED BY <1>1, <1>2, <1>3, <1>4, <1>5 DEF Next

-----------------------------------------------------------------------------
(* What the edit keeps.                                                    *)

\* The step that writes takes over what was not asked to be new.
LEMMA EditWriteKept == Ec2bInv /\ KeptInv /\ EditWrite => KeptInv'
<1> SUFFICES ASSUME Ec2bInv, KeptInv, EditWrite PROVE KeptInv'
  OBVIOUS
<1>1. /\ mode = "edit" /\ pc = "write" /\ pc' = "ok"
      /\ UNCHANGED <<before, mode, argv, i, opt, in_ec2b>>
      /\ Target \in Arg /\ files \in [Arg -> Contents]
      /\ in_ec2b \in [kind : {"ec2b"}, key : Key, data : Data]
      /\ in_ec2b = before[opt.in_file]
  BY DEF EditWrite, Goto, KeptInv, Ec2bInv, ReadyInv, TypeOK, Target, output_to_input
<1> DEFINE old == before[opt.in_file]
<1>2. Target' = Target /\ before[opt.in_file]' = old
  BY <1>1 DEF Target, output_to_input
<1>3. PICK key \in KeptKeys, data \in KeptDatas, s \in Seeds :
        GenNewEc2b(Target, key, data, s, ~(opt.new_seed \/ opt.gen_seed))
  BY DEF EditWrite
<1> DEFINE newKey == IF ~(opt.new_seed \/ opt.gen_seed) THEN key ELSE KeyFor(key, data, s)
<1>4. files'[Target] = Ec2bFile(Stored(newKey), data)
  BY <1>1, <1>3 DEF GenNewEc2b
<1>5. Transform[in_ec2b.key] \in Key /\ in_ec2b.key \in Key
  BY <1>1, TransformAssumption
<1>6. key \in Key /\ newKey[2] = key[2]
  BY <1>3, <1>5 DEF KeptKeys, KeyFor
<1>7. newKey \in Key
  <2>1. CASE opt.new_seed \/ opt.gen_seed
    <3>1. s \in W64
      BY <1>3, <2>1 DEF Seeds, Ec2bInv, ReadyInv
    <3> QED BY <1>6, <2>1, <3>1, KeyForGives
  <2>2. CASE ~(opt.new_seed \/ opt.gen_seed)
    BY <1>6, <2>2
  <2> QED BY <2>1, <2>2
<1>8. Stored(newKey) \in Key /\ Transform[Stored(newKey)] = newKey
  <2> HIDE DEF newKey
  <2> QED BY <1>7, StoredKey
<1>9. /\ files'[Target].data = data /\ files'[Target].key = Stored(newKey)
  BY <1>4 DEF Ec2bFile
<1>10. ~opt.gen_data => files'[Target].data = old.data
  BY <1>1, <1>3, <1>9 DEF KeptDatas
<1>11. ~opt.gen_key => Transform[files'[Target].key][2] = Transform[old.key][2]
  <2> SUFFICES ASSUME ~opt.gen_key PROVE Transform[files'[Target].key][2] = Transform[old.key][2]
    OBVIOUS
  <2>1. key = Transform[old.key]
    BY <1>1, <1>3 DEF KeptKeys
  <2>2. Transform[files'[Target].key] = newKey
    BY <1>8, <1>9
  <2> HIDE DEF newKey, old
  <2> QED BY <1>6, <2>1, <2>2
<1>12. ~(opt.gen_key \/ opt.gen_seed \/ opt.new_seed) => files'[Target].key = old.key
  <2> SUFFICES ASSUME ~(opt.gen_key \/ opt.gen_seed \/ opt.new_seed)
               PROVE  files'[Target].key = old.key
    OBVIOUS
  <2>1. newKey = Transform[old.key]
    BY <1>1, <1>3 DEF KeptKeys
  <2>2. old.key \in Key
    BY <1>1, <1>5
  <2> HIDE DEF newKey, old
  <2> QED BY <1>8, <1>9, <2>1, <2>2, TransformAssumption
<1> QED BY <1>1, <1>2, <1>10, <1>11, <1>12 DEF KeptInv

\* The input is read as the run found it.
LEMMA EditReadKept == Ec2bInv /\ EditRead => KeptInv'
<1> SUFFICES ASSUME Ec2bInv, EditRead PROVE KeptInv'
  OBVIOUS
<1>1. /\ pc = "read" /\ mode = "edit" /\ mode' = "edit" /\ opt' = opt /\ before' = before
      /\ pc' \in {"write", "fail"} /\ (pc' = "write" => in_ec2b' = files[opt.in_file])
      /\ opt.in_file \in Arg
  BY DEF EditRead, Goto, Ec2bInv, ReadyInv, TypeOK
<1>2. files[opt.in_file] = before[opt.in_file]
  BY <1>1 DEF Ec2bInv, FilesInv, Target, output_to_input
<1> QED BY <1>1, <1>2 DEF KeptInv

\* Every step keeps to it.
LEMMA NextKept == Ec2bInv /\ KeptInv /\ [Next]_vars => KeptInv'
<1> SUFFICES ASSUME Ec2bInv, KeptInv, [Next]_vars PROVE KeptInv'
  OBVIOUS
<1>1. CASE EditRead
  BY <1>1, EditReadKept
<1>2. CASE EditWrite
  BY <1>2, EditWriteKept
<1>3. CASE UNCHANGED vars
  <2>1. UNCHANGED <<files, before, mode, opt, pc, in_ec2b>>
    BY <1>3 DEF vars
  <2>2. Target' = Target
    BY <2>1 DEF Target, output_to_input
  <2> QED BY <2>1, <2>2 DEF KeptInv
<1>4. CASE GenOpen \/ GenWrite \/ XorOpen \/ XorWrite
  <2>1. mode' # "edit"
    BY <1>4 DEF GenOpen, GenWrite, XorOpen, XorWrite
  <2> QED BY <2>1 DEF KeptInv
<1>5. CASE \/ TooFew \/ CannotOpen \/ EditBegin \/ NothingToEdit \/ EditOpen \/ Killed
           \/ Help \/ GenKey \/ GenData \/ GenSeed \/ NewSeed \/ OutFile \/ InFile \/ Input
  <2>1. pc' \notin {"write", "ok"}
    BY <1>5 DEF TooFew, CannotOpen, EditBegin, NothingToEdit, EditOpen, Killed, Help, GenKey,
         GenData, GenSeed, NewSeed, OutFile, InFile, Input, Turn, Goto
  <2> QED BY <2>1 DEF KeptInv
<1> QED BY <1>1, <1>2, <1>3, <1>4, <1>5 DEF Next

-----------------------------------------------------------------------------
(* Results.                                                                *)

\* The invariant holds of every run.
LEMMA Ec2bInvHolds == Spec => []Ec2bInv
<1>1. Init => Ec2bInv
  BY InitInv
<1>2. Ec2bInv /\ [Next]_vars => Ec2bInv'
  BY NextInv
<1> QED BY <1>1, <1>2, PTL DEF Spec

(* Every file a run writes is well formed and every option what the loop   *)
(* over argv may leave, for every command line: the loop reads at most one *)
(* string past the last.                                                   *)
THEOREM Types == Spec => []TypeOK
<1>1. Ec2bInv => TypeOK
  BY DEF Ec2bInv
<1> QED BY <1>1, Ec2bInvHolds, PTL

(* The seed that gen and edit print is the one that xor derives from the   *)
(* file, for every key, data, seed and permutation of keys.                *)
THEOREM Printed == Spec => []SeedPrinted
<1>1. Ec2bInv => SeedPrinted
  BY DEF Ec2bInv
<1> QED BY <1>1, Ec2bInvHolds, PTL

(* The input of an edit is as it was until an edit in place has written,   *)
(* whatever the directory and the command line, also after a kill.         *)
THEOREM Spared == Spec => []EditSparesInput
<1>1. Ec2bInv => EditSparesInput
  <2> SUFFICES ASSUME Ec2bInv, mode = "edit", opt.in_file # NULL,
                      pc = "ok" => ~output_to_input
               PROVE  files[opt.in_file] = before[opt.in_file]
    BY DEF EditSparesInput
  <2>1. opt.in_file \in Arg
    BY DEF Ec2bInv, TypeOK
  <2>2. CASE output_to_input
    BY <2>1, <2>2 DEF Ec2bInv, FilesInv
  <2>3. CASE ~output_to_input
    <3>1. Target # opt.in_file
      BY <2>3 DEF Target, output_to_input
    <3> QED BY <2>1, <3>1 DEF Ec2bInv, FilesInv
  <2> QED BY <2>2, <2>3
<1> QED BY <1>1, Ec2bInvHolds, PTL

\* So do what the loop recorded and what the edit keeps.
LEMMA OptKeptHold == Spec => [](OptInv /\ KeptInv)
<1>1. Init => OptInv /\ KeptInv
  BY DEF Init, OptInv, KeptInv
<1>2. Ec2bInv /\ OptInv /\ [Next]_vars => OptInv'
  BY NextOpt
<1>3. Ec2bInv /\ KeptInv /\ [Next]_vars => KeptInv'
  BY NextKept
<1> QED BY <1>1, <1>2, <1>3, Ec2bInvHolds, PTL DEF Spec

\* A run that has ended well has met every option of its command line.
LEMMA AllSeen ==
  ASSUME Ec2bInv, OptInv, mode = "edit", pc = "ok"
  PROVE  \A o : Seen(o) = Gives(o)
<1>1. argv \in Seq(Arg) /\ i > Len(argv) /\ i \in Int
  BY DEF Ec2bInv, TypeOK, OptInv
<1>2. \A p \in DOMAIN argv : p < i
  BY <1>1
<1> QED BY <1>2 DEF Seen, Gives

(* A seed given with -S is the seed of the edited file, wherever -s and    *)
(* other options stand on the command line; of several, the last one is.   *)
THEOREM GivenSeed == Spec => []GivenSeedWins
<1>1. Ec2bInv /\ OptInv => GivenSeedWins
  <2> SUFFICES ASSUME Ec2bInv, OptInv, pc = "ok", mode = "edit", Gives("-S") # {}
               PROVE  LET last == CHOOSE p \in Gives("-S") : \A q \in Gives("-S") : q <= p
                      IN  DerivedSeed(files[Target]) = Numbers[argv[last + 1]]
    BY DEF GivenSeedWins
  <2> DEFINE last == CHOOSE p \in Gives("-S") : \A q \in Gives("-S") : q <= p
  <2>1. Seen("-S") = Gives("-S")
    BY AllSeen
  <2>2. PICK p \in Gives("-S") : /\ \A q \in Gives("-S") : q <= p
                                 /\ seed = Numbers[argv[p + 1]]
    BY <2>1 DEF OptInv
  <2>3. last \in Gives("-S") /\ \A q \in Gives("-S") : q <= last
    BY <2>2
  <2>4. Gives("-S") \subseteq Nat
    BY DEF Gives, Ec2bInv, TypeOK
  <2> HIDE DEF last
  <2>5. last = p
    BY <2>2, <2>3, <2>4
  <2>6. DerivedSeed(files[Target]) = seed
    BY DEF Ec2bInv, SeedPrinted
  <2> QED BY <2>2, <2>5, <2>6 DEF last
<1> QED BY <1>1, Ec2bInvHolds, OptKeptHold, PTL

(* An edit leaves the data, the key and half of the key that it was not    *)
(* asked to change, for every command line and permutation of keys.        *)
THEOREM KeptUnasked == Spec => []KeepsUnasked
<1>1. Ec2bInv /\ OptInv /\ KeptInv => KeepsUnasked
  <2> SUFFICES ASSUME Ec2bInv, OptInv, KeptInv, pc = "ok", mode = "edit"
               PROVE  KeepsUnasked
    BY DEF KeepsUnasked
  <2>1. /\ Seen("-k") = Gives("-k") /\ Seen("-d") = Gives("-d")
        /\ Seen("-s") = Gives("-s") /\ Seen("-S") = Gives("-S")
    BY AllSeen
  <2>2. /\ Gives("-d") = {} => ~opt.gen_data
        /\ Gives("-k") = {} => ~opt.gen_key
        /\ Gives("-k") \cup Gives("-s") \cup Gives("-S") = {}
             => ~(opt.gen_key \/ opt.gen_seed \/ opt.new_seed)
    BY <2>1 DEF OptInv
  <2> QED BY <2>2 DEF KeptInv, KeepsUnasked
<1> QED BY <1>1, Ec2bInvHolds, OptKeptHold, PTL
=============================================================================
