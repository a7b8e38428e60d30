-------------------------------- MODULE Blk --------------------------------
(***************************************************************************)
(* `blktool blk encrypt|decrypt <input> <output> (seed)`: blk_main of      *)
(* blktool.c with encrypt_blk0 and decrypt_blk0 of blk.c, as a session of  *)
(* commands over a few files.                                              *)
(*                                                                         *)
(* A .blk file is a header (key1, blkSz) and a body xored with a pad that  *)
(* genXorpadFromSeed makes from a 64-bit seed. The seed is not stored: it  *)
(* is the xor of key1 (after three transformations) and of the first blkSz *)
(* bytes of the encrypted body. key2 is copied unused and left out.        *)
(* Files are measured in words of WordBytes bytes, blkSz in bytes.         *)
(***************************************************************************)
EXTENDS XorWords, TLC

CONSTANTS
  File,       \* names a command line can give
  Texts,      \* contents of the files a session starts with
  WordBytes,  \* 8: bytes of a uint64_t
  Byte,       \* 256: values of a byte
  Sample,     \* 2048: most bytes that a fresh blkSz announces
  PadBytes,   \* 4096: length of the xor pad
  Pad,        \* genXorpadFromSeed: seed -> words of the pad
  Transform,  \* key1 as stored -> key1 as used (scramble, aes, xor)
  Key1Const,  \* ~0x567ba22babb08098
  ForeignSzs, \* blkSz that the bytes of a file that is no seed file can spell
  MaxCommands \* bound: commands of one session

ASSUME SizesAssumption ==
  /\ WordBytes \in Nat \ {0} /\ Byte \in Nat \ {0}
  /\ Sample \in 0 .. Byte * Byte - 1 /\ PadBytes \in Nat /\ PadBytes >= WordBytes
ASSUME TextsAssumption == Texts \subseteq Seq(W64)
ASSUME PadAssumption == Pad \in [W64 -> [0 .. (PadBytes \div WordBytes) - 1 -> W64]]
ASSUME ConstAssumption == Key1Const \in W64
ASSUME ForeignAssumption == ForeignSzs \subseteq 0 .. Byte * Byte - 1
ASSUME CommandsAssumption == MaxCommands \in Nat

Key == W64 \X W64

\* aesScrambleKeyMhy and its inverse undo each other, so do the tables and
\* the xor with blkXorKey: the transformation is a permutation of keys.
ASSUME TransformAssumption ==
  /\ Transform \in [Key -> Key]
  /\ \A k \in Key : \E s \in Key : Transform[s] = k
  /\ \A s, t \in Key : Transform[s] = Transform[t] => s = t

NoFile == [kind |-> "none"]
NoName == "(no seed argument)"

Text(words)           == [kind |-> "text", words |-> words]
BlkFile(key, sz, body) ==
  [kind |-> "blk", key |-> key, blkSz |-> sz, words |-> body]
SeedFile(seed, key, sz) ==
  [kind |-> "seed", seed |-> seed, key |-> key, blkSz |-> sz]

VARIABLES
  files,  \* contents of each file
  cmd,    \* the command that runs, or Idle
  plain,  \* history: the text each .blk file was encrypted from
  made,   \* history: the .blk file each decrypted text and seed file is from
  ran,    \* commands started
  redone  \* history: a .blk file and what decrypting and encrypting it gave

vars == <<files, cmd, plain, made, ran, redone>>

Idle == [mode |-> "idle"]
None == NoFile

Init ==
  /\ files \in [File -> {NoFile} \cup {Text(t) : t \in Texts}]
  /\ cmd = Idle
  /\ ran = 0
  /\ plain = [f \in File |-> None]
  /\ made = [f \in File |-> None]
  /\ redone = <<None, None>>

-----------------------------------------------------------------------------
(* blk.c                                                                   *)

\* Words of the body that enter the seed.
Sampled(blkSz) == Smaller(blkSz, PadBytes) \div WordBytes

\* Past the end of the body lies whatever the heap holds.
PastEnd(body, blkSz) == Sampled(blkSz) > Len(body)
Hash(body, blkSz, junk) ==
  IF PastEnd(body, blkSz) THEN XorFirst(body, Len(body)) ^^ junk
                          ELSE XorFirst(body, Sampled(blkSz))
Junk(body, blkSz) == IF PastEnd(body, blkSz) THEN W64 ELSE {Zero}

PadWords == PadBytes \div WordBytes

\* xorCrypt with the pad of a seed.
Xored(body, seed) ==
  [k \in 1 .. Len(body) |-> body[k] ^^ Pad[seed][(k - 1) % PadWords]]

\* decrypt_blk0: the seed that key1 (as used) and the body give.
SeedOf(key, body, blkSz, junk) ==
  ((Hash(body, blkSz, junk) ^^ Key1Const) ^^ key[1]) ^^ key[2]

\* Mutant of KeyFor: the second half of key1 is forgotten.
KeyForHalf(key, body, blkSz, seed, junk) ==
  << (Hash(body, blkSz, junk) ^^ Key1Const) ^^ seed, key[2] >>

\* encrypt_blk0: the first half of key1 is what makes the body give the seed.
KeyFor(key, body, blkSz, seed, junk) ==
  << ((Hash(body, blkSz, junk) ^^ Key1Const) ^^ key[2]) ^^ seed, key[2] >>

Stored(key) == CHOOSE s \in Key : Transform[s] = key

-----------------------------------------------------------------------------
(* blktool.c                                                               *)

\* be16toh on a little-endian host.
Swap16(n) == (n % Byte) * Byte + (n \div Byte)
\* Mutant of Words16: rounds what is below n.
Words16Below(n) == (n - 1) - ((n - 1) % WordBytes)

\* & ~7
Words16(n) == n - (n % WordBytes)

\* seed.blkSz of a text of n bytes without a seed file, in host order.
Announced(n) == IF n <= Sample THEN n ELSE Sample

Truncated == Text(<<>>)

(* Both modes open the input, then create the output, before they look at  *)
(* the mode or at what the input holds. A command that cannot open one of  *)
(* the two changes nothing. Encrypting a file that is not a text is left   *)
(* out: its bytes would only be one more text.                             *)
Open(mode, in, out, seed) ==
  /\ cmd = Idle /\ ran < MaxCommands
  /\ files[in] # NoFile
  /\ mode = "encrypt" => files[in].kind = "text"
  /\ files' = [files EXCEPT ![out] = Truncated]
  /\ ran' = ran + 1
  /\ cmd' = [mode |-> mode, in |-> in, out |-> out, seed |-> seed]
  /\ plain' = [plain EXCEPT ![out] = None]
  /\ made' = [made EXCEPT ![out] = None]
  /\ UNCHANGED redone

\* The body of encrypt from line 135 on: key is as used.
Encrypted(text, key, sz, seed, junk) ==
  LET body == Xored(text, seed)
  IN  BlkFile(Stored(KeyFor(key, body, sz, seed, junk)), sz, body)

\* Mutant of SeedRead: blkSz of the seed file is not read as big-endian.
SeedReadHost ==
  IF files[cmd.seed].kind = "seed"
    THEN [files[cmd.seed] EXCEPT !.blkSz = Swap16(@)]
    ELSE SeedFile(Zero, <<Zero, Zero>>, 0)

\* What fread gets from a seed file: nothing of an empty one, whose record
\* was zeroed before.
SeedRead ==
  IF files[cmd.seed].kind = "seed" THEN files[cmd.seed]
                                   ELSE SeedFile(Zero, <<Zero, Zero>>, 0)
HasSeedFile ==
  cmd.seed \in {f \in File : files[f].kind = "seed" \/ files[f] = Truncated}
ForeignSeedFile ==
  cmd.seed \in {f \in File : files[f].kind \in {"text", "blk"} /\ files[f] # Truncated}
NoSeedFile == cmd.seed \in {NoName} \cup {f \in File : files[f] = NoFile}

WriteBlk(text, key, sz, seed) ==
  \E junk \in Junk(Xored(text, seed), sz) :
    files' = [files EXCEPT ![cmd.out] = Encrypted(text, key, sz, seed, junk)]

\* encrypt with a seed file that decrypt wrote, or one just truncated as the
\* output.
EncryptWithSeed ==
  /\ cmd # Idle /\ cmd.mode = "encrypt" /\ HasSeedFile
  /\ files[cmd.in].kind = "text"
  /\ LET text == files[cmd.in].words
         s    == SeedRead
     IN  /\ WriteBlk(text, s.key, Words16(s.blkSz), s.seed)
         /\ plain' = [plain EXCEPT ![cmd.out] = Text(text)]
         /\ redone' = IF /\ files[cmd.seed].kind = "seed"
                           /\ made[cmd.in] # None /\ made[cmd.in] = made[cmd.seed]
                        THEN <<made[cmd.in], files'[cmd.out]>>
                        ELSE redone
  /\ cmd' = Idle
  /\ UNCHANGED <<made, ran>>

\* encrypt without a seed file, or with one that cannot be opened: key and
\* seed are random, blkSz is put in host order and then read as big-endian.
EncryptRandom ==
  /\ cmd # Idle /\ cmd.mode = "encrypt"
  /\ NoSeedFile
  /\ files[cmd.in].kind = "text"
  /\ \E key \in Key, seed \in W64 :
       LET text == files[cmd.in].words
           sz   == Words16(Swap16(Announced(Len(text) * WordBytes)))
       IN  WriteBlk(text, key, sz, seed)
  /\ plain' = [plain EXCEPT ![cmd.out] = Text(files[cmd.in].words)]
  /\ cmd' = Idle
  /\ UNCHANGED <<made, ran, redone>>

\* encrypt with a text or a .blk file in the place of the seed file: its first
\* bytes, whatever they spell, are read as the record.
EncryptForeign ==
  /\ cmd # Idle /\ cmd.mode = "encrypt" /\ ForeignSeedFile
  /\ files[cmd.in].kind = "text"
  /\ \E key \in Key, seed \in W64, sz \in ForeignSzs :
       WriteBlk(files[cmd.in].words, key, Words16(sz), seed)
  /\ plain' = [plain EXCEPT ![cmd.out] = Text(files[cmd.in].words)]
  /\ cmd' = Idle
  /\ UNCHANGED <<made, ran, redone>>

\* decrypt writes the text, then the seed file when one is named.
Decrypt ==
  /\ cmd # Idle /\ cmd.mode = "decrypt" /\ files[cmd.in].kind = "blk"
  /\ LET b    == files[cmd.in]
         key  == Transform[b.key]
     IN  \E junk \in Junk(b.words, b.blkSz) :
           LET seed == SeedOf(key, b.words, b.blkSz, junk)
               outs == [files EXCEPT ![cmd.out] = Text(Xored(b.words, seed))]
           IN  IF cmd.seed = NoName
                 THEN /\ files' = outs
                      /\ made' = [made EXCEPT ![cmd.out] = b]
                      /\ UNCHANGED plain
                 ELSE /\ files' = [outs EXCEPT ![cmd.seed] =
                                     SeedFile(seed, key, b.blkSz)]
                      /\ made' = [made EXCEPT ![cmd.out] = b, ![cmd.seed] = b]
                      /\ plain' = [plain EXCEPT ![cmd.seed] = None]
  /\ cmd' = Idle
  /\ UNCHANGED <<ran, redone>>

\* The mode is neither, the input is no .blk file, or memory runs out: the
\* command ends and the output stays empty.
Fail ==
  /\ cmd # Idle
  /\ cmd' = Idle
  /\ UNCHANGED <<files, plain, made, ran, redone>>

Next ==
  \/ \E mode \in {"encrypt", "decrypt", "other"}, in, out \in File,
        seed \in File \cup {NoName} : Open(mode, in, out, seed)
  \/ EncryptWithSeed \/ EncryptRandom \/ EncryptForeign \/ Decrypt \/ Fail

Spec == Init /\ [][Next]_vars

-----------------------------------------------------------------------------
(* Properties.                                                             *)

U16 == 0 .. Byte * Byte - 1
BlkKind == [kind : {"blk"}, key : Key, blkSz : U16, words : Seq(W64)]
FileKind == {NoFile} \cup [kind : {"text"}, words : Seq(W64)] \cup BlkKind
            \cup [kind : {"seed"}, seed : W64, key : Key, blkSz : U16]

(* Types of the files and of the history. *)
TypeOK ==
  /\ files \in [File -> FileKind]
  /\ cmd = Idle \/ cmd \in [mode : {"encrypt", "decrypt", "other"}, in : File,
                            out : File, seed : File \cup {NoName}]
  /\ plain \in [File -> {None} \cup [kind : {"text"}, words : Seq(W64)]]
  /\ made \in [File -> {None} \cup BlkKind]
  /\ ran \in 0 .. MaxCommands
  /\ redone \in ({None} \cup BlkKind) \X ({None} \cup BlkKind)

\* What decrypt makes of a .blk file when the heap past its body holds junk.
Decrypted(b, junk) ==
  Xored(b.words, SeedOf(Transform[b.key], b.words, b.blkSz, junk))

(* A .blk file that encrypt wrote decrypts to the text it was made from,   *)
(* although the seed is stored nowhere: encrypt_blk0 solves for the half   *)
(* of key1 that makes the header and the encrypted body give it back.      *)
(* It does when blkSz stays inside the body; Recovers is what the readme   *)
(* says of all files.                                                      *)
RecoversSampled ==
  \A f \in File :
    files[f].kind = "blk" /\ plain[f] # None /\ ~PastEnd(files[f].words, files[f].blkSz)
      => Decrypted(files[f], Zero) = plain[f].words


(* Decrypting with a seed file and encrypting the text again with that     *)
(* seed file gives the same .blk file, header included.                    *)
SameAgain ==
  redone[1] # None /\ ~PastEnd(redone[1].words, redone[1].blkSz)
    => redone[2] = redone[1]
=============================================================================
