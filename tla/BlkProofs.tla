----------------------------- MODULE BlkProofs -----------------------------
(***************************************************************************)
(* Proofs about `blktool blk`, for every pad, transformation, word, text   *)
(* and session: THEOREM Recovery, that a .blk file decrypts to the text it *)
(* was made from; THEOREM Types, that what goes through files stays in its *)
(* range; THEOREM Again, that a decrypted file encrypts to the bytes it    *)
(* came from.                                                              *)
(***************************************************************************)
EXTENDS Blk, TLAPS

\* xor of words is a word, and what is xored twice is gone (mhycrypt.c:12-17).
LEMMA XorWord == ASSUME NEW a \in W64, NEW b \in W64 PROVE a ^^ b \in W64
  BY DEF W64, ^^

LEMMA XorTwice == ASSUME NEW a \in W64, NEW b \in W64 PROVE (a ^^ b) ^^ b = a
  BY DEF W64, ^^

\* What blk.c:152 solves: the key half that encrypt computes makes decrypt's
\* sum give the seed.
LEMMA XorSolved ==
  ASSUME NEW h \in W64, NEW k \in W64, NEW s \in W64
  PROVE  (h ^^ ((h ^^ k) ^^ s)) ^^ k = s
  BY DEF W64, ^^

LEMMA XorFirstWord == \A data, n : XorFirst(data, n) \in W64
  BY DEF XorFirst, W64

LEMMA ZeroWord == Zero \in W64
  BY DEF Zero, W64

-----------------------------------------------------------------------------
(* The pad.                                                                *)

PadWord(seed, k) == Pad[seed][(k - 1) % PadWords]

\* Every word of a text meets a word of the pad, however long the text.
LEMMA PadWordType ==
  ASSUME NEW seed \in W64, NEW k \in Nat \ {0}
  PROVE  PadWord(seed, k) \in W64
<1>1. PadWords \in Nat \ {0}
  BY SizesAssumption DEF PadWords
<1>2. (k - 1) % PadWords \in 0 .. PadWords - 1
  BY <1>1
<1> QED
  BY <1>2, PadAssumption DEF PadWords, PadWord

\* The xored text is a text of the same length (xorCrypt works in place).
LEMMA XoredType ==
  ASSUME NEW body \in Seq(W64), NEW seed \in W64
  PROVE  /\ Xored(body, seed) \in Seq(W64)
         /\ Len(Xored(body, seed)) = Len(body)
         /\ \A k \in 1 .. Len(body) :
              Xored(body, seed)[k] = body[k] ^^ PadWord(seed, k)
<1>1. \A k \in 1 .. Len(body) : body[k] ^^ PadWord(seed, k) \in W64
  BY XorWord, PadWordType
<1>2. Xored(body, seed) = [k \in 1 .. Len(body) |-> body[k] ^^ PadWord(seed, k)]
  BY DEF Xored, PadWord
<1>3. Xored(body, seed) \in [1 .. Len(body) -> W64]
  BY <1>1, <1>2
<1> QED
  BY <1>2, <1>3

\* Xoring twice with the pad of one seed gives the text back.
LEMMA XoredTwice ==
  ASSUME NEW body \in Seq(W64), NEW seed \in W64
  PROVE  Xored(Xored(body, seed), seed) = body
<1> DEFINE once == Xored(body, seed)
<1>1. /\ once \in Seq(W64) /\ Len(once) = Len(body)
      /\ \A k \in 1 .. Len(body) : once[k] = body[k] ^^ PadWord(seed, k)
  BY XoredType
<1>2. /\ Xored(once, seed) \in Seq(W64)
      /\ Len(Xored(once, seed)) = Len(body)
      /\ \A k \in 1 .. Len(body) :
           Xored(once, seed)[k] = once[k] ^^ PadWord(seed, k)
  BY <1>1, XoredType
<1>3. ASSUME NEW k \in 1 .. Len(body) PROVE Xored(once, seed)[k] = body[k]
  <2>1. body[k] \in W64 /\ PadWord(seed, k) \in W64
    BY PadWordType
  <2> QED
    BY <1>1, <1>2, <2>1, XorTwice
<1>4. Xored(once, seed) \in Seq(W64) /\ body \in Seq(W64)
  BY <1>2
<1> QED
  BY <1>2, <1>3, <1>4

-----------------------------------------------------------------------------
(* One encryption.                                                         *)

\* What is summed over the body is a word.
LEMMA HashWord ==
  ASSUME NEW body, NEW sz, NEW junk \in W64
  PROVE  Hash(body, sz, junk) \in W64
  BY XorFirstWord, XorWord DEF Hash

\* The key encrypt computes is a key, and storing it loses nothing (blk.c:156).
LEMMA KeyStored ==
  ASSUME NEW key \in Key, NEW body, NEW sz, NEW seed \in W64, NEW junk \in W64
  PROVE  /\ KeyFor(key, body, sz, seed, junk) \in Key
         /\ Stored(KeyFor(key, body, sz, seed, junk)) \in Key
         /\ Transform[Stored(KeyFor(key, body, sz, seed, junk))]
               = KeyFor(key, body, sz, seed, junk)
<1>1. key[1] \in W64 /\ key[2] \in W64
  BY DEF Key
<1>2. ((Hash(body, sz, junk) ^^ Key1Const) ^^ key[2]) ^^ seed \in W64
  <2>1. Hash(body, sz, junk) ^^ Key1Const \in W64
    BY HashWord, ConstAssumption, XorWord
  <2>2. (Hash(body, sz, junk) ^^ Key1Const) ^^ key[2] \in W64
    BY <2>1, <1>1, XorWord
  <2> QED
    BY <2>2, XorWord
<1>3. KeyFor(key, body, sz, seed, junk) \in Key
  BY <1>1, <1>2 DEF KeyFor, Key
<1>4. \E s \in Key : Transform[s] = KeyFor(key, body, sz, seed, junk)
  BY <1>3, TransformAssumption
<1> QED
  BY <1>3, <1>4 DEF Stored

\* decrypt_blk0 finds the seed that encrypt_blk0 was given, when both sum the
\* same bytes.
LEMMA SeedFound ==
  ASSUME NEW key \in Key, NEW body, NEW sz, NEW seed \in W64, NEW junk \in W64,
         ~PastEnd(body, sz)
  PROVE  SeedOf(KeyFor(key, body, sz, seed, junk), body, sz, Zero) = seed
<1> DEFINE h == Hash(body, sz, junk) ^^ Key1Const
<1>1. h \in W64
  BY HashWord, ConstAssumption, XorWord
<1>2. Hash(body, sz, junk) = Hash(body, sz, Zero)
  BY DEF Hash
<1>3. key[2] \in W64
  BY DEF Key
<1>4. SeedOf(KeyFor(key, body, sz, seed, junk), body, sz, Zero)
        = (h ^^ ((h ^^ key[2]) ^^ seed)) ^^ key[2]
  BY <1>2 DEF SeedOf, KeyFor
<1> QED
  BY <1>1, <1>3, <1>4, XorSolved

\* A .blk file as encrypt writes it decrypts to its text.
LEMMA EncryptedDecrypts ==
  ASSUME NEW text \in Seq(W64), NEW key \in Key, NEW sz, NEW seed \in W64,
         NEW junk \in W64,
         ~PastEnd(Xored(text, seed), sz)
  PROVE  Decrypted(Encrypted(text, key, sz, seed, junk), Zero) = text
<1> DEFINE body == Xored(text, seed)
           b    == Encrypted(text, key, sz, seed, junk)
<1>1. b.words = body /\ b.blkSz = sz
      /\ b.key = Stored(KeyFor(key, body, sz, seed, junk))
  BY DEF Encrypted, BlkFile
<1>2. Transform[b.key] = KeyFor(key, body, sz, seed, junk)
  BY <1>1, KeyStored
<1>3. SeedOf(Transform[b.key], b.words, b.blkSz, Zero) = seed
  BY <1>1, <1>2, SeedFound
<1> QED
  BY <1>1, <1>3, XoredTwice DEF Decrypted

-----------------------------------------------------------------------------
(* Sessions.                                                               *)

\* What reading a file relies on.
WellFormed(f) ==
  /\ f.kind \in {"none", "text", "blk", "seed"}
  /\ f.kind \in {"text", "blk"} => f.words \in Seq(W64)
  /\ f.kind \in {"blk", "seed"} => f.key \in Key
  /\ f.kind = "seed" => f.seed \in W64

FilesInv == /\ files = [f \in File |-> files[f]]
            /\ \A f \in File : WellFormed(files[f])

CmdInv == cmd # Idle => cmd.in \in File /\ cmd.out \in File
                        /\ cmd.seed \in File \cup {NoName}

PlainInv == plain = [f \in File |-> plain[f]]

BlkInv == FilesInv /\ CmdInv /\ PlainInv /\ RecoversSampled

\* The last two lines of both encryptions, whatever key, size and seed they use.
LEMMA WritingPreserves ==
  ASSUME BlkInv, cmd # Idle, files[cmd.in].kind = "text",
         NEW key \in Key, NEW sz, NEW seed \in W64,
         WriteBlk(files[cmd.in].words, key, sz, seed),
         plain' = [plain EXCEPT ![cmd.out] = Text(files[cmd.in].words)],
         cmd' = Idle
  PROVE  BlkInv'
<1> DEFINE text == files[cmd.in].words
<1>1. cmd.in \in File /\ cmd.out \in File /\ text \in Seq(W64)
  BY DEF BlkInv, CmdInv, FilesInv, WellFormed
<1>2. PICK junk \in W64 :
        files' = [files EXCEPT ![cmd.out] = Encrypted(text, key, sz, seed, junk)]
  BY ZeroWord DEF WriteBlk, Junk
<1> DEFINE b == Encrypted(text, key, sz, seed, junk)
<1>3. /\ b.kind = "blk" /\ b.words = Xored(text, seed) /\ b.blkSz = sz
      /\ b.key = Stored(KeyFor(key, Xored(text, seed), sz, seed, junk))
  BY DEF Encrypted, BlkFile
<1>4. WellFormed(b)
  <2>1. b.words \in Seq(W64)
    BY <1>1, <1>3, XoredType
  <2>2. b.key \in Key
    BY <1>3, KeyStored
  <2> QED
    BY <1>3, <2>1, <2>2 DEF WellFormed
<1>5. /\ files' = [f \in File |-> files'[f]]
      /\ files'[cmd.out] = b
      /\ \A f \in File \ {cmd.out} : files'[f] = files[f]
  BY <1>1, <1>2 DEF BlkInv, FilesInv
<1>6. /\ plain' = [f \in File |-> plain'[f]]
      /\ plain'[cmd.out] = Text(text)
      /\ \A f \in File \ {cmd.out} : plain'[f] = plain[f]
  BY <1>1 DEF BlkInv, PlainInv
<1>7. FilesInv'
  BY <1>4, <1>5 DEF BlkInv, FilesInv
<1>8. CmdInv' /\ PlainInv'
  BY <1>6 DEF CmdInv, PlainInv
<1>9. RecoversSampled'
  <2> SUFFICES ASSUME NEW f \in File, files'[f].kind = "blk", plain'[f] # None,
                      ~PastEnd(files'[f].words, files'[f].blkSz)
               PROVE  Decrypted(files'[f], Zero) = plain'[f].words
    BY DEF RecoversSampled
  <2>1. CASE f = cmd.out
    <3>1. ~PastEnd(Xored(text, seed), sz)
      BY <2>1, <1>3, <1>5
    <3>2. Decrypted(b, Zero) = text
      BY <1>1, <3>1, EncryptedDecrypts
    <3>3. plain'[f].words = text
      BY <2>1, <1>6 DEF Text
    <3> QED
      BY <2>1, <1>5, <3>2, <3>3
  <2>2. CASE f # cmd.out
    BY <2>2, <1>5, <1>6 DEF BlkInv, RecoversSampled
  <2> QED
    BY <2>1, <2>2
<1> QED
  BY <1>7, <1>8, <1>9 DEF BlkInv

\* A session starts with texts.
LEMMA BlkInit == Init => BlkInv
<1> SUFFICES ASSUME Init PROVE BlkInv
  OBVIOUS
<1>1. ASSUME NEW f \in File PROVE WellFormed(files[f]) /\ files[f].kind # "blk"
  <2>1. files[f] = NoFile \/ \E t \in Texts : files[f] = Text(t)
    BY DEF Init
  <2>2. CASE files[f] = NoFile
    BY <2>2 DEF NoFile, WellFormed
  <2>3. CASE \E t \in Texts : files[f] = Text(t)
    BY <2>3, TextsAssumption DEF Text, WellFormed
  <2> QED
    BY <2>1, <2>2, <2>3
<1>2. FilesInv /\ RecoversSampled
  BY <1>1 DEF Init, FilesInv, RecoversSampled
<1>3. CmdInv /\ PlainInv
  BY DEF Init, CmdInv, PlainInv
<1> QED
  BY <1>2, <1>3 DEF BlkInv

\* Every command keeps BlkInv.
LEMMA BlkStep == BlkInv /\ [Next]_vars => BlkInv'
<1> SUFFICES ASSUME BlkInv, [Next]_vars PROVE BlkInv'
  OBVIOUS
<1>1. ASSUME NEW mode \in {"encrypt", "decrypt", "other"},
             NEW in \in File, NEW out \in File, NEW seed \in File \cup {NoName},
             Open(mode, in, out, seed)
      PROVE  BlkInv'
  <2>1. Truncated.kind = "text" /\ WellFormed(Truncated)
    BY DEF Truncated, Text, WellFormed
  <2>2. /\ files' = [f \in File |-> files'[f]]
        /\ files'[out] = Truncated
        /\ \A f \in File \ {out} : files'[f] = files[f] /\ plain'[f] = plain[f]
        /\ plain' = [f \in File |-> plain'[f]]
    BY <1>1 DEF Open, BlkInv, FilesInv, PlainInv
  <2>3. FilesInv' /\ PlainInv'
    BY <2>1, <2>2 DEF BlkInv, FilesInv, PlainInv
  <2>4. CmdInv'
    BY <1>1 DEF Open, CmdInv
  <2>5. RecoversSampled'
    BY <2>1, <2>2 DEF BlkInv, RecoversSampled
  <2> QED
    BY <2>3, <2>4, <2>5 DEF BlkInv
<1>2. CASE EncryptWithSeed
  <2>1. SeedRead.key \in Key /\ SeedRead.seed \in W64
    <3>1. CASE files[cmd.seed].kind = "seed"
      <4>1. cmd.seed \in File
        BY <1>2 DEF EncryptWithSeed, HasSeedFile
      <4> QED
        BY <3>1, <4>1 DEF SeedRead, BlkInv, FilesInv, WellFormed
    <3>2. CASE files[cmd.seed].kind # "seed"
      BY <3>2, ZeroWord DEF SeedRead, SeedFile, Key
    <3> QED
      BY <3>1, <3>2
  <2> QED
    BY <1>2, <2>1, WritingPreserves DEF EncryptWithSeed
<1>3. CASE EncryptRandom \/ EncryptForeign
  BY <1>3, WritingPreserves DEF EncryptRandom, EncryptForeign
<1>4. CASE Decrypt
  <2> DEFINE b    == files[cmd.in]
             k    == Transform[b.key]
  <2>1. /\ cmd.in \in File /\ cmd.out \in File /\ cmd.seed \in File \cup {NoName}
        /\ b.words \in Seq(W64) /\ b.key \in Key
    BY <1>4 DEF Decrypt, BlkInv, CmdInv, FilesInv, WellFormed
  <2>2. k \in Key
    BY <2>1, TransformAssumption
  <2>3. PICK junk \in W64 :
          LET seed == SeedOf(k, b.words, b.blkSz, junk)
              outs == [files EXCEPT ![cmd.out] = Text(Xored(b.words, seed))]
          IN  IF cmd.seed = NoName
                THEN files' = outs /\ plain' = plain
                ELSE /\ files' = [outs EXCEPT ![cmd.seed] = SeedFile(seed, k, b.blkSz)]
                     /\ plain' = [plain EXCEPT ![cmd.seed] = None]
    BY <1>4, ZeroWord DEF Decrypt, Junk
  <2> DEFINE seed == SeedOf(k, b.words, b.blkSz, junk)
             t    == Text(Xored(b.words, seed))
             s    == SeedFile(seed, k, b.blkSz)
  <2>4. seed \in W64
    <3>1. Hash(b.words, b.blkSz, junk) ^^ Key1Const \in W64
      BY HashWord, ConstAssumption, XorWord
    <3>2. k[1] \in W64 /\ k[2] \in W64
      BY <2>2 DEF Key
    <3>3. (Hash(b.words, b.blkSz, junk) ^^ Key1Const) ^^ k[1] \in W64
      BY <3>1, <3>2, XorWord
    <3> QED
      BY <3>2, <3>3, XorWord DEF SeedOf
  <2>5. t.kind = "text" /\ WellFormed(t)
    BY <2>1, <2>4, XoredType DEF Text, WellFormed
  <2>6. s.kind = "seed" /\ WellFormed(s)
    BY <2>2, <2>4 DEF SeedFile, WellFormed
  <2>7. /\ files' = [f \in File |-> files'[f]]
        /\ plain' = [f \in File |-> plain'[f]]
        /\ \A f \in File : \/ files'[f] = t \/ files'[f] = s
                           \/ files'[f] = files[f] /\ plain'[f] = plain[f]
    <3>1. CASE cmd.seed = NoName
      BY <2>1, <2>3, <3>1 DEF BlkInv, FilesInv, PlainInv
    <3>2. CASE cmd.seed # NoName
      BY <2>1, <2>3, <3>2 DEF BlkInv, FilesInv, PlainInv
    <3> QED
      BY <3>1, <3>2
  <2>8. FilesInv' /\ PlainInv'
    BY <2>5, <2>6, <2>7 DEF BlkInv, FilesInv, PlainInv
  <2>9. CmdInv'
    BY <1>4 DEF Decrypt, CmdInv
  <2>10. RecoversSampled'
    BY <2>5, <2>6, <2>7 DEF BlkInv, RecoversSampled
  <2> QED
    BY <2>8, <2>9, <2>10 DEF BlkInv
<1>5. CASE Fail
  BY <1>5 DEF Fail, BlkInv, FilesInv, CmdInv, PlainInv, RecoversSampled
<1>6. CASE UNCHANGED vars
  BY <1>6 DEF vars, BlkInv, FilesInv, CmdInv, PlainInv, RecoversSampled
<1> QED
  BY <1>1, <1>2, <1>3, <1>4, <1>5, <1>6 DEF Next

\* A .blk file that encrypt wrote decrypts to its text after any session, as
\* long as blkSz stays inside the body: for every text, key, seed, pad and
\* permutation of keys.
THEOREM Recovery == Spec => []RecoversSampled
<1>1. BlkInv => RecoversSampled
  BY DEF BlkInv
<1> QED
  BY <1>1, BlkInit, BlkStep, PTL DEF Spec

-----------------------------------------------------------------------------
(* Types.                                                                  *)

\* Sizes keep to sixteen bits when their bytes are swapped, and when they are
\* rounded to words.
LEMMA SizeType ==
  ASSUME NEW n \in U16
  PROVE  Swap16(n) \in U16 /\ Words16(n) \in U16 /\ Words16(n) % WordBytes = 0
<1>1. Byte \in Nat \ {0} /\ WordBytes \in Nat \ {0} /\ n \in Nat /\ n < Byte * Byte
  BY SizesAssumption DEF U16
<1>2. /\ n % Byte \in Nat /\ n % Byte <= Byte - 1 /\ n \div Byte \in Nat
      /\ n = (n \div Byte) * Byte + (n % Byte)
  BY <1>1
<1>3. n \div Byte <= Byte - 1
  <2>1. (n \div Byte) * Byte < Byte * Byte
    BY <1>1, <1>2
  <2> QED
    BY <1>1, <1>2, <2>1
<1>4. (n % Byte) * Byte <= (Byte - 1) * Byte
  BY <1>1, <1>2
<1>5. (Byte - 1) * Byte + (Byte - 1) = Byte * Byte - 1
  BY <1>1
<1>6. Swap16(n) \in U16
  <2>1. Swap16(n) = (n % Byte) * Byte + (n \div Byte)
    BY DEF Swap16
  <2>2. (n % Byte) * Byte \in Nat /\ (Byte - 1) * Byte \in Nat /\ Byte * Byte \in Nat
    BY <1>1, <1>2
  <2>3. Swap16(n) \in Nat /\ Swap16(n) <= Byte * Byte - 1
    BY <1>1, <1>2, <1>3, <1>4, <1>5, <2>1, <2>2
  <2> QED
    BY <2>2, <2>3 DEF U16
<1>7. Words16(n) \in U16 /\ Words16(n) % WordBytes = 0
  <2>1. /\ n % WordBytes \in Nat /\ n \div WordBytes \in Nat
        /\ n = (n \div WordBytes) * WordBytes + (n % WordBytes)
    BY <1>1
  <2>2. Words16(n) = (n \div WordBytes) * WordBytes
    BY <1>1, <2>1 DEF Words16
  <2>3. Words16(n) \in Nat /\ Words16(n) <= n
    BY <1>1, <2>1 DEF Words16
  <2>4. ((n \div WordBytes) * WordBytes) % WordBytes = 0
    BY <1>1, <2>1
  <2> QED
    BY <1>1, <2>2, <2>3, <2>4 DEF U16
<1> QED
  BY <1>6, <1>7

\* Kinds of files tell what else they hold.
LEMMA FileTypes ==
  ASSUME NEW f \in FileKind
  PROVE  /\ f.kind = "text" => f.words \in Seq(W64)
         /\ f.kind = "blk" => f \in BlkKind
         /\ f.kind = "seed" => f.seed \in W64 /\ f.key \in Key /\ f.blkSz \in U16
  BY DEF FileKind, BlkKind, NoFile

\* A .blk file that encrypt writes is one, whatever it sums.
LEMMA EncryptedType ==
  ASSUME NEW text \in Seq(W64), NEW key \in Key, NEW sz \in U16, NEW seed \in W64,
         NEW junk \in W64
  PROVE  Encrypted(text, key, sz, seed, junk) \in BlkKind
<1>1. Xored(text, seed) \in Seq(W64)
  BY XoredType
<1>2. Stored(KeyFor(key, Xored(text, seed), sz, seed, junk)) \in Key
  BY KeyStored
<1> QED
  BY <1>1, <1>2 DEF Encrypted, BlkFile, BlkKind

\* decrypt's seed is a word, whatever it sums.
LEMMA SeedOfType ==
  ASSUME NEW key \in Key, NEW body, NEW sz, NEW junk \in W64
  PROVE  SeedOf(key, body, sz, junk) \in W64
<1>1. Hash(body, sz, junk) ^^ Key1Const \in W64
  BY HashWord, ConstAssumption, XorWord
<1>2. key[1] \in W64 /\ key[2] \in W64
  BY DEF Key
<1>3. (Hash(body, sz, junk) ^^ Key1Const) ^^ key[1] \in W64
  BY <1>1, <1>2, XorWord
<1> QED
  BY <1>2, <1>3, XorWord DEF SeedOf

\* What both encryptions write, and from which key, size and seed.
LEMMA Writes ==
  ASSUME TypeOK, EncryptWithSeed \/ EncryptRandom \/ EncryptForeign
  PROVE  /\ cmd # Idle /\ cmd.in \in File /\ cmd.out \in File
         /\ files[cmd.in].kind = "text" /\ files[cmd.in].words \in Seq(W64)
         /\ \E key \in Key, sz \in U16, seed \in W64, junk \in W64 :
              /\ sz % WordBytes = 0
              /\ EncryptWithSeed => /\ key = SeedRead.key /\ seed = SeedRead.seed
                                    /\ sz = Words16(SeedRead.blkSz)
              /\ files' = [files EXCEPT ![cmd.out] =
                             Encrypted(files[cmd.in].words, key, sz, seed, junk)]
<1>1. cmd # Idle /\ files[cmd.in].kind = "text"
  BY DEF EncryptWithSeed, EncryptRandom, EncryptForeign
<1>2. cmd.in \in File /\ cmd.out \in File
  BY <1>1 DEF TypeOK
<1>3. files[cmd.in].words \in Seq(W64)
  BY <1>1, <1>2, FileTypes DEF TypeOK
<1> DEFINE text == files[cmd.in].words
<1>4. ASSUME NEW key \in Key, NEW sz \in U16, NEW seed \in W64,
             WriteBlk(text, key, sz, seed)
      PROVE  \E junk \in W64 :
               files' = [files EXCEPT ![cmd.out] = Encrypted(text, key, sz, seed, junk)]
  BY <1>4, ZeroWord DEF WriteBlk, Junk
<1>5. CASE EncryptWithSeed
  <2>1. SeedRead.key \in Key /\ SeedRead.seed \in W64 /\ SeedRead.blkSz \in U16
    <3>1. CASE files[cmd.seed].kind = "seed"
      <4>1. cmd.seed \in File
        BY <1>5 DEF EncryptWithSeed, HasSeedFile
      <4>2. files[cmd.seed] \in FileKind
        BY <4>1 DEF TypeOK
      <4> QED
        BY <3>1, <4>2, FileTypes DEF SeedRead
    <3>2. CASE files[cmd.seed].kind # "seed"
      <4>1. 0 \in U16
        BY SizesAssumption DEF U16
      <4> QED
        BY <3>2, <4>1, ZeroWord DEF SeedRead, SeedFile, Key
    <3> QED
      BY <3>1, <3>2
  <2>2. /\ Words16(SeedRead.blkSz) \in U16
        /\ Words16(SeedRead.blkSz) % WordBytes = 0
    BY <2>1, SizeType
  <2>3. WriteBlk(text, SeedRead.key, Words16(SeedRead.blkSz), SeedRead.seed)
    BY <1>5 DEF EncryptWithSeed
  <2>4. PICK junk \in W64 :
          files' = [files EXCEPT ![cmd.out] =
                      Encrypted(text, SeedRead.key, Words16(SeedRead.blkSz), SeedRead.seed, junk)]
    BY <1>4, <2>1, <2>2, <2>3
  <2> QED
    BY <1>1, <1>2, <1>3, <2>1, <2>2, <2>4
<1>6. CASE EncryptRandom /\ ~EncryptWithSeed
  <2> DEFINE n  == Announced(Len(text) * WordBytes)
             sz == Words16(Swap16(n))
  <2>1. n \in U16
    <3>1. Len(text) * WordBytes \in Nat
      BY <1>3, SizesAssumption
    <3> QED
      BY <3>1, SizesAssumption DEF Announced, U16
  <2>2. sz \in U16 /\ sz % WordBytes = 0
    BY <2>1, SizeType
  <2>3. PICK key \in Key, seed \in W64 : WriteBlk(text, key, sz, seed)
    BY <1>6 DEF EncryptRandom
  <2>4. PICK junk \in W64 :
          files' = [files EXCEPT ![cmd.out] = Encrypted(text, key, sz, seed, junk)]
    BY <1>4, <2>2, <2>3
  <2> HIDE DEF sz
  <2> QED
    BY <1>1, <1>2, <1>3, <1>6, <2>2, <2>4
<1>7. CASE EncryptForeign /\ ~EncryptWithSeed
  <2>1. PICK key \in Key, seed \in W64, n \in ForeignSzs : WriteBlk(text, key, Words16(n), seed)
    BY <1>7 DEF EncryptForeign
  <2> DEFINE sz == Words16(n)
  <2>2. sz \in U16 /\ sz % WordBytes = 0
    <3>1. n \in U16
      BY ForeignAssumption DEF U16
    <3> QED
      BY <3>1, SizeType
  <2>3. WriteBlk(text, key, sz, seed)
    BY <2>1
  <2> HIDE DEF sz
  <2>4. PICK junk \in W64 :
          files' = [files EXCEPT ![cmd.out] = Encrypted(text, key, sz, seed, junk)]
    BY <1>4, <2>2, <2>3
  <2> QED
    BY <1>1, <1>2, <1>3, <1>7, <2>2, <2>4
<1> QED
  BY <1>5, <1>6, <1>7

\* What decrypt writes.
LEMMA DecryptWrites ==
  ASSUME TypeOK, Decrypt
  PROVE  /\ cmd # Idle /\ cmd.in \in File /\ cmd.out \in File
         /\ cmd.seed \in File \cup {NoName} /\ files[cmd.in] \in BlkKind
         /\ Transform[files[cmd.in].key] \in Key
         /\ \E junk \in W64 :
              LET b    == files[cmd.in]
                  seed == SeedOf(Transform[b.key], b.words, b.blkSz, junk)
                  text == Text(Xored(b.words, seed))
                  s    == SeedFile(seed, Transform[b.key], b.blkSz)
              IN  /\ ~PastEnd(b.words, b.blkSz) => junk = Zero
                  /\ files' \in [File -> FileKind]
                  /\ plain' \in [File -> {None} \cup [kind : {"text"}, words : Seq(W64)]]
                  /\ made' \in [File -> {None} \cup BlkKind]
                  /\ \A f \in File :
                       \/ files'[f] \in {text, s} /\ made'[f] = b
                       \/ files'[f] = files[f] /\ made'[f] = made[f]
<1> DEFINE b == files[cmd.in]
<1>1. cmd # Idle /\ b.kind = "blk"
  BY DEF Decrypt
<1>2. cmd.in \in File /\ cmd.out \in File /\ cmd.seed \in File \cup {NoName}
  BY <1>1 DEF TypeOK
<1>3. b \in BlkKind
  BY <1>1, <1>2, FileTypes DEF TypeOK
<1>4. Transform[b.key] \in Key
  BY <1>3, TransformAssumption DEF BlkKind
<1>5. PICK junk \in Junk(b.words, b.blkSz) :
        LET seed == SeedOf(Transform[b.key], b.words, b.blkSz, junk)
            outs == [files EXCEPT ![cmd.out] = Text(Xored(b.words, seed))]
        IN  IF cmd.seed = NoName
              THEN /\ files' = outs
                   /\ made' = [made EXCEPT ![cmd.out] = b]
                   /\ UNCHANGED plain
              ELSE /\ files' = [outs EXCEPT ![cmd.seed] =
                                  SeedFile(seed, Transform[b.key], b.blkSz)]
                   /\ made' = [made EXCEPT ![cmd.out] = b, ![cmd.seed] = b]
                   /\ plain' = [plain EXCEPT ![cmd.seed] = None]
  BY DEF Decrypt
<1>6. junk \in W64 /\ (~PastEnd(b.words, b.blkSz) => junk = Zero)
  BY ZeroWord DEF Junk
<1> DEFINE seed == SeedOf(Transform[b.key], b.words, b.blkSz, junk)
           text == Text(Xored(b.words, seed))
           s    == SeedFile(seed, Transform[b.key], b.blkSz)
<1>7. text \in FileKind /\ s \in FileKind
  <2>1. seed \in W64
    BY <1>4, <1>6, SeedOfType
  <2>2. Xored(b.words, seed) \in Seq(W64)
    BY <1>3, <2>1, XoredType DEF BlkKind
  <2>3. b.blkSz \in U16
    BY <1>3 DEF BlkKind
  <2> QED
    BY <1>4, <2>1, <2>2, <2>3 DEF FileKind, Text, SeedFile
<1>8. /\ files' \in [File -> FileKind]
      /\ plain' \in [File -> {None} \cup [kind : {"text"}, words : Seq(W64)]]
      /\ made' \in [File -> {None} \cup BlkKind]
      /\ \A f \in File : \/ files'[f] \in {text, s} /\ made'[f] = b
                         \/ files'[f] = files[f] /\ made'[f] = made[f]
  <2> HIDE DEF text, s, b
  <2>1. CASE cmd.seed = NoName
    <3>1. /\ files' = [files EXCEPT ![cmd.out] = text]
          /\ made' = [made EXCEPT ![cmd.out] = b] /\ plain' = plain
      BY <1>5, <2>1 DEF text, b
    <3> QED
      BY <1>2, <1>3, <1>7, <3>1 DEF TypeOK
  <2>2. CASE cmd.seed # NoName
    <3>1. /\ files' = [[files EXCEPT ![cmd.out] = text] EXCEPT ![cmd.seed] = s]
          /\ made' = [[made EXCEPT ![cmd.out] = b] EXCEPT ![cmd.seed] = b]
          /\ plain' = [plain EXCEPT ![cmd.seed] = None]
      BY <1>5, <2>2 DEF text, s, b
    <3>2. cmd.seed \in File
      BY <1>2, <2>2
    <3> QED
      BY <1>2, <1>3, <1>7, <3>1, <3>2 DEF TypeOK
  <2> QED
    BY <2>1, <2>2
<1> QED
  BY <1>1, <1>2, <1>3, <1>4, <1>6, <1>8

\* A session starts with typed files.
LEMMA TypesInit == Init => TypeOK
<1> SUFFICES ASSUME Init PROVE TypeOK
  OBVIOUS
<1>1. \A t \in Texts : Text(t) \in FileKind
  BY TextsAssumption DEF Text, FileKind
<1>2. NoFile \in FileKind
  BY DEF FileKind
<1>3. files \in [File -> FileKind]
  BY <1>1, <1>2 DEF Init
<1> QED
  BY <1>3, CommandsAssumption DEF Init, TypeOK

\* Every command keeps the types.
LEMMA TypesStep == TypeOK /\ [Next]_vars => TypeOK'
<1> SUFFICES ASSUME TypeOK, [Next]_vars PROVE TypeOK'
  OBVIOUS
<1>1. ASSUME NEW mode \in {"encrypt", "decrypt", "other"},
             NEW in \in File, NEW out \in File, NEW seed \in File \cup {NoName},
             Open(mode, in, out, seed)
      PROVE  TypeOK'
  <2>1. Truncated \in FileKind
    BY DEF Truncated, Text, FileKind
  <2>2. files' \in [File -> FileKind]
    BY <1>1, <2>1 DEF Open, TypeOK
  <2>3. /\ cmd' \in [mode : {"encrypt", "decrypt", "other"}, in : File,
                     out : File, seed : File \cup {NoName}]
        /\ ran' \in 0 .. MaxCommands
    BY <1>1, CommandsAssumption DEF Open, TypeOK
  <2>4. /\ plain' \in [File -> {None} \cup [kind : {"text"}, words : Seq(W64)]]
        /\ made' \in [File -> {None} \cup BlkKind]
        /\ redone' = redone
    BY <1>1 DEF Open, TypeOK
  <2> QED
    BY <2>2, <2>3, <2>4 DEF TypeOK
<1>2. CASE EncryptWithSeed \/ EncryptRandom \/ EncryptForeign
  <2>1. PICK key \in Key, sz \in U16, seed \in W64, junk \in W64 :
          files' = [files EXCEPT ![cmd.out] =
                      Encrypted(files[cmd.in].words, key, sz, seed, junk)]
    BY <1>2, Writes
  <2>2. cmd.in \in File /\ cmd.out \in File /\ files[cmd.in].words \in Seq(W64)
    BY <1>2, Writes
  <2> DEFINE b == Encrypted(files[cmd.in].words, key, sz, seed, junk)
  <2>3. b \in BlkKind
    BY <2>2, EncryptedType
  <2> HIDE DEF b
  <2>4. files' \in [File -> FileKind] /\ files'[cmd.out] = b
    BY <2>1, <2>2, <2>3 DEF TypeOK, FileKind, b
  <2>5. plain' \in [File -> {None} \cup [kind : {"text"}, words : Seq(W64)]]
    BY <1>2, <2>2 DEF EncryptWithSeed, EncryptRandom, EncryptForeign, TypeOK, Text
  <2>6. cmd' = Idle /\ ran' = ran /\ made' = made
    BY <1>2 DEF EncryptWithSeed, EncryptRandom, EncryptForeign
  <2>7. redone' \in ({None} \cup BlkKind) \X ({None} \cup BlkKind)
    <3>1. CASE EncryptWithSeed
      <4>1. \/ redone' = redone
            \/ made[cmd.in] # None /\ redone' = <<made[cmd.in], b>>
        BY <2>4, <3>1 DEF EncryptWithSeed
      <4> QED
        BY <2>2, <2>3, <4>1 DEF TypeOK
    <3>2. CASE EncryptRandom \/ EncryptForeign
      BY <3>2 DEF EncryptRandom, EncryptForeign, TypeOK
    <3> QED
      BY <1>2, <3>1, <3>2
  <2> QED
    BY <2>4, <2>5, <2>6, <2>7 DEF TypeOK
<1>3. CASE Decrypt
  <2>1. /\ files' \in [File -> FileKind]
        /\ plain' \in [File -> {None} \cup [kind : {"text"}, words : Seq(W64)]]
        /\ made' \in [File -> {None} \cup BlkKind]
    BY <1>3, DecryptWrites
  <2>2. cmd' = Idle /\ ran' = ran /\ redone' = redone
    BY <1>3 DEF Decrypt
  <2> QED
    BY <2>1, <2>2 DEF TypeOK
<1>4. CASE Fail
  BY <1>4 DEF Fail, TypeOK
<1>5. CASE UNCHANGED vars
  BY <1>5 DEF vars, TypeOK
<1> QED
  BY <1>1, <1>2, <1>3, <1>4, <1>5 DEF Next

\* The types of files and histories: every key, size and seed that a command
\* reads from a file, computes or makes up stays in its range.
THEOREM Types == Spec => []TypeOK
  BY TypesInit, TypesStep, PTL DEF Spec

-----------------------------------------------------------------------------
(* Decrypting and encrypting again.                                        *)

Inside(b) == ~PastEnd(b.words, b.blkSz)

\* Sizes in .blk files are whole words, so rounding does not change them.
AlignedInv == \A f \in File : files[f].kind = "blk" => files[f].blkSz % WordBytes = 0

\* Texts and seed files that decrypt wrote are what their .blk file says.
MadeOf(f, b) ==
  /\ b.blkSz % WordBytes = 0
  /\ files[f].kind \in {"text", "seed"}
  /\ Inside(b) /\ files[f].kind = "text" => files[f].words = Decrypted(b, Zero)
  /\ files[f].kind = "seed" =>
       /\ files[f].key = Transform[b.key] /\ files[f].blkSz = b.blkSz
       /\ Inside(b) => files[f].seed = SeedOf(Transform[b.key], b.words, b.blkSz, Zero)
MadeInv == \A f \in File : made[f] # None => MadeOf(f, made[f])

\* The output of the command that runs was not decrypted from anything.
OutInv == cmd # Idle => made[cmd.out] = None

AgainInv == TypeOK /\ AlignedInv /\ MadeInv /\ OutInv /\ SameAgain

\* The converse of XorSolved: encrypt finds the half that decrypt used.
LEMMA XorUndone ==
  ASSUME NEW h \in W64, NEW a \in W64, NEW k \in W64
  PROVE  (h ^^ k) ^^ ((h ^^ a) ^^ k) = a
  BY DEF W64, ^^

\* Seed, key and size that decrypt finds in a .blk file make encrypt build the
\* same file: the half of the key that it solves for is the one decrypt used.
LEMMA EncryptsAgain ==
  ASSUME NEW b \in BlkKind, Inside(b), NEW junk \in W64
  PROVE  LET key == Transform[b.key]
             seed == SeedOf(key, b.words, b.blkSz, Zero)
         IN  Encrypted(Decrypted(b, Zero), key, b.blkSz, seed, junk) = b
<1> DEFINE key  == Transform[b.key]
           seed == SeedOf(key, b.words, b.blkSz, Zero)
           h    == Hash(b.words, b.blkSz, junk) ^^ Key1Const
<1>1. b.key \in Key /\ b.words \in Seq(W64) /\ key \in Key
  BY TransformAssumption DEF BlkKind
<1>2. seed \in W64
  BY <1>1, ZeroWord, SeedOfType
<1>3. Xored(Decrypted(b, Zero), seed) = b.words
  BY <1>1, <1>2, XoredTwice DEF Decrypted
<1>4. KeyFor(key, b.words, b.blkSz, seed, junk) = key
  <2>1. Hash(b.words, b.blkSz, Zero) = Hash(b.words, b.blkSz, junk)
    BY DEF Inside, Hash
  <2>2. seed = (h ^^ key[1]) ^^ key[2]
    BY <2>1 DEF SeedOf
  <2>3. h \in W64
    BY HashWord, ConstAssumption, XorWord
  <2>4. key[1] \in W64 /\ key[2] \in W64 /\ key = <<key[1], key[2]>>
    BY <1>1 DEF Key
  <2>5. (h ^^ key[2]) ^^ ((h ^^ key[1]) ^^ key[2]) = key[1]
    <3> HIDE DEF h, key
    <3> QED
      BY <2>3, <2>4, XorUndone
  <2>6. KeyFor(key, b.words, b.blkSz, seed, junk)
          = <<(h ^^ key[2]) ^^ ((h ^^ key[1]) ^^ key[2]), key[2]>>
    BY <2>2 DEF KeyFor
  <2> QED
    BY <2>4, <2>5, <2>6
<1>5. Stored(key) = b.key
  <2>1. Stored(key) \in Key /\ Transform[Stored(key)] = Transform[b.key]
    BY <1>1 DEF Stored
  <2> QED
    BY <1>1, <2>1, TransformAssumption
<1>6. Encrypted(Decrypted(b, Zero), key, b.blkSz, seed, junk)
        = BlkFile(b.key, b.blkSz, b.words)
  BY <1>3, <1>4, <1>5 DEF Encrypted
<1>7. BlkFile(b.key, b.blkSz, b.words) = b
  BY DEF BlkFile, BlkKind
<1> QED
  BY <1>6, <1>7

\* Nothing has been decrypted when a session starts.
LEMMA AgainInit == Init => AgainInv
<1> SUFFICES ASSUME Init PROVE AgainInv
  OBVIOUS
<1>1. \A f \in File : files[f].kind # "blk"
  BY DEF Init, NoFile, Text
<1>2. \A f \in File : made[f] = None
  BY DEF Init
<1>3. SameAgain
  BY DEF Init, SameAgain
<1> QED
  BY <1>1, <1>2, <1>3, TypesInit DEF Init, AgainInv, AlignedInv, MadeInv, OutInv

\* Every command keeps what the invariant says of it.
LEMMA AgainStep == AgainInv /\ [Next]_vars => AgainInv'
<1> SUFFICES ASSUME AgainInv, [Next]_vars PROVE AgainInv'
  OBVIOUS
<1>0. TypeOK /\ TypeOK'
  BY TypesStep DEF AgainInv
<1>1. ASSUME NEW mode \in {"encrypt", "decrypt", "other"},
             NEW in \in File, NEW out \in File, NEW seed \in File \cup {NoName},
             Open(mode, in, out, seed)
      PROVE  AgainInv'
  <2>1. /\ files'[out].kind = "text" /\ made'[out] = None
        /\ \A f \in File \ {out} : files'[f] = files[f] /\ made'[f] = made[f]
        /\ cmd'.out = out /\ redone' = redone
    BY <1>0, <1>1 DEF Open, TypeOK, Truncated, Text
  <2>2. AlignedInv'
    BY <2>1 DEF AgainInv, AlignedInv
  <2>3. MadeInv'
    BY <2>1 DEF AgainInv, MadeInv, MadeOf
  <2>4. OutInv' /\ SameAgain'
    BY <2>1 DEF OutInv, AgainInv, SameAgain
  <2> QED
    BY <1>0, <2>2, <2>3, <2>4 DEF AgainInv
<1>2. CASE EncryptWithSeed \/ EncryptRandom \/ EncryptForeign
  <2>1. /\ cmd # Idle /\ cmd.in \in File /\ cmd.out \in File
        /\ files[cmd.in].kind = "text"
    BY <1>0, <1>2, Writes
  <2>2. PICK key \in Key, sz \in U16, seed \in W64, junk \in W64 :
          /\ sz % WordBytes = 0
          /\ EncryptWithSeed => /\ key = SeedRead.key /\ seed = SeedRead.seed
                                /\ sz = Words16(SeedRead.blkSz)
          /\ files' = [files EXCEPT ![cmd.out] =
                         Encrypted(files[cmd.in].words, key, sz, seed, junk)]
    BY <1>0, <1>2, Writes
  <2> DEFINE e == Encrypted(files[cmd.in].words, key, sz, seed, junk)
  <2>3. e.kind = "blk" /\ e.blkSz = sz
    BY DEF Encrypted, BlkFile
  <2>4. /\ files'[cmd.out] = e /\ made' = made /\ cmd' = Idle
        /\ \A f \in File \ {cmd.out} : files'[f] = files[f]
    BY <1>0, <1>2, <2>1, <2>2 DEF TypeOK, EncryptWithSeed, EncryptRandom, EncryptForeign
  <2> HIDE DEF e
  <2>5. AlignedInv'
    BY <2>2, <2>3, <2>4 DEF AgainInv, AlignedInv
  <2>6. MadeInv'
    <3>1. made[cmd.out] = None
      BY <2>1 DEF AgainInv, OutInv
    <3> QED
      BY <2>4, <3>1 DEF AgainInv, MadeInv, MadeOf
  <2>7. OutInv'
    BY <2>4 DEF OutInv
  <2>8. SameAgain'
    <3>1. CASE redone' = redone
      BY <3>1 DEF AgainInv, SameAgain
    <3>2. CASE redone' # redone
      <4> DEFINE b == made[cmd.in]
      <4>1. /\ EncryptWithSeed /\ redone' = <<b, e>>
            /\ files[cmd.seed].kind = "seed" /\ b # None /\ b = made[cmd.seed]
        BY <1>2, <2>4, <3>2 DEF EncryptWithSeed, EncryptRandom, EncryptForeign
      <4>2. cmd.seed \in File
        BY <4>1 DEF EncryptWithSeed, HasSeedFile
      <4>3. MadeOf(cmd.in, b) /\ MadeOf(cmd.seed, b)
        BY <2>1, <4>1, <4>2 DEF AgainInv, MadeInv
      <4>4. b \in BlkKind
        BY <1>0, <2>1, <4>1 DEF TypeOK
      <4> SUFFICES ASSUME Inside(b) PROVE e = b
        BY <4>1 DEF SameAgain, Inside
      <4>5. /\ files[cmd.in].words = Decrypted(b, Zero)
            /\ key = Transform[b.key]
            /\ seed = SeedOf(Transform[b.key], b.words, b.blkSz, Zero)
            /\ sz = Words16(b.blkSz)
        BY <2>1, <2>2, <4>1, <4>3 DEF MadeOf, SeedRead
      <4>6. Words16(b.blkSz) = b.blkSz
        BY <4>3, <4>4 DEF MadeOf, Words16, BlkKind, U16
      <4> QED
        BY <4>4, <4>5, <4>6, EncryptsAgain DEF e
    <3> QED
      BY <3>1, <3>2
  <2> QED
    BY <1>0, <2>5, <2>6, <2>7, <2>8 DEF AgainInv
<1>3. CASE Decrypt
  <2> DEFINE b == files[cmd.in]
             k == Transform[b.key]
  <2>1. /\ cmd # Idle /\ cmd.in \in File /\ b \in BlkKind /\ b.kind = "blk"
        /\ cmd' = Idle /\ redone' = redone
    BY <1>0, <1>3, DecryptWrites DEF Decrypt
  <2>2. PICK junk \in W64 :
          LET seed == SeedOf(k, b.words, b.blkSz, junk)
              text == Text(Xored(b.words, seed))
              s    == SeedFile(seed, k, b.blkSz)
          IN  /\ Inside(b) => junk = Zero
              /\ \A f \in File :
                   \/ files'[f] \in {text, s} /\ made'[f] = b
                   \/ files'[f] = files[f] /\ made'[f] = made[f]
    BY <1>0, <1>3, DecryptWrites DEF Inside
  <2> DEFINE seed == SeedOf(k, b.words, b.blkSz, junk)
             text == Text(Xored(b.words, seed))
             s    == SeedFile(seed, k, b.blkSz)
  <2>3. b.blkSz % WordBytes = 0
    BY <2>1 DEF AgainInv, AlignedInv
  <2>4. ASSUME NEW f \in File, files'[f] \in {text, s}
        PROVE  /\ files'[f].kind \in {"text", "seed"}
               /\ Inside(b) /\ files'[f].kind = "text" => files'[f].words = Decrypted(b, Zero)
               /\ files'[f].kind = "seed" =>
                    /\ files'[f].key = k /\ files'[f].blkSz = b.blkSz
                    /\ Inside(b) => files'[f].seed = SeedOf(k, b.words, b.blkSz, Zero)
    <3>1. CASE files'[f] = text
      BY <2>2, <3>1 DEF Text, Decrypted
    <3>2. CASE files'[f] = s
      BY <2>2, <3>2 DEF SeedFile
    <3> QED
      BY <2>4, <3>1, <3>2
  <2>5. AlignedInv'
    BY <2>2, <2>4 DEF AgainInv, AlignedInv
  <2>6. MadeInv'
    <3> SUFFICES ASSUME NEW f \in File, made'[f] # None PROVE MadeOf(f, made[f])'
      BY DEF MadeInv
    <3>1. CASE files'[f] \in {text, s} /\ made'[f] = b
      BY <2>3, <2>4, <3>1 DEF MadeOf
    <3>2. CASE files'[f] = files[f] /\ made'[f] = made[f]
      BY <3>2 DEF AgainInv, MadeInv, MadeOf
    <3> QED
      BY <2>2, <3>1, <3>2
  <2>7. OutInv' /\ SameAgain'
    BY <2>1 DEF OutInv, AgainInv, SameAgain
  <2> QED
    BY <1>0, <2>5, <2>6, <2>7 DEF AgainInv
<1>4. CASE Fail
  BY <1>0, <1>4 DEF Fail, AgainInv, AlignedInv, MadeInv, MadeOf, OutInv, SameAgain
<1>5. CASE UNCHANGED vars
  BY <1>0, <1>5 DEF vars, AgainInv, AlignedInv, MadeInv, MadeOf, OutInv, SameAgain
<1> QED
  BY <1>1, <1>2, <1>3, <1>4, <1>5 DEF Next

\* A .blk file that is decrypted with a seed file and encrypted again with it
\* comes out as it was, key and size included, as long as its size stays inside
\* the body: for every text, key, seed, pad and permutation of keys, whatever
\* other commands run in between.
THEOREM Again == Spec => []SameAgain
<1>1. AgainInv => SameAgain
  BY DEF AgainInv
<1> QED
  BY <1>1, AgainInit, AgainStep, PTL DEF Spec
=============================================================================
