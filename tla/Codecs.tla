------------------------------- MODULE Codecs -------------------------------
(***************************************************************************)
(* A header or block on its way through a file: encrypted in the packer's   *)
(* buffer, written at its own size, read back with whatever the file holds  *)
(* after it, and decrypted in place. The two directions of every cipher     *)
(* are written by hand and run in different invocations of the program.     *)
(***************************************************************************)
EXTENDS Mr0k

CONSTANTS
  Cases,    \* [cipher, isHeader, mode, size]
  Memories, \* what a buffer may hold from the block's start on
  MemSize,  \* how much of a buffer that is
  Key       \* the key in the archive's header, for blb3

ASSUME CasesAssumption ==
  /\ MemSize \in Nat /\ MemSize >= 32
  /\ Memories \subseteq [0 .. MemSize - 1 -> Byte] /\ Key \in [Idx -> Byte]
  /\ Cases \subseteq [cipher : {"mhy0", "mhy1", "blb3", "mr0k"}, isHeader : BOOLEAN,
                      mode : DOMAIN Modes, size : 0 .. MemSize]

VARIABLES
  case,
  plain,  \* the memory before it is encrypted
  mem,    \* the memory now
  stored, \* what was read back
  pc

vars == <<case, plain, mem, stored, pc>>

Fill(cipher, m) == IF cipher = "mr0k" THEN Put(m, 0, Magic) ELSE m

Init ==
  /\ case \in Cases
  /\ \E m \in Memories : mem = Fill(case.cipher, m)
  /\ plain = mem /\ stored = mem /\ pc = "plain"

Encrypted(c, m) ==
  CASE c.cipher = "mhy0" -> mhy0_encrypt(m, c.isHeader)
    [] c.cipher = "mhy1" -> mhy1_encrypt(m, c.size, c.isHeader)
    [] c.cipher = "blb3" -> blb3_encrypt(m, c.size, Key)
    [] c.cipher = "mr0k" -> mr0k_encrypt(m, c.size, Modes[c.mode])

Decrypted(c, m) ==
  CASE c.cipher = "mhy0" -> mhy0_decrypt(m, c.isHeader)
    [] c.cipher = "mhy1" -> mhy1_decrypt(m, c.size, c.isHeader)
    [] c.cipher = "blb3" -> blb3_decrypt(m, c.size, Key)
    [] c.cipher = "mr0k" -> mr0k_decrypt(m, c.size, Modes[c.mode])

Accepted == case.cipher = "mhy1" => Mhy1Accepts(case.size, case.isHeader)

Encrypt ==
  /\ pc = "plain" /\ Accepted
  /\ mem' = Encrypted(case, mem) /\ pc' = "encrypted"
  /\ UNCHANGED <<case, plain, stored>>

\* assert of mhy1_encrypt
Abort ==
  /\ pc = "plain" /\ ~Accepted
  /\ pc' = "abort"
  /\ UNCHANGED <<case, plain, mem, stored>>

\* Only the block's own bytes are written; after them comes the next one.
Ship ==
  /\ pc = "encrypted"
  /\ \E m \in Memories :
       mem' = [x \in DOMAIN mem |-> IF x < case.size THEN mem[x] ELSE m[x]]
  /\ stored' = mem' /\ pc' = "stored"
  /\ UNCHANGED <<case, plain>>

Decrypt ==
  /\ pc = "stored"
  /\ mem' = Decrypted(case, mem) /\ pc' = "decrypted"
  /\ UNCHANGED <<case, plain, stored>>

Next == Encrypt \/ Abort \/ Ship \/ Decrypt

Spec == Init /\ [][Next]_vars

-----------------------------------------------------------------------------
(* Properties.                                                             *)

\* The cipher stays within the block. For mhy0 the TODOs of mhy0.c:107 and
\* mhy0.c:153 say so, for nxx the one of mr0k.c:413.
Contained ==
  CASE case.cipher = "mhy0" -> case.size >= Window(case.isHeader)
    [] case.cipher = "mhy1" -> TRUE
    [] case.cipher = "blb3" -> case.size >= 16
    [] case.cipher = "mr0k" -> Modes[case.mode].post_key = None \/ TooSmall(case.size)
                                 \/ case.size >= 20 + PostLength

\* Whatever follows it in the file, a block that contains its cipher is
\* decrypted to what was encrypted: the two directions mirror each other in
\* tables, rounds, order of steps and the range of bytes they work on.
Recovered ==
  pc = "decrypted" /\ Contained =>
    \A x \in 0 .. case.size - 1 : mem[x] = plain[x]

\* Decrypting such a block leaves the bytes after it alone, which are the next
\* block or archive and are still encrypted.
NextSpared ==
  pc = "decrypted" /\ Contained =>
    \A x \in DOMAIN mem : x >= case.size => mem[x] = stored[x]

\* "another modified AES" (blb3.c:114) and the "blb3 variant" of rc4
\* (mhycrypt.c:544) differ from those of mhy1 in how they are written only: with
\* the transposed round keys and the unrolled schedule aes is the same function,
\* and with the key length of 8 that all callers give, rc4 is. Of the latter the
\* comment at mhycrypt.c:544 says otherwise, that it "sets t slightly differently
\* and reverses decrypt/encrypt with respect to opBytes": what holds here refutes
\* it, for rc4_mhy decrypts and so does rc4_blb3 (mhy1.c:130, blb3.c:118). The
\* comment inside of it, "From here down, it's the same as rc4_mhy()", is right.
VariantsAgree ==
  pc = "plain" /\ case.cipher = "blb3" =>
    LET block == Slice(mem, 0, 16)
        tail  == Slice(mem, 16, 16)
    IN  /\ aesScrambleKeyBlb3(block, aesGetRoundKeysBlb3(Key))
             = aesScrambleKey(block, aesGetRoundKeys(Key))
        /\ rc4_blb3(Slice(mem, 0, 8), tail, Slice(mem, 8, 8))
             = rc4_mhy(Slice(mem, 0, 8), tail, Slice(mem, 8, 8))
=============================================================================
