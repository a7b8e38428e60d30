-------------------------------- MODULE Mr0k --------------------------------
(***************************************************************************)
(* mr0k_encrypt and mr0k_decrypt of mr0k.c: a block whose header holds      *)
(* three keys that encrypt its start. The five modes differ in which of     *)
(* their constant keys exist.                                               *)
(***************************************************************************)
EXTENDS BlockCiphers

CONSTANTS
  Modes,      \* mode -> its constant keys, <<>> where it has none
  PostLength, \* 0xc00: how much of the block the post key covers
  EncMax      \* 0x400: the length of a block key

None == <<>>

ModeKeys ==
  [block_key      : [0 .. EncMax - 1 -> Byte] \cup {None},
   scramble_key   : [0 .. 3 -> [Byte -> Byte]] \cup {None},
   xor_key        : [Idx -> Byte] \cup {None},
   aes_round_keys : [0 .. 10 -> [Idx -> Byte]] \cup {None},
   post_key       : [0 .. 23 -> Byte] \cup {None}]

ASSUME ModesAssumption ==
  /\ PostLength \in Nat /\ EncMax \in Nat \ {0} /\ EncMax % 16 = 0
  /\ \A mode \in DOMAIN Modes : Modes[mode] \in ModeKeys

\* 0x6d72306b
Magic == [k \in 0 .. 3 |-> <<109, 114, 48, 107>>[k + 1] % Q]

\* buf_size < 0x94
TooSmall(size) == size < 148

\* A constant key that the mode does not have changes nothing.
Keyed(mem, lo, n, key, keySz) == IF key = None THEN mem ELSE XorCrypt(mem, lo, n, key, keySz)

\* 16 bytes for each 0x80 of the block.
EncSize(size) ==
  LET enc_size == ((size - 148) \div 128) * 16
  IN  IF enc_size > EncMax THEN EncMax ELSE enc_size

\* dynkeys[0] through the scramble key's four tables and aes.
Dynkey0(mode, mem) ==
  LET k0 == Slice(mem, 4, 16)
      s0 == IF mode.scramble_key = None THEN k0
            ELSE [i \in Idx |-> mode.scramble_key[i % 4][k0[i]]]
  IN  IF mode.aes_round_keys = None THEN s0 ELSE aesScrambleKeyMhy(s0, mode.aes_round_keys)

Dynkey1(mode, mem) == Keyed(Slice(mem, 116, 16), 0, 16, mode.xor_key, 16)

\* seed1 + n on 8 bytes, the least significant one first.
Plus(word, n) ==
  LET carry == Iterates(7, n, [i \in 1 .. 7 |-> [c \in Nat |-> (word[i - 1] + c) \div Q]])
  IN  [i \in 0 .. 7 |-> (word[i] + carry[i]) % Q]

\* seed1 ^ seed2 ^ (seed1 + buf_size - 20)
Seed(key1, key2, size) ==
  LET sum == Plus(key1, size - 20) IN [i \in 0 .. 7 |-> key1[i] (+) key2[i] (+) sum[i]]

mr0k_decrypt(mem, size, mode) ==
  LET k0   == Dynkey0(mode, mem)
      k1   == Dynkey1(mode, mem)
      k2   == IF mode.aes_round_keys = None THEN Slice(mem, 132, 16)
              ELSE aesScrambleKeyMhy(Slice(mem, 132, 16), mode.aes_round_keys)
      m1   == Put(mem, 132, roundKey(k0, k2))
      m2   == XorCrypt(m1, 148, EncSize(size), Seed(k1, k2, size), 8)
      m3   == Keyed(m2, 148, EncSize(size), mode.block_key, EncMax)
  IN  IF TooSmall(size) \/ Slice(mem, 0, 4) # Magic THEN mem
      ELSE Keyed(m3, 20, PostLength, mode.post_key, 24)

\* The post key goes first: it covers keys that the rest is derived from.
mr0k_encrypt(mem, size, mode) ==
  LET m0 == Keyed(mem, 20, PostLength, mode.post_key, 24)
      k0 == Dynkey0(mode, m0)
      k2 == roundKey(Slice(m0, 132, 16), k0)
      m1 == Keyed(m0, 148, EncSize(size), mode.block_key, EncMax)
      m2 == XorCrypt(m1, 148, EncSize(size), Seed(Dynkey1(mode, m0), k2, size), 8)
  IN  IF TooSmall(size) THEN mem
      ELSE Put(m2, 132, IF mode.aes_round_keys = None THEN k2
                        ELSE aesUnscrambleKeyMhy(k2, mode.aes_round_keys))
=============================================================================
