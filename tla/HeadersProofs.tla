---------------------------- MODULE HeadersProofs ----------------------------
(***************************************************************************)
(* Headers: every archive that a packer writes or that is found beside it   *)
(* is read as it was meant, and nothing of it is lost on the way through    *)
(* the files. Numbers and bytes first, then what each part of a header      *)
(* writes, where, and that what is read there is what was written; at the   *)
(* end the inductive invariant, and the properties one by one.              *)
(***************************************************************************)
EXTENDS Headers, SumsProofs, TLAPS

-----------------------------------------------------------------------------
(* Numbers of 32 bits and their bytes.                                     *)

Int32 == {v \in Int : v >= 0 - 2147483648 /\ v <= 2147483647}

\* The four digits of a number, without the table of powers.
IsDigits(v) ==
  /\ Digit(v, 0) = v % 256 /\ Digit(v, 1) = (v \div 256) % 256
  /\ Digit(v, 2) = (v \div 65536) % 256 /\ Digit(v, 3) = (v \div 16777216) % 256

\* Every integer has digits in base 256 (IsDigits).
LEMMA Digits ==
  ASSUME NEW v, v \in Int
  PROVE  IsDigits(v)
<1> DEFINE w == <<1, 256, 65536, 16777216>>
<1>1. w[0 + 1] = 1 /\ w[1 + 1] = 256 /\ w[2 + 1] = 65536 /\ w[3 + 1] = 16777216
  BY SMT
<1>2. \A k \in 0 .. 3 : Digit(v, k) = (v \div w[k + 1]) % 256
  BY SMT DEF Digit
<1> HIDE DEF w
<1> QED BY <1>1, <1>2, SMT DEF IsDigits

\* Each of them is a byte.
LEMMA DigitBytes ==
  ASSUME NEW v, v \in Int
  PROVE  \A k \in 0 .. 11 : Digit(v, k) \in Byte
<1>1. /\ v % 256 \in Byte /\ (v \div 256) % 256 \in Byte
      /\ (v \div 65536) % 256 \in Byte /\ (v \div 16777216) % 256 \in Byte
  BY SMT DEF Byte
<1>2. IsDigits(v)
  BY Digits, Zenon
<1>3. Digit(v, 0) \in Byte /\ Digit(v, 1) \in Byte /\ Digit(v, 2) \in Byte /\ Digit(v, 3) \in Byte
  BY <1>1, <1>2, SMT DEF IsDigits
<1>4. \A k \in 4 .. 11 : Digit(v, k) \in {0, 255}
  BY SMT DEF Digit
<1>5. \A k \in 0 .. 11 : k \in {0, 1, 2, 3} \/ k \in 4 .. 11
  BY SMT
<1>6. 0 \in Byte /\ 255 \in Byte
  BY SMT DEF Byte
<1> QED BY <1>3, <1>4, <1>5, <1>6, SMT

(* A number that is written in four bytes is read again.                   *)
LEMMA NumberOfDigits ==
  ASSUME NEW v \in Int32
  PROVE  Number(Digit(v, 0), Digit(v, 1), Digit(v, 2), Digit(v, 3)) = v
<1>1. v \in Int
  BY SMT DEF Int32
<1>2. IsDigits(v)
  BY <1>1, Digits, Zenon
<1>3. v = (v % 256) + 256 * ((v \div 256) % 256) + 65536 * ((v \div 65536) % 256)
            + 16777216 * (v \div 16777216)
  BY <1>1, SMT
<1>4. v \div 16777216 >= (0 - 128) /\ v \div 16777216 <= 127
  BY <1>1, SMT DEF Int32
<1>5. (IF (v \div 16777216) % 256 >= 128 THEN ((v \div 16777216) % 256) - 256
       ELSE (v \div 16777216) % 256) = v \div 16777216
  BY <1>1, <1>4, SMT
<1> QED BY <1>2, <1>3, <1>5, SMT DEF Number, IsDigits

(* Four bytes that are read as a number are the number's bytes.            *)
LEMMA DigitsOfNumber ==
  ASSUME NEW d0 \in Byte, NEW d1 \in Byte, NEW d2 \in Byte, NEW d3 \in Byte
  PROVE  /\ Number(d0, d1, d2, d3) \in Int32
         /\ Digit(Number(d0, d1, d2, d3), 0) = d0 /\ Digit(Number(d0, d1, d2, d3), 1) = d1
         /\ Digit(Number(d0, d1, d2, d3), 2) = d2 /\ Digit(Number(d0, d1, d2, d3), 3) = d3
<1> DEFINE s == IF d3 >= 128 THEN d3 - 256 ELSE d3
<1>1. s \in Int /\ s >= 0 - 128 /\ s <= 127 /\ s % 256 = d3
  BY SMT DEF Byte
<1>2. Number(d0, d1, d2, d3) = d0 + 256 * d1 + 65536 * d2 + 16777216 * s
  BY SMT DEF Number
<1> HIDE DEF s
<1>3. Number(d0, d1, d2, d3) \in Int
  BY <1>1, <1>2, SMT DEF Byte
<1>4. PICK v : v \in Int /\ v = Number(d0, d1, d2, d3)
  BY <1>3
<1>5. v \in Int32
  BY <1>1, <1>2, <1>4, SMT DEF Int32, Byte
<1>6. /\ v % 256 = d0 /\ v \div 256 = d1 + 256 * d2 + 65536 * s
      /\ v \div 65536 = d2 + 256 * s /\ v \div 16777216 = s
  BY <1>1, <1>2, <1>4, SMT DEF Byte
<1>7. (v \div 256) % 256 = d1 /\ (v \div 65536) % 256 = d2 /\ (v \div 16777216) % 256 = d3
  BY <1>1, <1>4, <1>6, SMT DEF Byte
<1>8. IsDigits(v)
  BY <1>4, Digits, Zenon
<1>9. Digit(v, 0) = d0 /\ Digit(v, 1) = d1 /\ Digit(v, 2) = d2 /\ Digit(v, 3) = d3
  BY <1>6, <1>7, <1>8, SMT DEF IsDigits
<1> QED BY <1>4, <1>5, <1>9, Zenon

-----------------------------------------------------------------------------
(* Memory: what a write leaves there, and what a read finds.               *)

\* m holds what u sets; a read of m finds what u sets.
Holds(m, u)  == \A x \in DOMAIN u : x \in DOMAIN m /\ m[x] = u[x]
Agrees(m, u) == \A x \in DOMAIN u : Get(m, x) = u[x]

\* No two of the writes set the same byte.
Apart(w) == \A i, j \in DOMAIN w : i # j => \A x \in DOMAIN w[i] : x \notin DOMAIN w[j]

\* A memory that agrees with one write agrees with every part of it.
LEMMA AgreesThrough ==
  ASSUME NEW m, NEW u, NEW v, Agrees(m, u), Holds(u, v)
  PROVE  Agrees(m, v)
BY DEF Holds, Agrees

\* Strict is the identity.
LEMMA StrictSame ==
  ASSUME NEW f
  PROVE  Strict(f) = f
BY DEF Strict

\* A set of small numbers that is not empty has a largest member.
LEMMA MaxExists ==
  ASSUME NEW n \in Nat, NEW S, S \subseteq 1 .. n, S # {}
  PROVE  \E m \in S : \A s \in S : m >= s
<1> DEFINE P == {k \in 0 .. n + 1 : \E s \in S : s >= k}
<1>1. SUFFICES ASSUME \A s \in S : \E y \in S : ~(s >= y) PROVE FALSE
  OBVIOUS
<1>2. 0 \in P
  <2>1. PICK s \in S : TRUE
    OBVIOUS
  <2>2. s >= 0 /\ 0 \in 0 .. n + 1
    BY SMT
  <2> QED BY <2>2
<1>3. ASSUME NEW k \in 0 .. (n + 1) - 1, k \in P PROVE k + 1 \in P
  BY <1>1, <1>3, SMT
<1>4. n + 1 \in Nat
  OBVIOUS
<1> HIDE DEF P
<1>5. 0 .. n + 1 \subseteq P
  BY <1>2, <1>3, <1>4, UpTo
<1>6. n + 1 \in P
  BY <1>5, SMT
<1> QED BY <1>6, SMT DEF P

\* So Max is a member of it.
LEMMA MaxThere ==
  ASSUME NEW n \in Nat, NEW S, S \subseteq 1 .. n, S # {}
  PROVE  Max(S) \in S
BY MaxExists DEF Max

\* A tuple or a table of n writes.
Indexed(w, n) == n \in Nat /\ DOMAIN w = 1 .. n

\* Every byte after some writes is one that some write set.
LEMMA LaidFacts ==
  ASSUME NEW w, NEW n, Indexed(w, n)
  PROVE  /\ \A x : x \in DOMAIN Laid(w) <=> \E i \in 1 .. n : x \in DOMAIN w[i]
         /\ \A x \in DOMAIN Laid(w) : \E i \in 1 .. n : x \in DOMAIN w[i] /\ Laid(w)[x] = w[i][x]
         /\ Laid(w) = [x \in DOMAIN Laid(w) |-> Laid(w)[x]]
<1> USE DEF Indexed
<1> DEFINE D == UNION {DOMAIN w[i] : i \in DOMAIN w}
           S(x) == {i \in DOMAIN w : x \in DOMAIN w[i]}
<1>1. Laid(w) = [x \in D |-> w[Max(S(x))][x]]
  <2> DEFINE ws == Strict(w)
             g == [x \in UNION {DOMAIN ws[i] : i \in DOMAIN ws} |->
                     ws[Max({i \in DOMAIN ws : x \in DOMAIN ws[i]})][x]]
  <2>1. ws = w
    BY StrictSame, Zenon
  <2>2. Laid(w) = Strict(g)
    BY DEF Laid
  <2>3. Strict(g) = g
    BY StrictSame, Zenon
  <2> HIDE DEF ws
  <2>4. g = [x \in D |-> w[Max(S(x))][x]]
    BY <2>1
  <2> QED BY <2>2, <2>3, <2>4, Zenon
<1>2. ASSUME NEW x \in D PROVE Max(S(x)) \in S(x)
  <2>1. S(x) \subseteq 1 .. n /\ S(x) # {}
    OBVIOUS
  <2> QED BY <2>1, MaxThere
<1>3. \A x : x \in D <=> \E i \in 1 .. n : x \in DOMAIN w[i]
  OBVIOUS
<1> QED BY <1>1, <1>2, <1>3

\* What is laid out sets the offsets its parts set.
LEMMA LaidDomain ==
  ASSUME NEW w, NEW n, Indexed(w, n)
  PROVE  \A x : x \in DOMAIN Laid(w) <=> \E i \in 1 .. n : x \in DOMAIN w[i]
BY LaidFacts

\* Parts that set different offsets are all to be found in what is laid out.
LEMMA LaidHolds ==
  ASSUME NEW w, NEW n, Indexed(w, n), Apart(w)
  PROVE  \A i \in 1 .. n : Holds(Laid(w), w[i])
BY LaidFacts DEF Apart, Holds, Indexed

\* A memory that agrees with every part agrees with the whole.
LEMMA LaidAgrees ==
  ASSUME NEW m, NEW w, NEW n, Indexed(w, n), \A i \in 1 .. n : Agrees(m, w[i])
  PROVE  Agrees(m, Laid(w))
BY LaidFacts DEF Agrees

\* Where a write sets bytes.
LEMMA Domains ==
  ASSUME NEW at \in Nat, NEW n \in Nat, NEW v, NEW seq, Len(seq) = n
  PROVE  /\ DOMAIN BytesAt(at, seq) = at .. at + n - 1
         /\ DOMAIN LeAt(at, n, v) = at .. at + n - 1
         /\ DOMAIN BeAt(at, n, v) = at .. at + n - 1
         /\ DOMAIN shuffleInt(at, v) = {at + 2, at + 4, at, at + 5}
         /\ DOMAIN shuffleUint(at, v) = {at + 1, at + 6, at + 3, at + 2}
BY DEF BytesAt, LeAt, BeAt, shuffleInt, shuffleUint

\* memcpy back of what memcpy wrote.
LEMMA ReadBytes ==
  ASSUME NEW m, NEW at \in Nat, NEW S, NEW seq \in Seq(S), Agrees(m, BytesAt(at, seq))
  PROVE  /\ Read(m, at, Len(seq)) = seq
         /\ \A k \in 1 .. Len(seq) : Get(m, at + k - 1) = seq[k]
<1>1. ASSUME NEW k \in 1 .. Len(seq) PROVE Get(m, at + k - 1) = seq[k]
  <2>1. at + k - 1 \in at .. at + Len(seq) - 1 /\ (at + k - 1) - at + 1 = k
    BY SMT
  <2> QED BY <2>1 DEF Agrees, BytesAt
<1> QED BY <1>1 DEF Read

\* A little-endian number is read as it was written, with or without zeros behind it.
LEMMA ReadLe ==
  ASSUME NEW m, NEW at \in Nat, NEW n \in Nat, n >= 4, NEW v \in Int32, Agrees(m, LeAt(at, n, v))
  PROVE  Le(m, at) = v
<1>1. \A k \in 0 .. 3 : Get(m, at + k) = Digit(v, k)
  <2>1. \A k \in 0 .. 3 : at + k \in at .. at + n - 1 /\ (at + k) - at = k
    BY SMT
  <2> QED BY <2>1 DEF Agrees, LeAt
<1>2. Get(m, at) = Digit(v, 0) /\ Get(m, at + 1) = Digit(v, 1)
      /\ Get(m, at + 2) = Digit(v, 2) /\ Get(m, at + 3) = Digit(v, 3)
  BY <1>1, SMT
<1> QED BY <1>2, NumberOfDigits DEF Le

\* So is a big-endian one.
LEMMA ReadBe ==
  ASSUME NEW m, NEW at \in Nat, NEW v \in Int32, Agrees(m, BeAt(at, 4, v))
  PROVE  Be(m, at) = v
<1>1. \A k \in 0 .. 3 : Get(m, at + k) = Digit(v, 3 - k)
  <2>1. \A k \in 0 .. 3 : at + k \in at .. at + 4 - 1 /\ 4 - 1 - ((at + k) - at) = 3 - k
    BY SMT
  <2> QED BY <2>1 DEF Agrees, BeAt
<1>2. Get(m, at + 3) = Digit(v, 0) /\ Get(m, at + 2) = Digit(v, 1)
      /\ Get(m, at + 1) = Digit(v, 2) /\ Get(m, at) = Digit(v, 3)
  BY <1>1, SMT
<1> QED BY <1>2, NumberOfDigits DEF Be

\* And one of 8 bytes.
LEMMA ReadBe64 ==
  ASSUME NEW m, NEW at \in Nat, NEW v \in Int32, Agrees(m, BeAt(at, 8, v))
  PROVE  Be64(m, at) = v
<1>1. \A k \in 4 .. 7 : Get(m, at + k) = Digit(v, 7 - k)
  <2>1. \A k \in 4 .. 7 : at + k \in at .. at + 8 - 1 /\ 8 - 1 - ((at + k) - at) = 7 - k
    BY SMT
  <2> QED BY <2>1 DEF Agrees, BeAt
<1>2. Get(m, (at + 4) + 3) = Digit(v, 0) /\ Get(m, (at + 4) + 2) = Digit(v, 1)
      /\ Get(m, (at + 4) + 1) = Digit(v, 2) /\ Get(m, at + 4) = Digit(v, 3)
  BY <1>1, SMT
<1> QED BY <1>2, NumberOfDigits DEF Be, Be64

\* unshuffle32 gives back what shuffle32 wrote, for both orders of the bytes.
LEMMA ReadShuffled ==
  ASSUME NEW m, NEW at \in Nat, NEW v \in Int32
  PROVE  /\ Agrees(m, shuffleInt(at, v)) => unshuffleInt(m, at) = v
         /\ Agrees(m, shuffleUint(at, v)) => unshuffleUint(m, at) = v
<1>1. ASSUME Agrees(m, shuffleInt(at, v))
      PROVE  /\ Get(m, at + 2) = Digit(v, 0) /\ Get(m, at + 4) = Digit(v, 1)
             /\ Get(m, at) = Digit(v, 2) /\ Get(m, at + 5) = Digit(v, 3)
  <2>1. /\ at + 2 # at + 4 /\ at + 2 # at /\ at + 2 # at + 5
        /\ at + 4 # at /\ at + 4 # at + 5 /\ at # at + 5
    BY SMT
  <2>2. /\ shuffleInt(at, v)[at + 2] = Digit(v, 0) /\ shuffleInt(at, v)[at + 4] = Digit(v, 1)
        /\ shuffleInt(at, v)[at] = Digit(v, 2) /\ shuffleInt(at, v)[at + 5] = Digit(v, 3)
    BY <2>1, SMT DEF shuffleInt
  <2>3. DOMAIN shuffleInt(at, v) = {at + 2, at + 4, at, at + 5}
    BY DEF shuffleInt
  <2> QED BY <1>1, <2>2, <2>3 DEF Agrees
<1>2. ASSUME Agrees(m, shuffleUint(at, v))
      PROVE  /\ Get(m, at + 1) = Digit(v, 0) /\ Get(m, at + 6) = Digit(v, 1)
             /\ Get(m, at + 3) = Digit(v, 2) /\ Get(m, at + 2) = Digit(v, 3)
  <2>1. /\ at + 1 # at + 6 /\ at + 1 # at + 3 /\ at + 1 # at + 2
        /\ at + 6 # at + 3 /\ at + 6 # at + 2 /\ at + 3 # at + 2
    BY SMT
  <2>2. /\ shuffleUint(at, v)[at + 1] = Digit(v, 0) /\ shuffleUint(at, v)[at + 6] = Digit(v, 1)
        /\ shuffleUint(at, v)[at + 3] = Digit(v, 2) /\ shuffleUint(at, v)[at + 2] = Digit(v, 3)
    BY <2>1, SMT DEF shuffleUint
  <2>3. DOMAIN shuffleUint(at, v) = {at + 1, at + 6, at + 3, at + 2}
    BY DEF shuffleUint
  <2> QED BY <1>2, <2>2, <2>3 DEF Agrees
<1> QED BY <1>1, <1>2, NumberOfDigits DEF unshuffleInt, unshuffleUint

\* What was read, written again.
LEMMA Rewrite ==
  ASSUME NEW m, NEW at \in Nat, \A x : Get(m, x) \in Byte
  PROVE  /\ \A n \in Nat : Agrees(m, BytesAt(at, Read(m, at, n)))
         /\ Le(m, at) \in Int32 /\ Agrees(m, LeAt(at, 4, Le(m, at)))
         /\ Be(m, at) \in Int32 /\ Agrees(m, BeAt(at, 4, Be(m, at)))
         /\ unshuffleInt(m, at) \in Int32 /\ Agrees(m, shuffleInt(at, unshuffleInt(m, at)))
         /\ unshuffleUint(m, at) \in Int32 /\ Agrees(m, shuffleUint(at, unshuffleUint(m, at)))
<1>1. ASSUME NEW n \in Nat PROVE Agrees(m, BytesAt(at, Read(m, at, n)))
  <2>1. /\ Len(Read(m, at, n)) = n
        /\ \A k \in 1 .. n : Read(m, at, n)[k] = Get(m, at + k - 1)
    BY SMT DEF Read
  <2>2. \A x \in at .. at + n - 1 : x - at + 1 \in 1 .. n /\ at + (x - at + 1) - 1 = x
    BY SMT
  <2> QED BY <2>1, <2>2, Zenon DEF Agrees, BytesAt
<1>2. /\ Le(m, at) \in Int32
      /\ Digit(Le(m, at), 0) = Get(m, at) /\ Digit(Le(m, at), 1) = Get(m, at + 1)
      /\ Digit(Le(m, at), 2) = Get(m, at + 2) /\ Digit(Le(m, at), 3) = Get(m, at + 3)
  BY DigitsOfNumber DEF Le
<1>3. Agrees(m, LeAt(at, 4, Le(m, at)))
  BY <1>2, SMT DEF Agrees, LeAt
<1>4. /\ Be(m, at) \in Int32
      /\ Digit(Be(m, at), 0) = Get(m, at + 3) /\ Digit(Be(m, at), 1) = Get(m, at + 2)
      /\ Digit(Be(m, at), 2) = Get(m, at + 1) /\ Digit(Be(m, at), 3) = Get(m, at)
  BY DigitsOfNumber DEF Be
<1>5. Agrees(m, BeAt(at, 4, Be(m, at)))
  BY <1>4, SMT DEF Agrees, BeAt
<1>6. /\ unshuffleInt(m, at) \in Int32
      /\ Digit(unshuffleInt(m, at), 0) = Get(m, at + 2)
      /\ Digit(unshuffleInt(m, at), 1) = Get(m, at + 4)
      /\ Digit(unshuffleInt(m, at), 2) = Get(m, at)
      /\ Digit(unshuffleInt(m, at), 3) = Get(m, at + 5)
  BY DigitsOfNumber DEF unshuffleInt
<1>7. Agrees(m, shuffleInt(at, unshuffleInt(m, at)))
  BY <1>6, SMT DEF Agrees, shuffleInt
<1>8. /\ unshuffleUint(m, at) \in Int32
      /\ Digit(unshuffleUint(m, at), 0) = Get(m, at + 1)
      /\ Digit(unshuffleUint(m, at), 1) = Get(m, at + 6)
      /\ Digit(unshuffleUint(m, at), 2) = Get(m, at + 3)
      /\ Digit(unshuffleUint(m, at), 3) = Get(m, at + 2)
  BY DigitsOfNumber DEF unshuffleUint
<1>9. Agrees(m, shuffleUint(at, unshuffleUint(m, at)))
  BY <1>8, SMT DEF Agrees, shuffleUint
<1> QED BY <1>1, <1>2, <1>3, <1>4, <1>5, <1>6, <1>7, <1>8, <1>9

\* Parts that are bytes make a whole that is bytes.
LEMMA LaidMemory ==
  ASSUME NEW w, NEW n, Indexed(w, n), \A i \in 1 .. n : Memory(w[i])
  PROVE  Memory(Laid(w))
BY LaidFacts DEF Memory, Indexed

\* A function on 1 .. n is a sequence of n.
LEMMA BytesSeq ==
  ASSUME NEW n \in Nat, NEW S, NEW f \in [1 .. n -> S]
  PROVE  f \in Seq(S) /\ Len(f) = n
OBVIOUS

\* The writes set bytes.
LEMMA WritesBytes ==
  ASSUME NEW at \in Nat
  PROVE  /\ \A seq \in Seq(Byte) : Memory(BytesAt(at, seq))
         /\ \A n \in 0 .. 12 : \A v \in Int : Memory(LeAt(at, n, v)) /\ Memory(BeAt(at, n, v))
         /\ \A v \in Int : Memory(shuffleInt(at, v)) /\ Memory(shuffleUint(at, v))
<1>1. ASSUME NEW seq \in Seq(Byte) PROVE Memory(BytesAt(at, seq))
  BY SMT DEF Memory, BytesAt
<1>2. ASSUME NEW n \in 0 .. 12, NEW v \in Int PROVE Memory(LeAt(at, n, v)) /\ Memory(BeAt(at, n, v))
  <2>1. \A x \in at .. at + n - 1 : x \in Nat /\ x - at \in 0 .. 11 /\ n - 1 - (x - at) \in 0 .. 11
    BY SMT
  <2>2. \A k \in 0 .. 11 : Digit(v, k) \in Byte
    BY DigitBytes
  <2> QED BY <2>1, <2>2 DEF Memory, LeAt, BeAt
<1>3. ASSUME NEW v \in Int PROVE Memory(shuffleInt(at, v)) /\ Memory(shuffleUint(at, v))
  <2>1. Digit(v, 0) \in Byte /\ Digit(v, 1) \in Byte /\ Digit(v, 2) \in Byte /\ Digit(v, 3) \in Byte
    BY DigitBytes, SMT
  <2> QED BY <2>1, SMT DEF Memory, shuffleInt, shuffleUint
<1> QED BY <1>1, <1>2, <1>3

-----------------------------------------------------------------------------
(* What the metadata files hold, and what is packed.                       *)

Small == {v \in Nat : v <= SizeLimit}

HdrType(f) ==
  CASE f = "mhy0" -> [cab_cnt : Nat, key : [1 .. 32 -> Byte], extra : [1 .. 7 -> Byte]]
    [] f = "mhy1" -> [cab_cnt : Nat, key : [1 .. 4 -> Byte], rc4_key : [1 .. 16 -> Byte],
                      extra : [1 .. 19 -> Byte]]
    [] f = "encr" -> [cab_cnt : Nat, flags : Int32]
    [] f = "blb3" -> [cab_cnt : Nat, unk0x8 : Int32, key : [1 .. 16 -> Byte],
                      cmpr_type : Byte, block_sz_shift : Byte]

MhyMeta == [name : [1 .. 260 -> Byte], flag : Byte, extra : [1 .. 5 -> Byte]]
KeyType == [head : [1 .. 12 -> Byte], extra : [1 .. 5 -> Byte]]
MhyCabType == [meta : MhyMeta, blk_off : Small, blk_sz : Small]
BlkType == [cmp : Small, dec : Small]

\* A name as mhy0 and mhy1 keep it.
FullName(cab) == Len(cab.meta.name) = 260

\* The bytes of an entry in the cab table that are written.
MhyCabBytes(at) == (at .. at + 274) \ {at + 260}

MhyBlockBytes(at) == at .. at + 12

\* A length the code stores in 32 bits is a number that reads back as it is.
LEMMA SmallNumbers ==
  ASSUME NEW v \in Small
  PROVE  v \in Int32 /\ v \in Int /\ v \in Nat
BY SMT DEF Small, Int32, SizeLimit

\* The 16 bytes an mhy1 block starts with are bytes.
LEMMA NewEcBytes == NewEc \in Seq(Byte) /\ Len(NewEc) = 16
BY SMT DEF NewEc, Byte

-----------------------------------------------------------------------------
(* The parts of the headers.                                               *)

InMhyCab(at, cab, m) ==
  /\ Agrees(m, BytesAt(at, cab.meta.name)) /\ Agrees(m, BytesAt(at + 261, <<cab.meta.flag>>))
  /\ Agrees(m, shuffleInt(at + 262, cab.blk_off))
  /\ Agrees(m, shuffleUint(at + 268, cab.blk_sz))
  /\ Agrees(m, BytesAt(at + 263, <<cab.meta.extra[1]>>))
  /\ Agrees(m, BytesAt(at + 265, <<cab.meta.extra[2]>>))
  /\ Agrees(m, BytesAt(at + 268, <<cab.meta.extra[3]>>))
  /\ Agrees(m, BytesAt(at + 272, <<cab.meta.extra[4], cab.meta.extra[5]>>))

SoundMhyCab(at, cab) ==
  /\ Memory(BytesAt(at, cab.meta.name)) /\ Memory(BytesAt(at + 261, <<cab.meta.flag>>))
  /\ Memory(shuffleInt(at + 262, cab.blk_off)) /\ Memory(shuffleUint(at + 268, cab.blk_sz))
  /\ Memory(BytesAt(at + 263, <<cab.meta.extra[1]>>))
  /\ Memory(BytesAt(at + 265, <<cab.meta.extra[2]>>))
  /\ Memory(BytesAt(at + 268, <<cab.meta.extra[3]>>))
  /\ Memory(BytesAt(at + 272, <<cab.meta.extra[4], cab.meta.extra[5]>>))

\* Which bytes an mhy cab entry sets, and what they say.
LEMMA MhyCabWrites ==
  ASSUME NEW at \in Nat, NEW cab, FullName(cab)
  PROVE  /\ DOMAIN MhyCab(at, cab) = MhyCabBytes(at)
         /\ \A m : Agrees(m, MhyCab(at, cab)) <=> InMhyCab(at, cab, m)
         /\ SoundMhyCab(at, cab) => Memory(MhyCab(at, cab))
<1> DEFINE w == << BytesAt(at, cab.meta.name), BytesAt(at + 261, <<cab.meta.flag>>),
                   shuffleInt(at + 262, cab.blk_off), shuffleUint(at + 268, cab.blk_sz),
                   BytesAt(at + 263, <<cab.meta.extra[1]>>),
                   BytesAt(at + 265, <<cab.meta.extra[2]>>),
                   BytesAt(at + 268, <<cab.meta.extra[3]>>),
                   BytesAt(at + 272, <<cab.meta.extra[4], cab.meta.extra[5]>>) >>
           lab == [x \in Nat |-> IF x \in at .. at + 259 THEN 1 ELSE
                     IF x \in at + 261 .. at + 261 THEN 2 ELSE
                     IF x \in {at + 264, at + 266, at + 262, at + 267} THEN 3 ELSE
                     IF x \in {at + 269, at + 274, at + 271, at + 270} THEN 4 ELSE
                     IF x \in at + 263 .. at + 263 THEN 5 ELSE
                     IF x \in at + 265 .. at + 265 THEN 6 ELSE
                     IF x \in at + 268 .. at + 268 THEN 7 ELSE 8]
<1>0. Len(cab.meta.name) = 260
  BY DEF FullName
<1>1. /\ DOMAIN w = 1 .. 8 /\ Indexed(w, 8)
      /\ w[1] = BytesAt(at, cab.meta.name)
      /\ w[2] = BytesAt(at + 261, <<cab.meta.flag>>)
      /\ w[3] = shuffleInt(at + 262, cab.blk_off)
      /\ w[4] = shuffleUint(at + 268, cab.blk_sz)
      /\ w[5] = BytesAt(at + 263, <<cab.meta.extra[1]>>)
      /\ w[6] = BytesAt(at + 265, <<cab.meta.extra[2]>>)
      /\ w[7] = BytesAt(at + 268, <<cab.meta.extra[3]>>)
      /\ w[8] = BytesAt(at + 272, <<cab.meta.extra[4], cab.meta.extra[5]>>)
  BY SMT DEF Indexed
<1>i. Indexed(w, 8)
  BY <1>1
<1>2. MhyCab(at, cab) = Laid(w)
  BY DEF MhyCab
<1> HIDE DEF w
<1>a1. \A x : x \in DOMAIN w[1] <=> x \in at .. at + 259
  BY <1>0, <1>1, SMT DEF BytesAt
<1>a2. \A x : x \in DOMAIN w[2] <=> x \in at + 261 .. at + 261
  BY <1>1, SMT DEF BytesAt
<1>a3. \A x : x \in DOMAIN w[3] <=> x \in {at + 264, at + 266, at + 262, at + 267}
  BY <1>1, SMT DEF shuffleInt
<1>a4. \A x : x \in DOMAIN w[4] <=> x \in {at + 269, at + 274, at + 271, at + 270}
  BY <1>1, SMT DEF shuffleUint
<1>a5. \A x : x \in DOMAIN w[5] <=> x \in at + 263 .. at + 263
  BY <1>1, SMT DEF BytesAt
<1>a6. \A x : x \in DOMAIN w[6] <=> x \in at + 265 .. at + 265
  BY <1>1, SMT DEF BytesAt
<1>a7. \A x : x \in DOMAIN w[7] <=> x \in at + 268 .. at + 268
  BY <1>1, SMT DEF BytesAt
<1>a8. \A x : x \in DOMAIN w[8] <=> x \in at + 272 .. at + 273
  BY <1>1, SMT DEF BytesAt
<1>3. 8 \in Nat /\ \A i \in 1 .. 8 : i = 1 \/ i = 2 \/ i = 3 \/ i = 4 \/ i = 5 \/ i = 6 \/ i = 7 \/ i = 8
  BY SMT
<1>4. 1 \in 1 .. 8 /\ 2 \in 1 .. 8 /\ 3 \in 1 .. 8 /\ 4 \in 1 .. 8 /\ 5 \in 1 .. 8
      /\ 6 \in 1 .. 8 /\ 7 \in 1 .. 8 /\ 8 \in 1 .. 8
  BY SMT
<1>5. \A i \in 1 .. 8 : \A x \in DOMAIN w[i] : lab[x] = i
  <2>1. \A x \in DOMAIN w[1] : lab[x] = 1
    BY <1>a1, <1>0, SMT
  <2>2. \A x \in DOMAIN w[2] : lab[x] = 2
    BY <1>a2, <1>0, SMT
  <2>3. \A x \in DOMAIN w[3] : lab[x] = 3
    BY <1>a3, <1>0, SMT
  <2>4. \A x \in DOMAIN w[4] : lab[x] = 4
    BY <1>a4, <1>0, SMT
  <2>5. \A x \in DOMAIN w[5] : lab[x] = 5
    BY <1>a5, <1>0, SMT
  <2>6. \A x \in DOMAIN w[6] : lab[x] = 6
    BY <1>a6, <1>0, SMT
  <2>7. \A x \in DOMAIN w[7] : lab[x] = 7
    BY <1>a7, <1>0, SMT
  <2>8. \A x \in DOMAIN w[8] : lab[x] = 8
    BY <1>a8, <1>0, SMT
  <2> HIDE DEF lab
  <2> QED BY <1>3, <2>1, <2>2, <2>3, <2>4, <2>5, <2>6, <2>7, <2>8
<1> HIDE DEF lab
<1>6. \A i \in 1 .. 8 : Holds(Laid(w), w[i])
  <2>1. Apart(w)
    BY <1>1, <1>5 DEF Apart
  <2> QED BY <1>i, <2>1, LaidHolds
<1>8. \A x : x \in DOMAIN Laid(w) <=>
           x \in DOMAIN w[1] \/ x \in DOMAIN w[2] \/ x \in DOMAIN w[3] \/ x \in DOMAIN w[4]
           \/ x \in DOMAIN w[5] \/ x \in DOMAIN w[6] \/ x \in DOMAIN w[7] \/ x \in DOMAIN w[8]
  <2>1. \A x : x \in DOMAIN Laid(w) <=> \E i \in 1 .. 8 : x \in DOMAIN w[i]
    BY <1>i, LaidDomain, Zenon
  <2> QED BY <1>3, <1>4, <2>1
<1>9. DOMAIN Laid(w) = MhyCabBytes(at)
  <2>1. \A x : x \in MhyCabBytes(at) <=>
             (x \in at .. at + 259) \/ (x \in at + 261 .. at + 261)
             \/ (x \in {at + 264, at + 266, at + 262, at + 267})
             \/ (x \in {at + 269, at + 274, at + 271, at + 270}) \/ (x \in at + 263 .. at + 263)
             \/ (x \in at + 265 .. at + 265) \/ (x \in at + 268 .. at + 268)
             \/ (x \in at + 272 .. at + 273)
    BY <1>0, SMT DEF MhyCabBytes
  <2>2. \A x : x \in DOMAIN Laid(w) <=> x \in MhyCabBytes(at)
    BY <1>8, <2>1, <1>a1, <1>a2, <1>a3, <1>a4, <1>a5, <1>a6, <1>a7, <1>a8
  <2> QED BY <2>2
<1>7. ASSUME NEW m, Agrees(m, Laid(w)) PROVE InMhyCab(at, cab, m)
  <2>1. \A i \in 1 .. 8 : Agrees(m, w[i])
    BY <1>6, <1>7, AgreesThrough
  <2>2. Agrees(m, w[1]) /\ Agrees(m, w[2]) /\ Agrees(m, w[3]) /\ Agrees(m, w[4])
        /\ Agrees(m, w[5]) /\ Agrees(m, w[6]) /\ Agrees(m, w[7]) /\ Agrees(m, w[8])
    BY <1>4, <2>1
  <2> QED BY <1>1, <2>2 DEF InMhyCab
<1>10. ASSUME NEW m, InMhyCab(at, cab, m) PROVE Agrees(m, Laid(w))
  <2>0. Agrees(m, w[1]) /\ Agrees(m, w[2]) /\ Agrees(m, w[3]) /\ Agrees(m, w[4])
        /\ Agrees(m, w[5]) /\ Agrees(m, w[6]) /\ Agrees(m, w[7]) /\ Agrees(m, w[8])
    BY <1>1, <1>10 DEF InMhyCab
  <2>1. \A i \in 1 .. 8 : Agrees(m, w[i])
    BY <1>3, <2>0
  <2> QED BY <1>i, <2>1, LaidAgrees
<1>11. ASSUME SoundMhyCab(at, cab) PROVE Memory(Laid(w))
  <2>0. Memory(w[1]) /\ Memory(w[2]) /\ Memory(w[3]) /\ Memory(w[4]) /\ Memory(w[5])
        /\ Memory(w[6]) /\ Memory(w[7]) /\ Memory(w[8])
    BY <1>1, <1>11 DEF SoundMhyCab
  <2>1. \A i \in 1 .. 8 : Memory(w[i])
    BY <1>3, <2>0
  <2> QED BY <1>i, <2>1, LaidMemory
<1> QED BY <1>2, <1>7, <1>9, <1>10, <1>11

InMhyBlock(at, blk, extra, m) ==
  /\ Agrees(m, shuffleInt(at, blk.cmp)) /\ Agrees(m, shuffleUint(at + 6, blk.dec))
  /\ Agrees(m, BytesAt(at + 1, <<extra[1]>>)) /\ Agrees(m, BytesAt(at + 3, <<extra[2]>>))
  /\ Agrees(m, BytesAt(at + 6, <<extra[3]>>))
  /\ Agrees(m, BytesAt(at + 10, <<extra[4], extra[5]>>))

SoundMhyBlock(at, blk, extra) ==
  /\ Memory(shuffleInt(at, blk.cmp)) /\ Memory(shuffleUint(at + 6, blk.dec))
  /\ Memory(BytesAt(at + 1, <<extra[1]>>)) /\ Memory(BytesAt(at + 3, <<extra[2]>>))
  /\ Memory(BytesAt(at + 6, <<extra[3]>>)) /\ Memory(BytesAt(at + 10, <<extra[4], extra[5]>>))

\* The same of an mhy block entry.
LEMMA MhyBlockWrites ==
  ASSUME NEW at \in Nat, NEW blk, NEW extra
  PROVE  /\ DOMAIN MhyBlock(at, blk, extra) = MhyBlockBytes(at)
         /\ \A m : Agrees(m, MhyBlock(at, blk, extra)) <=> InMhyBlock(at, blk, extra, m)
         /\ SoundMhyBlock(at, blk, extra) => Memory(MhyBlock(at, blk, extra))
<1> DEFINE w == << shuffleInt(at, blk.cmp), shuffleUint(at + 6, blk.dec),
                   BytesAt(at + 1, <<extra[1]>>), BytesAt(at + 3, <<extra[2]>>),
                   BytesAt(at + 6, <<extra[3]>>), BytesAt(at + 10, <<extra[4], extra[5]>>) >>
           lab == [x \in Nat |-> IF x \in {at + 2, at + 4, at, at + 5} THEN 1 ELSE
                     IF x \in {at + 7, at + 12, at + 9, at + 8} THEN 2 ELSE
                     IF x \in at + 1 .. at + 1 THEN 3 ELSE IF x \in at + 3 .. at + 3 THEN 4 ELSE
                     IF x \in at + 6 .. at + 6 THEN 5 ELSE 6]
<1>0. TRUE
  OBVIOUS
<1>1. /\ DOMAIN w = 1 .. 6 /\ Indexed(w, 6)
      /\ w[1] = shuffleInt(at, blk.cmp)
      /\ w[2] = shuffleUint(at + 6, blk.dec)
      /\ w[3] = BytesAt(at + 1, <<extra[1]>>)
      /\ w[4] = BytesAt(at + 3, <<extra[2]>>)
      /\ w[5] = BytesAt(at + 6, <<extra[3]>>)
      /\ w[6] = BytesAt(at + 10, <<extra[4], extra[5]>>)
  BY SMT DEF Indexed
<1>i. Indexed(w, 6)
  BY <1>1
<1>2. MhyBlock(at, blk, extra) = Laid(w)
  BY DEF MhyBlock
<1> HIDE DEF w
<1>a1. \A x : x \in DOMAIN w[1] <=> x \in {at + 2, at + 4, at, at + 5}
  BY <1>1, SMT DEF shuffleInt
<1>a2. \A x : x \in DOMAIN w[2] <=> x \in {at + 7, at + 12, at + 9, at + 8}
  BY <1>1, SMT DEF shuffleUint
<1>a3. \A x : x \in DOMAIN w[3] <=> x \in at + 1 .. at + 1
  BY <1>1, SMT DEF BytesAt
<1>a4. \A x : x \in DOMAIN w[4] <=> x \in at + 3 .. at + 3
  BY <1>1, SMT DEF BytesAt
<1>a5. \A x : x \in DOMAIN w[5] <=> x \in at + 6 .. at + 6
  BY <1>1, SMT DEF BytesAt
<1>a6. \A x : x \in DOMAIN w[6] <=> x \in at + 10 .. at + 11
  BY <1>1, SMT DEF BytesAt
<1>3. 6 \in Nat /\ \A i \in 1 .. 6 : i = 1 \/ i = 2 \/ i = 3 \/ i = 4 \/ i = 5 \/ i = 6
  BY SMT
<1>4. 1 \in 1 .. 6 /\ 2 \in 1 .. 6 /\ 3 \in 1 .. 6 /\ 4 \in 1 .. 6 /\ 5 \in 1 .. 6
      /\ 6 \in 1 .. 6
  BY SMT
<1>5. \A i \in 1 .. 6 : \A x \in DOMAIN w[i] : lab[x] = i
  <2>1. \A x \in DOMAIN w[1] : lab[x] = 1
    BY <1>a1, <1>0, SMT
  <2>2. \A x \in DOMAIN w[2] : lab[x] = 2
    BY <1>a2, <1>0, SMT
  <2>3. \A x \in DOMAIN w[3] : lab[x] = 3
    BY <1>a3, <1>0, SMT
  <2>4. \A x \in DOMAIN w[4] : lab[x] = 4
    BY <1>a4, <1>0, SMT
  <2>5. \A x \in DOMAIN w[5] : lab[x] = 5
    BY <1>a5, <1>0, SMT
  <2>6. \A x \in DOMAIN w[6] : lab[x] = 6
    BY <1>a6, <1>0, SMT
  <2> HIDE DEF lab
  <2> QED BY <1>3, <2>1, <2>2, <2>3, <2>4, <2>5, <2>6
<1> HIDE DEF lab
<1>6. \A i \in 1 .. 6 : Holds(Laid(w), w[i])
  <2>1. Apart(w)
    BY <1>1, <1>5 DEF Apart
  <2> QED BY <1>i, <2>1, LaidHolds
<1>8. \A x : x \in DOMAIN Laid(w) <=>
           x \in DOMAIN w[1] \/ x \in DOMAIN w[2] \/ x \in DOMAIN w[3] \/ x \in DOMAIN w[4]
           \/ x \in DOMAIN w[5] \/ x \in DOMAIN w[6]
  <2>1. \A x : x \in DOMAIN Laid(w) <=> \E i \in 1 .. 6 : x \in DOMAIN w[i]
    BY <1>i, LaidDomain, Zenon
  <2> QED BY <1>3, <1>4, <2>1
<1>9. DOMAIN Laid(w) = MhyBlockBytes(at)
  <2>1. \A x : x \in MhyBlockBytes(at) <=>
             (x \in {at + 2, at + 4, at, at + 5}) \/ (x \in {at + 7, at + 12, at + 9, at + 8})
             \/ (x \in at + 1 .. at + 1) \/ (x \in at + 3 .. at + 3) \/ (x \in at + 6 .. at + 6)
             \/ (x \in at + 10 .. at + 11)
    BY <1>0, SMT DEF MhyBlockBytes
  <2>2. \A x : x \in DOMAIN Laid(w) <=> x \in MhyBlockBytes(at)
    BY <1>8, <2>1, <1>a1, <1>a2, <1>a3, <1>a4, <1>a5, <1>a6
  <2> QED BY <2>2
<1>7. ASSUME NEW m, Agrees(m, Laid(w)) PROVE InMhyBlock(at, blk, extra, m)
  <2>1. \A i \in 1 .. 6 : Agrees(m, w[i])
    BY <1>6, <1>7, AgreesThrough
  <2>2. Agrees(m, w[1]) /\ Agrees(m, w[2]) /\ Agrees(m, w[3]) /\ Agrees(m, w[4])
        /\ Agrees(m, w[5]) /\ Agrees(m, w[6])
    BY <1>4, <2>1
  <2> QED BY <1>1, <2>2 DEF InMhyBlock
<1>10. ASSUME NEW m, InMhyBlock(at, blk, extra, m) PROVE Agrees(m, Laid(w))
  <2>0. Agrees(m, w[1]) /\ Agrees(m, w[2]) /\ Agrees(m, w[3]) /\ Agrees(m, w[4])
        /\ Agrees(m, w[5]) /\ Agrees(m, w[6])
    BY <1>1, <1>10 DEF InMhyBlock
  <2>1. \A i \in 1 .. 6 : Agrees(m, w[i])
    BY <1>3, <2>0
  <2> QED BY <1>i, <2>1, LaidAgrees
<1>11. ASSUME SoundMhyBlock(at, blk, extra) PROVE Memory(Laid(w))
  <2>0. Memory(w[1]) /\ Memory(w[2]) /\ Memory(w[3]) /\ Memory(w[4]) /\ Memory(w[5])
        /\ Memory(w[6])
    BY <1>1, <1>11 DEF SoundMhyBlock
  <2>1. \A i \in 1 .. 6 : Memory(w[i])
    BY <1>3, <2>0
  <2> QED BY <1>i, <2>1, LaidMemory
<1> QED BY <1>2, <1>7, <1>9, <1>10, <1>11

InMhy0Outer(hdr, len, m) ==
  /\ Agrees(m, BeAt(0, 4, Mhy0Magic)) /\ Agrees(m, LeAt(4, 4, HeaderSize + 39))
  /\ Agrees(m, BytesAt(8, hdr.key)) /\ Agrees(m, BytesAt(40, <<hdr.extra[1]>>))
  /\ Agrees(m, BytesAt(44, SubSeq(hdr.extra, 2, 3))) /\ Agrees(m, shuffleUint(40, len))

SoundMhy0Outer(hdr, len) ==
  /\ Memory(BeAt(0, 4, Mhy0Magic)) /\ Memory(LeAt(4, 4, HeaderSize + 39))
  /\ Memory(BytesAt(8, hdr.key)) /\ Memory(BytesAt(40, <<hdr.extra[1]>>))
  /\ Memory(BytesAt(44, SubSeq(hdr.extra, 2, 3))) /\ Memory(shuffleUint(40, len))

\* The same of the outer header of mhy0.
LEMMA Mhy0OuterWrites ==
  ASSUME NEW hdr \in HdrType("mhy0"), NEW len
  PROVE  /\ DOMAIN Mhy0Outer(hdr, len) = 0 .. 46
         /\ \A m : Agrees(m, Mhy0Outer(hdr, len)) <=> InMhy0Outer(hdr, len, m)
         /\ SoundMhy0Outer(hdr, len) => Memory(Mhy0Outer(hdr, len))
<1> DEFINE w == << BeAt(0, 4, Mhy0Magic), LeAt(4, 4, HeaderSize + 39), BytesAt(8, hdr.key),
                   BytesAt(40, <<hdr.extra[1]>>), BytesAt(44, SubSeq(hdr.extra, 2, 3)),
                   shuffleUint(40, len) >>
           lab == [x \in Nat |-> IF x \in 0 .. 3 THEN 1 ELSE IF x \in 4 .. 7 THEN 2 ELSE
                     IF x \in 8 .. 39 THEN 3 ELSE IF x \in 40 .. 40 THEN 4 ELSE
                     IF x \in 44 .. 45 THEN 5 ELSE 6]
<1>0. Len(hdr.key) = 32 /\ Len(SubSeq(hdr.extra, 2, 3)) = 2
  BY BytesSeq DEF HdrType
<1>1. /\ DOMAIN w = 1 .. 6 /\ Indexed(w, 6)
      /\ w[1] = BeAt(0, 4, Mhy0Magic)
      /\ w[2] = LeAt(4, 4, HeaderSize + 39)
      /\ w[3] = BytesAt(8, hdr.key)
      /\ w[4] = BytesAt(40, <<hdr.extra[1]>>)
      /\ w[5] = BytesAt(44, SubSeq(hdr.extra, 2, 3))
      /\ w[6] = shuffleUint(40, len)
  BY SMT DEF Indexed
<1>i. Indexed(w, 6)
  BY <1>1
<1>2. Mhy0Outer(hdr, len) = Laid(w)
  BY DEF Mhy0Outer
<1> HIDE DEF w
<1>a1. \A x : x \in DOMAIN w[1] <=> x \in 0 .. 3
  BY <1>1, SMT DEF BeAt
<1>a2. \A x : x \in DOMAIN w[2] <=> x \in 4 .. 7
  BY <1>1, SMT DEF LeAt
<1>a3. \A x : x \in DOMAIN w[3] <=> x \in 8 .. 39
  BY <1>0, <1>1, SMT DEF BytesAt
<1>a4. \A x : x \in DOMAIN w[4] <=> x \in 40 .. 40
  BY <1>1, SMT DEF BytesAt
<1>a5. \A x : x \in DOMAIN w[5] <=> x \in 44 .. 45
  BY <1>0, <1>1, SMT DEF BytesAt
<1>a6. \A x : x \in DOMAIN w[6] <=> x \in {41, 46, 43, 42}
  BY <1>1, SMT DEF shuffleUint
<1>3. 6 \in Nat /\ \A i \in 1 .. 6 : i = 1 \/ i = 2 \/ i = 3 \/ i = 4 \/ i = 5 \/ i = 6
  BY SMT
<1>4. 1 \in 1 .. 6 /\ 2 \in 1 .. 6 /\ 3 \in 1 .. 6 /\ 4 \in 1 .. 6 /\ 5 \in 1 .. 6
      /\ 6 \in 1 .. 6
  BY SMT
<1>5. \A i \in 1 .. 6 : \A x \in DOMAIN w[i] : lab[x] = i
  <2>1. \A x \in DOMAIN w[1] : lab[x] = 1
    BY <1>a1, <1>0, SMT
  <2>2. \A x \in DOMAIN w[2] : lab[x] = 2
    BY <1>a2, <1>0, SMT
  <2>3. \A x \in DOMAIN w[3] : lab[x] = 3
    BY <1>a3, <1>0, SMT
  <2>4. \A x \in DOMAIN w[4] : lab[x] = 4
    BY <1>a4, <1>0, SMT
  <2>5. \A x \in DOMAIN w[5] : lab[x] = 5
    BY <1>a5, <1>0, SMT
  <2>6. \A x \in DOMAIN w[6] : lab[x] = 6
    BY <1>a6, <1>0, SMT
  <2> HIDE DEF lab
  <2> QED BY <1>3, <2>1, <2>2, <2>3, <2>4, <2>5, <2>6
<1> HIDE DEF lab
<1>6. \A i \in 1 .. 6 : Holds(Laid(w), w[i])
  <2>1. Apart(w)
    BY <1>1, <1>5 DEF Apart
  <2> QED BY <1>i, <2>1, LaidHolds
<1>8. \A x : x \in DOMAIN Laid(w) <=>
           x \in DOMAIN w[1] \/ x \in DOMAIN w[2] \/ x \in DOMAIN w[3] \/ x \in DOMAIN w[4]
           \/ x \in DOMAIN w[5] \/ x \in DOMAIN w[6]
  <2>1. \A x : x \in DOMAIN Laid(w) <=> \E i \in 1 .. 6 : x \in DOMAIN w[i]
    BY <1>i, LaidDomain, Zenon
  <2> QED BY <1>3, <1>4, <2>1
<1>9. DOMAIN Laid(w) = 0 .. 46
  <2>1. \A x : x \in 0 .. 46 <=>
             (x \in 0 .. 3) \/ (x \in 4 .. 7) \/ (x \in 8 .. 39) \/ (x \in 40 .. 40)
             \/ (x \in 44 .. 45) \/ (x \in {41, 46, 43, 42})
    BY <1>0, SMT
  <2>2. \A x : x \in DOMAIN Laid(w) <=> x \in 0 .. 46
    BY <1>8, <2>1, <1>a1, <1>a2, <1>a3, <1>a4, <1>a5, <1>a6
  <2> QED BY <2>2
<1>7. ASSUME NEW m, Agrees(m, Laid(w)) PROVE InMhy0Outer(hdr, len, m)
  <2>1. \A i \in 1 .. 6 : Agrees(m, w[i])
    BY <1>6, <1>7, AgreesThrough
  <2>2. Agrees(m, w[1]) /\ Agrees(m, w[2]) /\ Agrees(m, w[3]) /\ Agrees(m, w[4])
        /\ Agrees(m, w[5]) /\ Agrees(m, w[6])
    BY <1>4, <2>1
  <2> QED BY <1>1, <2>2 DEF InMhy0Outer
<1>10. ASSUME NEW m, InMhy0Outer(hdr, len, m) PROVE Agrees(m, Laid(w))
  <2>0. Agrees(m, w[1]) /\ Agrees(m, w[2]) /\ Agrees(m, w[3]) /\ Agrees(m, w[4])
        /\ Agrees(m, w[5]) /\ Agrees(m, w[6])
    BY <1>1, <1>10 DEF InMhy0Outer
  <2>1. \A i \in 1 .. 6 : Agrees(m, w[i])
    BY <1>3, <2>0
  <2> QED BY <1>i, <2>1, LaidAgrees
<1>11. ASSUME SoundMhy0Outer(hdr, len) PROVE Memory(Laid(w))
  <2>0. Memory(w[1]) /\ Memory(w[2]) /\ Memory(w[3]) /\ Memory(w[4]) /\ Memory(w[5])
        /\ Memory(w[6])
    BY <1>1, <1>11 DEF SoundMhy0Outer
  <2>1. \A i \in 1 .. 6 : Memory(w[i])
    BY <1>3, <2>0
  <2> QED BY <1>i, <2>1, LaidMemory
<1> QED BY <1>2, <1>7, <1>9, <1>10, <1>11

InMhy1Outer(hdr, len, m) ==
  /\ Agrees(m, BeAt(0, 4, Mhy1Magic)) /\ Agrees(m, LeAt(4, 4, HeaderSize + 55))
  /\ Agrees(m, BytesAt(8, hdr.key)) /\ Agrees(m, BytesAt(12, NewEc))
  /\ Agrees(m, BytesAt(28, hdr.rc4_key)) /\ Agrees(m, BytesAt(44, SubSeq(hdr.extra, 1, 12)))
  /\ Agrees(m, BytesAt(56, <<hdr.extra[13]>>))
  /\ Agrees(m, BytesAt(60, SubSeq(hdr.extra, 14, 15))) /\ Agrees(m, shuffleUint(56, len))

SoundMhy1Outer(hdr, len) ==
  /\ Memory(BeAt(0, 4, Mhy1Magic)) /\ Memory(LeAt(4, 4, HeaderSize + 55))
  /\ Memory(BytesAt(8, hdr.key)) /\ Memory(BytesAt(12, NewEc))
  /\ Memory(BytesAt(28, hdr.rc4_key)) /\ Memory(BytesAt(44, SubSeq(hdr.extra, 1, 12)))
  /\ Memory(BytesAt(56, <<hdr.extra[13]>>)) /\ Memory(BytesAt(60, SubSeq(hdr.extra, 14, 15)))
  /\ Memory(shuffleUint(56, len))

\* The same of the outer header of mhy1.
LEMMA Mhy1OuterWrites ==
  ASSUME NEW hdr \in HdrType("mhy1"), NEW len
  PROVE  /\ DOMAIN Mhy1Outer(hdr, len) = 0 .. 62
         /\ \A m : Agrees(m, Mhy1Outer(hdr, len)) <=> InMhy1Outer(hdr, len, m)
         /\ SoundMhy1Outer(hdr, len) => Memory(Mhy1Outer(hdr, len))
<1> DEFINE w == << BeAt(0, 4, Mhy1Magic), LeAt(4, 4, HeaderSize + 55), BytesAt(8, hdr.key),
                   BytesAt(12, NewEc), BytesAt(28, hdr.rc4_key),
                   BytesAt(44, SubSeq(hdr.extra, 1, 12)), BytesAt(56, <<hdr.extra[13]>>),
                   BytesAt(60, SubSeq(hdr.extra, 14, 15)), shuffleUint(56, len) >>
           lab == [x \in Nat |-> IF x \in 0 .. 3 THEN 1 ELSE IF x \in 4 .. 7 THEN 2 ELSE
                     IF x \in 8 .. 11 THEN 3 ELSE IF x \in 12 .. 27 THEN 4 ELSE
                     IF x \in 28 .. 43 THEN 5 ELSE IF x \in 44 .. 55 THEN 6 ELSE
                     IF x \in 56 .. 56 THEN 7 ELSE IF x \in 60 .. 61 THEN 8 ELSE 9]
<1>0. /\ Len(hdr.key) = 4 /\ Len(NewEc) = 16 /\ Len(hdr.rc4_key) = 16
      /\ Len(SubSeq(hdr.extra, 1, 12)) = 12 /\ Len(SubSeq(hdr.extra, 14, 15)) = 2
  BY BytesSeq, NewEcBytes DEF HdrType
<1>1. /\ DOMAIN w = 1 .. 9 /\ Indexed(w, 9)
      /\ w[1] = BeAt(0, 4, Mhy1Magic)
      /\ w[2] = LeAt(4, 4, HeaderSize + 55)
      /\ w[3] = BytesAt(8, hdr.key)
      /\ w[4] = BytesAt(12, NewEc)
      /\ w[5] = BytesAt(28, hdr.rc4_key)
      /\ w[6] = BytesAt(44, SubSeq(hdr.extra, 1, 12))
      /\ w[7] = BytesAt(56, <<hdr.extra[13]>>)
      /\ w[8] = BytesAt(60, SubSeq(hdr.extra, 14, 15))
      /\ w[9] = shuffleUint(56, len)
  BY SMT DEF Indexed
<1>i. Indexed(w, 9)
  BY <1>1
<1>2. Mhy1Outer(hdr, len) = Laid(w)
  BY DEF Mhy1Outer
<1> HIDE DEF w
<1>a1. \A x : x \in DOMAIN w[1] <=> x \in 0 .. 3
  BY <1>1, SMT DEF BeAt
<1>a2. \A x : x \in DOMAIN w[2] <=> x \in 4 .. 7
  BY <1>1, SMT DEF LeAt
<1>a3. \A x : x \in DOMAIN w[3] <=> x \in 8 .. 11
  BY <1>0, <1>1, SMT DEF BytesAt
<1>a4. \A x : x \in DOMAIN w[4] <=> x \in 12 .. 27
  BY <1>0, <1>1, SMT DEF BytesAt
<1>a5. \A x : x \in DOMAIN w[5] <=> x \in 28 .. 43
  BY <1>0, <1>1, SMT DEF BytesAt
<1>a6. \A x : x \in DOMAIN w[6] <=> x \in 44 .. 55
  BY <1>0, <1>1, SMT DEF BytesAt
<1>a7. \A x : x \in DOMAIN w[7] <=> x \in 56 .. 56
  BY <1>1, SMT DEF BytesAt
<1>a8. \A x : x \in DOMAIN w[8] <=> x \in 60 .. 61
  BY <1>0, <1>1, SMT DEF BytesAt
<1>a9. \A x : x \in DOMAIN w[9] <=> x \in {57, 62, 59, 58}
  BY <1>1, SMT DEF shuffleUint
<1>3. 9 \in Nat /\ \A i \in 1 .. 9 : \/ i = 1 \/ i = 2 \/ i = 3 \/ i = 4 \/ i = 5
                                  \/ i = 6 \/ i = 7 \/ i = 8 \/ i = 9
  BY SMT
<1>4. 1 \in 1 .. 9 /\ 2 \in 1 .. 9 /\ 3 \in 1 .. 9 /\ 4 \in 1 .. 9 /\ 5 \in 1 .. 9
      /\ 6 \in 1 .. 9 /\ 7 \in 1 .. 9 /\ 8 \in 1 .. 9 /\ 9 \in 1 .. 9
  BY SMT
<1>5. \A i \in 1 .. 9 : \A x \in DOMAIN w[i] : lab[x] = i
  <2>1. \A x \in DOMAIN w[1] : lab[x] = 1
    BY <1>a1, <1>0, SMT
  <2>2. \A x \in DOMAIN w[2] : lab[x] = 2
    BY <1>a2, <1>0, SMT
  <2>3. \A x \in DOMAIN w[3] : lab[x] = 3
    BY <1>a3, <1>0, SMT
  <2>4. \A x \in DOMAIN w[4] : lab[x] = 4
    BY <1>a4, <1>0, SMT
  <2>5. \A x \in DOMAIN w[5] : lab[x] = 5
    BY <1>a5, <1>0, SMT
  <2>6. \A x \in DOMAIN w[6] : lab[x] = 6
    BY <1>a6, <1>0, SMT
  <2>7. \A x \in DOMAIN w[7] : lab[x] = 7
    BY <1>a7, <1>0, SMT
  <2>8. \A x \in DOMAIN w[8] : lab[x] = 8
    BY <1>a8, <1>0, SMT
  <2>9. \A x \in DOMAIN w[9] : lab[x] = 9
    BY <1>a9, <1>0, SMT
  <2> HIDE DEF lab
  <2> QED BY <1>3, <2>1, <2>2, <2>3, <2>4, <2>5, <2>6, <2>7, <2>8, <2>9
<1> HIDE DEF lab
<1>6. \A i \in 1 .. 9 : Holds(Laid(w), w[i])
  <2>1. Apart(w)
    BY <1>1, <1>5 DEF Apart
  <2> QED BY <1>i, <2>1, LaidHolds
<1>8. \A x : x \in DOMAIN Laid(w) <=>
           x \in DOMAIN w[1] \/ x \in DOMAIN w[2] \/ x \in DOMAIN w[3] \/ x \in DOMAIN w[4]
           \/ x \in DOMAIN w[5] \/ x \in DOMAIN w[6] \/ x \in DOMAIN w[7] \/ x \in DOMAIN w[8]
           \/ x \in DOMAIN w[9]
  <2>1. \A x : x \in DOMAIN Laid(w) <=> \E i \in 1 .. 9 : x \in DOMAIN w[i]
    BY <1>i, LaidDomain, Zenon
  <2> QED BY <1>3, <1>4, <2>1
<1>9. DOMAIN Laid(w) = 0 .. 62
  <2>1. \A x : x \in 0 .. 62 <=>
             (x \in 0 .. 3) \/ (x \in 4 .. 7) \/ (x \in 8 .. 11) \/ (x \in 12 .. 27)
             \/ (x \in 28 .. 43) \/ (x \in 44 .. 55) \/ (x \in 56 .. 56) \/ (x \in 60 .. 61)
             \/ (x \in {57, 62, 59, 58})
    BY <1>0, SMT
  <2>2. \A x : x \in DOMAIN Laid(w) <=> x \in 0 .. 62
    BY <1>8, <2>1, <1>a1, <1>a2, <1>a3, <1>a4, <1>a5, <1>a6, <1>a7, <1>a8, <1>a9
  <2> QED BY <2>2
<1>7. ASSUME NEW m, Agrees(m, Laid(w)) PROVE InMhy1Outer(hdr, len, m)
  <2>1. \A i \in 1 .. 9 : Agrees(m, w[i])
    BY <1>6, <1>7, AgreesThrough
  <2>2. Agrees(m, w[1]) /\ Agrees(m, w[2]) /\ Agrees(m, w[3]) /\ Agrees(m, w[4])
        /\ Agrees(m, w[5]) /\ Agrees(m, w[6]) /\ Agrees(m, w[7]) /\ Agrees(m, w[8])
        /\ Agrees(m, w[9])
    BY <1>4, <2>1
  <2> QED BY <1>1, <2>2 DEF InMhy1Outer
<1>10. ASSUME NEW m, InMhy1Outer(hdr, len, m) PROVE Agrees(m, Laid(w))
  <2>0. Agrees(m, w[1]) /\ Agrees(m, w[2]) /\ Agrees(m, w[3]) /\ Agrees(m, w[4])
        /\ Agrees(m, w[5]) /\ Agrees(m, w[6]) /\ Agrees(m, w[7]) /\ Agrees(m, w[8])
        /\ Agrees(m, w[9])
    BY <1>1, <1>10 DEF InMhy1Outer
  <2>1. \A i \in 1 .. 9 : Agrees(m, w[i])
    BY <1>3, <2>0
  <2> QED BY <1>i, <2>1, LaidAgrees
<1>11. ASSUME SoundMhy1Outer(hdr, len) PROVE Memory(Laid(w))
  <2>0. Memory(w[1]) /\ Memory(w[2]) /\ Memory(w[3]) /\ Memory(w[4]) /\ Memory(w[5])
        /\ Memory(w[6]) /\ Memory(w[7]) /\ Memory(w[8]) /\ Memory(w[9])
    BY <1>1, <1>11 DEF SoundMhy1Outer
  <2>1. \A i \in 1 .. 9 : Memory(w[i])
    BY <1>3, <2>0
  <2> QED BY <1>i, <2>1, LaidMemory
<1> QED BY <1>2, <1>7, <1>9, <1>10, <1>11

InMhy1Head(head, m) ==
  /\ Agrees(m, BytesAt(0, SubSeq(head, 1, 4))) /\ Agrees(m, BytesAt(4, NewEc))
  /\ Agrees(m, BytesAt(20, SubSeq(head, 5, 12)))

SoundMhy1Head(head) ==
  /\ Memory(BytesAt(0, SubSeq(head, 1, 4))) /\ Memory(BytesAt(4, NewEc))
  /\ Memory(BytesAt(20, SubSeq(head, 5, 12)))

\* The same of the first 28 bytes of an mhy1 block.
LEMMA Mhy1HeadWrites ==
  ASSUME NEW head \in [1 .. 12 -> Byte]
  PROVE  /\ DOMAIN Mhy1Head(head) = 0 .. 27
         /\ \A m : Agrees(m, Mhy1Head(head)) <=> InMhy1Head(head, m)
         /\ SoundMhy1Head(head) => Memory(Mhy1Head(head))
<1> DEFINE w == << BytesAt(0, SubSeq(head, 1, 4)), BytesAt(4, NewEc),
                   BytesAt(20, SubSeq(head, 5, 12)) >>
           lab == [x \in Nat |-> IF x \in 0 .. 3 THEN 1 ELSE IF x \in 4 .. 19 THEN 2 ELSE 3]
<1>0. Len(SubSeq(head, 1, 4)) = 4 /\ Len(NewEc) = 16 /\ Len(SubSeq(head, 5, 12)) = 8
  BY BytesSeq, NewEcBytes
<1>1. /\ DOMAIN w = 1 .. 3 /\ Indexed(w, 3)
      /\ w[1] = BytesAt(0, SubSeq(head, 1, 4))
      /\ w[2] = BytesAt(4, NewEc)
      /\ w[3] = BytesAt(20, SubSeq(head, 5, 12))
  BY SMT DEF Indexed
<1>i. Indexed(w, 3)
  BY <1>1
<1>2. Mhy1Head(head) = Laid(w)
  BY DEF Mhy1Head
<1> HIDE DEF w
<1>a1. \A x : x \in DOMAIN w[1] <=> x \in 0 .. 3
  BY <1>0, <1>1, SMT DEF BytesAt
<1>a2. \A x : x \in DOMAIN w[2] <=> x \in 4 .. 19
  BY <1>0, <1>1, SMT DEF BytesAt
<1>a3. \A x : x \in DOMAIN w[3] <=> x \in 20 .. 27
  BY <1>0, <1>1, SMT DEF BytesAt
<1>3. 3 \in Nat /\ \A i \in 1 .. 3 : i = 1 \/ i = 2 \/ i = 3
  BY SMT
<1>4. 1 \in 1 .. 3 /\ 2 \in 1 .. 3 /\ 3 \in 1 .. 3
  BY SMT
<1>5. \A i \in 1 .. 3 : \A x \in DOMAIN w[i] : lab[x] = i
  <2>1. \A x \in DOMAIN w[1] : lab[x] = 1
    BY <1>a1, <1>0, SMT
  <2>2. \A x \in DOMAIN w[2] : lab[x] = 2
    BY <1>a2, <1>0, SMT
  <2>3. \A x \in DOMAIN w[3] : lab[x] = 3
    BY <1>a3, <1>0, SMT
  <2> HIDE DEF lab
  <2> QED BY <1>3, <2>1, <2>2, <2>3
<1> HIDE DEF lab
<1>6. \A i \in 1 .. 3 : Holds(Laid(w), w[i])
  <2>1. Apart(w)
    BY <1>1, <1>5 DEF Apart
  <2> QED BY <1>i, <2>1, LaidHolds
<1>8. \A x : x \in DOMAIN Laid(w) <=>
           x \in DOMAIN w[1] \/ x \in DOMAIN w[2] \/ x \in DOMAIN w[3]
  <2>1. \A x : x \in DOMAIN Laid(w) <=> \E i \in 1 .. 3 : x \in DOMAIN w[i]
    BY <1>i, LaidDomain, Zenon
  <2> QED BY <1>3, <1>4, <2>1
<1>9. DOMAIN Laid(w) = 0 .. 27
  <2>1. \A x : x \in 0 .. 27 <=>
             (x \in 0 .. 3) \/ (x \in 4 .. 19) \/ (x \in 20 .. 27)
    BY <1>0, SMT
  <2>2. \A x : x \in DOMAIN Laid(w) <=> x \in 0 .. 27
    BY <1>8, <2>1, <1>a1, <1>a2, <1>a3
  <2> QED BY <2>2
<1>7. ASSUME NEW m, Agrees(m, Laid(w)) PROVE InMhy1Head(head, m)
  <2>1. \A i \in 1 .. 3 : Agrees(m, w[i])
    BY <1>6, <1>7, AgreesThrough
  <2>2. Agrees(m, w[1]) /\ Agrees(m, w[2]) /\ Agrees(m, w[3])
    BY <1>4, <2>1
  <2> QED BY <1>1, <2>2 DEF InMhy1Head
<1>10. ASSUME NEW m, InMhy1Head(head, m) PROVE Agrees(m, Laid(w))
  <2>0. Agrees(m, w[1]) /\ Agrees(m, w[2]) /\ Agrees(m, w[3])
    BY <1>1, <1>10 DEF InMhy1Head
  <2>1. \A i \in 1 .. 3 : Agrees(m, w[i])
    BY <1>3, <2>0
  <2> QED BY <1>i, <2>1, LaidAgrees
<1>11. ASSUME SoundMhy1Head(head) PROVE Memory(Laid(w))
  <2>0. Memory(w[1]) /\ Memory(w[2]) /\ Memory(w[3])
    BY <1>1, <1>11 DEF SoundMhy1Head
  <2>1. \A i \in 1 .. 3 : Memory(w[i])
    BY <1>3, <2>0
  <2> QED BY <1>i, <2>1, LaidMemory
<1> QED BY <1>2, <1>7, <1>9, <1>10, <1>11

InEncrBlock(at, blk, m) ==
  /\ Agrees(m, BeAt(at, 4, blk.dec)) /\ Agrees(m, BeAt(at + 4, 4, blk.cmp))
  /\ Agrees(m, BeAt(at + 8, 2, 3))

SoundEncrBlock(at, blk) ==
  /\ Memory(BeAt(at, 4, blk.dec)) /\ Memory(BeAt(at + 4, 4, blk.cmp)) /\ Memory(BeAt(at + 8, 2, 3))

\* The same of an encr block entry.
LEMMA EncrBlockWrites ==
  ASSUME NEW at \in Nat, NEW blk
  PROVE  /\ DOMAIN EncrBlock(at, blk) = at .. at + 9
         /\ \A m : Agrees(m, EncrBlock(at, blk)) => InEncrBlock(at, blk, m)
         /\ SoundEncrBlock(at, blk) => Memory(EncrBlock(at, blk))
<1> DEFINE w == << BeAt(at, 4, blk.dec), BeAt(at + 4, 4, blk.cmp), BeAt(at + 8, 2, 3) >>
           lab == [x \in Nat |-> IF x \in at .. at + 3 THEN 1 ELSE IF x \in at + 4 .. at + 7 THEN 2 ELSE 3]
<1>0. TRUE
  OBVIOUS
<1>1. /\ DOMAIN w = 1 .. 3 /\ Indexed(w, 3)
      /\ w[1] = BeAt(at, 4, blk.dec)
      /\ w[2] = BeAt(at + 4, 4, blk.cmp)
      /\ w[3] = BeAt(at + 8, 2, 3)
  BY SMT DEF Indexed
<1>i. Indexed(w, 3)
  BY <1>1
<1>2. EncrBlock(at, blk) = Laid(w)
  BY DEF EncrBlock
<1> HIDE DEF w
<1>a1. \A x : x \in DOMAIN w[1] <=> x \in at .. at + 3
  BY <1>1, SMT DEF BeAt
<1>a2. \A x : x \in DOMAIN w[2] <=> x \in at + 4 .. at + 7
  BY <1>1, SMT DEF BeAt
<1>a3. \A x : x \in DOMAIN w[3] <=> x \in at + 8 .. at + 9
  BY <1>1, SMT DEF BeAt
<1>3. 3 \in Nat /\ \A i \in 1 .. 3 : i = 1 \/ i = 2 \/ i = 3
  BY SMT
<1>4. 1 \in 1 .. 3 /\ 2 \in 1 .. 3 /\ 3 \in 1 .. 3
  BY SMT
<1>5. \A i \in 1 .. 3 : \A x \in DOMAIN w[i] : lab[x] = i
  <2>1. \A x \in DOMAIN w[1] : lab[x] = 1
    BY <1>a1, <1>0, SMT
  <2>2. \A x \in DOMAIN w[2] : lab[x] = 2
    BY <1>a2, <1>0, SMT
  <2>3. \A x \in DOMAIN w[3] : lab[x] = 3
    BY <1>a3, <1>0, SMT
  <2> HIDE DEF lab
  <2> QED BY <1>3, <2>1, <2>2, <2>3
<1> HIDE DEF lab
<1>6. \A i \in 1 .. 3 : Holds(Laid(w), w[i])
  <2>1. Apart(w)
    BY <1>1, <1>5 DEF Apart
  <2> QED BY <1>i, <2>1, LaidHolds
<1>8. \A x : x \in DOMAIN Laid(w) <=>
           x \in DOMAIN w[1] \/ x \in DOMAIN w[2] \/ x \in DOMAIN w[3]
  <2>1. \A x : x \in DOMAIN Laid(w) <=> \E i \in 1 .. 3 : x \in DOMAIN w[i]
    BY <1>i, LaidDomain, Zenon
  <2> QED BY <1>3, <1>4, <2>1
<1>9. DOMAIN Laid(w) = at .. at + 9
  <2>1. \A x : x \in at .. at + 9 <=>
             (x \in at .. at + 3) \/ (x \in at + 4 .. at + 7) \/ (x \in at + 8 .. at + 9)
    BY <1>0, SMT
  <2>2. \A x : x \in DOMAIN Laid(w) <=> x \in at .. at + 9
    BY <1>8, <2>1, <1>a1, <1>a2, <1>a3
  <2> QED BY <2>2
<1>7. ASSUME NEW m, Agrees(m, Laid(w)) PROVE InEncrBlock(at, blk, m)
  <2>1. \A i \in 1 .. 3 : Agrees(m, w[i])
    BY <1>6, <1>7, AgreesThrough
  <2>2. Agrees(m, w[1]) /\ Agrees(m, w[2]) /\ Agrees(m, w[3])
    BY <1>4, <2>1
  <2> QED BY <1>1, <2>2 DEF InEncrBlock
<1>11. ASSUME SoundEncrBlock(at, blk) PROVE Memory(Laid(w))
  <2>0. Memory(w[1]) /\ Memory(w[2]) /\ Memory(w[3])
    BY <1>1, <1>11 DEF SoundEncrBlock
  <2>1. \A i \in 1 .. 3 : Memory(w[i])
    BY <1>3, <2>0
  <2> QED BY <1>i, <2>1, LaidMemory
<1> QED BY <1>2, <1>7, <1>9, <1>11

InEncrCab(at, cab, m) ==
  /\ Agrees(m, BeAt(at, 8, cab.blk_off)) /\ Agrees(m, BeAt(at + 8, 8, cab.blk_sz))
  /\ Agrees(m, EncrFlags(at + 16, cab.meta.flag)) /\ Agrees(m, BytesAt(at + 20, NameOut(cab)))

SoundEncrCab(at, cab) ==
  /\ Memory(BeAt(at, 8, cab.blk_off)) /\ Memory(BeAt(at + 8, 8, cab.blk_sz))
  /\ Memory(EncrFlags(at + 16, cab.meta.flag)) /\ Memory(BytesAt(at + 20, NameOut(cab)))

\* The same of an encr cab entry, whose length is that of its name.
LEMMA EncrCabWrites ==
  ASSUME NEW at \in Nat, NEW cab, NEW l \in Nat, Len(NameOut(cab)) = l
  PROVE  /\ DOMAIN EncrCab(at, cab) = at .. at + 20 + l - 1
         /\ \A m : Agrees(m, EncrCab(at, cab)) => InEncrCab(at, cab, m)
         /\ SoundEncrCab(at, cab) => Memory(EncrCab(at, cab))
<1> DEFINE w == << BeAt(at, 8, cab.blk_off), BeAt(at + 8, 8, cab.blk_sz),
                   EncrFlags(at + 16, cab.meta.flag), BytesAt(at + 20, NameOut(cab)) >>
           lab == [x \in Nat |-> IF x \in at .. at + 7 THEN 1 ELSE IF x \in at + 8 .. at + 15 THEN 2 ELSE
                     IF x \in at + 16 .. at + 19 THEN 3 ELSE 4]
<1>0. Len(NameOut(cab)) = l
  OBVIOUS
<1>1. /\ DOMAIN w = 1 .. 4 /\ Indexed(w, 4)
      /\ w[1] = BeAt(at, 8, cab.blk_off)
      /\ w[2] = BeAt(at + 8, 8, cab.blk_sz)
      /\ w[3] = EncrFlags(at + 16, cab.meta.flag)
      /\ w[4] = BytesAt(at + 20, NameOut(cab))
  BY SMT DEF Indexed
<1>i. Indexed(w, 4)
  BY <1>1
<1>2. EncrCab(at, cab) = Laid(w)
  BY DEF EncrCab
<1> HIDE DEF w
<1>a1. \A x : x \in DOMAIN w[1] <=> x \in at .. at + 7
  BY <1>1, SMT DEF BeAt
<1>a2. \A x : x \in DOMAIN w[2] <=> x \in at + 8 .. at + 15
  BY <1>1, SMT DEF BeAt
<1>a3. \A x : x \in DOMAIN w[3] <=> x \in at + 16 .. at + 19
  BY <1>1, SMT DEF EncrFlags, Turned, BytesAt
<1>a4. \A x : x \in DOMAIN w[4] <=> x \in at + 20 .. at + 20 + l - 1
  BY <1>0, <1>1, SMT DEF BytesAt
<1>3. 4 \in Nat /\ \A i \in 1 .. 4 : i = 1 \/ i = 2 \/ i = 3 \/ i = 4
  BY SMT
<1>4. 1 \in 1 .. 4 /\ 2 \in 1 .. 4 /\ 3 \in 1 .. 4 /\ 4 \in 1 .. 4
  BY SMT
<1>5. \A i \in 1 .. 4 : \A x \in DOMAIN w[i] : lab[x] = i
  <2>1. \A x \in DOMAIN w[1] : lab[x] = 1
    BY <1>a1, <1>0, SMT
  <2>2. \A x \in DOMAIN w[2] : lab[x] = 2
    BY <1>a2, <1>0, SMT
  <2>3. \A x \in DOMAIN w[3] : lab[x] = 3
    BY <1>a3, <1>0, SMT
  <2>4. \A x \in DOMAIN w[4] : lab[x] = 4
    BY <1>a4, <1>0, SMT
  <2> HIDE DEF lab
  <2> QED BY <1>3, <2>1, <2>2, <2>3, <2>4
<1> HIDE DEF lab
<1>6. \A i \in 1 .. 4 : Holds(Laid(w), w[i])
  <2>1. Apart(w)
    BY <1>1, <1>5 DEF Apart
  <2> QED BY <1>i, <2>1, LaidHolds
<1>8. \A x : x \in DOMAIN Laid(w) <=>
           x \in DOMAIN w[1] \/ x \in DOMAIN w[2] \/ x \in DOMAIN w[3] \/ x \in DOMAIN w[4]
  <2>1. \A x : x \in DOMAIN Laid(w) <=> \E i \in 1 .. 4 : x \in DOMAIN w[i]
    BY <1>i, LaidDomain, Zenon
  <2> QED BY <1>3, <1>4, <2>1
<1>9. DOMAIN Laid(w) = at .. at + 20 + l - 1
  <2>1. \A x : x \in at .. at + 20 + l - 1 <=>
             (x \in at .. at + 7) \/ (x \in at + 8 .. at + 15) \/ (x \in at + 16 .. at + 19)
             \/ (x \in at + 20 .. at + 20 + l - 1)
    BY <1>0, SMT
  <2>2. \A x : x \in DOMAIN Laid(w) <=> x \in at .. at + 20 + l - 1
    BY <1>8, <2>1, <1>a1, <1>a2, <1>a3, <1>a4
  <2> QED BY <2>2
<1>7. ASSUME NEW m, Agrees(m, Laid(w)) PROVE InEncrCab(at, cab, m)
  <2>1. \A i \in 1 .. 4 : Agrees(m, w[i])
    BY <1>6, <1>7, AgreesThrough
  <2>2. Agrees(m, w[1]) /\ Agrees(m, w[2]) /\ Agrees(m, w[3]) /\ Agrees(m, w[4])
    BY <1>4, <2>1
  <2> QED BY <1>1, <2>2 DEF InEncrCab
<1>11. ASSUME SoundEncrCab(at, cab) PROVE Memory(Laid(w))
  <2>0. Memory(w[1]) /\ Memory(w[2]) /\ Memory(w[3]) /\ Memory(w[4])
    BY <1>1, <1>11 DEF SoundEncrCab
  <2>1. \A i \in 1 .. 4 : Memory(w[i])
    BY <1>3, <2>0
  <2> QED BY <1>i, <2>1, LaidMemory
<1> QED BY <1>2, <1>7, <1>9, <1>11

InEncrOuter(hdr, cabs, blks, m) ==
  /\ Agrees(m, BytesAt(0, EncrMagic)) /\ Agrees(m, BeAt(5, 8, HeaderSize + Sum(Cmps(blks)) + 25))
  /\ Agrees(m, BeAt(13, 4, HeaderSize)) /\ Agrees(m, BeAt(17, 4, EncrInnerLen(cabs, blks)))
  /\ Agrees(m, BeAt(21, 4, hdr.flags))

SoundEncrOuter(hdr, cabs, blks) ==
  /\ Memory(BytesAt(0, EncrMagic)) /\ Memory(BeAt(5, 8, HeaderSize + Sum(Cmps(blks)) + 25))
  /\ Memory(BeAt(13, 4, HeaderSize)) /\ Memory(BeAt(17, 4, EncrInnerLen(cabs, blks)))
  /\ Memory(BeAt(21, 4, hdr.flags))

\* The same of the outer header of encr.
LEMMA EncrOuterWrites ==
  ASSUME NEW hdr, NEW cabs, NEW blks
  PROVE  /\ DOMAIN EncrOuter(hdr, cabs, blks) = 0 .. 24
         /\ \A m : Agrees(m, EncrOuter(hdr, cabs, blks)) => InEncrOuter(hdr, cabs, blks, m)
         /\ SoundEncrOuter(hdr, cabs, blks) => Memory(EncrOuter(hdr, cabs, blks))
<1> DEFINE w == << BytesAt(0, EncrMagic), BeAt(5, 8, HeaderSize + Sum(Cmps(blks)) + 25),
                   BeAt(13, 4, HeaderSize), BeAt(17, 4, EncrInnerLen(cabs, blks)),
                   BeAt(21, 4, hdr.flags) >>
           lab == [x \in Nat |-> IF x \in 0 .. 4 THEN 1 ELSE IF x \in 5 .. 12 THEN 2 ELSE
                     IF x \in 13 .. 16 THEN 3 ELSE IF x \in 17 .. 20 THEN 4 ELSE 5]
<1>0. Len(EncrMagic) = 5
  BY DEF EncrMagic
<1>1. /\ DOMAIN w = 1 .. 5 /\ Indexed(w, 5)
      /\ w[1] = BytesAt(0, EncrMagic)
      /\ w[2] = BeAt(5, 8, HeaderSize + Sum(Cmps(blks)) + 25)
      /\ w[3] = BeAt(13, 4, HeaderSize)
      /\ w[4] = BeAt(17, 4, EncrInnerLen(cabs, blks))
      /\ w[5] = BeAt(21, 4, hdr.flags)
  BY SMT DEF Indexed
<1>i. Indexed(w, 5)
  BY <1>1
<1>2. EncrOuter(hdr, cabs, blks) = Laid(w)
  BY DEF EncrOuter
<1> HIDE DEF w
<1>a1. \A x : x \in DOMAIN w[1] <=> x \in 0 .. 4
  BY <1>0, <1>1, SMT DEF BytesAt
<1>a2. \A x : x \in DOMAIN w[2] <=> x \in 5 .. 12
  BY <1>1, SMT DEF BeAt
<1>a3. \A x : x \in DOMAIN w[3] <=> x \in 13 .. 16
  BY <1>1, SMT DEF BeAt
<1>a4. \A x : x \in DOMAIN w[4] <=> x \in 17 .. 20
  BY <1>1, SMT DEF BeAt
<1>a5. \A x : x \in DOMAIN w[5] <=> x \in 21 .. 24
  BY <1>1, SMT DEF BeAt
<1>3. 5 \in Nat /\ \A i \in 1 .. 5 : i = 1 \/ i = 2 \/ i = 3 \/ i = 4 \/ i = 5
  BY SMT
<1>4. 1 \in 1 .. 5 /\ 2 \in 1 .. 5 /\ 3 \in 1 .. 5 /\ 4 \in 1 .. 5 /\ 5 \in 1 .. 5
  BY SMT
<1>5. \A i \in 1 .. 5 : \A x \in DOMAIN w[i] : lab[x] = i
  <2>1. \A x \in DOMAIN w[1] : lab[x] = 1
    BY <1>a1, <1>0, SMT
  <2>2. \A x \in DOMAIN w[2] : lab[x] = 2
    BY <1>a2, <1>0, SMT
  <2>3. \A x \in DOMAIN w[3] : lab[x] = 3
    BY <1>a3, <1>0, SMT
  <2>4. \A x \in DOMAIN w[4] : lab[x] = 4
    BY <1>a4, <1>0, SMT
  <2>5. \A x \in DOMAIN w[5] : lab[x] = 5
    BY <1>a5, <1>0, SMT
  <2> HIDE DEF lab
  <2> QED BY <1>3, <2>1, <2>2, <2>3, <2>4, <2>5
<1> HIDE DEF lab
<1>6. \A i \in 1 .. 5 : Holds(Laid(w), w[i])
  <2>1. Apart(w)
    BY <1>1, <1>5 DEF Apart
  <2> QED BY <1>i, <2>1, LaidHolds
<1>8. \A x : x \in DOMAIN Laid(w) <=>
           x \in DOMAIN w[1] \/ x \in DOMAIN w[2] \/ x \in DOMAIN w[3] \/ x \in DOMAIN w[4]
           \/ x \in DOMAIN w[5]
  <2>1. \A x : x \in DOMAIN Laid(w) <=> \E i \in 1 .. 5 : x \in DOMAIN w[i]
    BY <1>i, LaidDomain, Zenon
  <2> QED BY <1>3, <1>4, <2>1
<1>9. DOMAIN Laid(w) = 0 .. 24
  <2>1. \A x : x \in 0 .. 24 <=>
             (x \in 0 .. 4) \/ (x \in 5 .. 12) \/ (x \in 13 .. 16) \/ (x \in 17 .. 20)
             \/ (x \in 21 .. 24)
    BY <1>0, SMT
  <2>2. \A x : x \in DOMAIN Laid(w) <=> x \in 0 .. 24
    BY <1>8, <2>1, <1>a1, <1>a2, <1>a3, <1>a4, <1>a5
  <2> QED BY <2>2
<1>7. ASSUME NEW m, Agrees(m, Laid(w)) PROVE InEncrOuter(hdr, cabs, blks, m)
  <2>1. \A i \in 1 .. 5 : Agrees(m, w[i])
    BY <1>6, <1>7, AgreesThrough
  <2>2. Agrees(m, w[1]) /\ Agrees(m, w[2]) /\ Agrees(m, w[3]) /\ Agrees(m, w[4])
        /\ Agrees(m, w[5])
    BY <1>4, <2>1
  <2> QED BY <1>1, <2>2 DEF InEncrOuter
<1>11. ASSUME SoundEncrOuter(hdr, cabs, blks) PROVE Memory(Laid(w))
  <2>0. Memory(w[1]) /\ Memory(w[2]) /\ Memory(w[3]) /\ Memory(w[4]) /\ Memory(w[5])
    BY <1>1, <1>11 DEF SoundEncrOuter
  <2>1. \A i \in 1 .. 5 : Memory(w[i])
    BY <1>3, <2>0
  <2> QED BY <1>i, <2>1, LaidMemory
<1> QED BY <1>2, <1>7, <1>9, <1>11

-----------------------------------------------------------------------------
(* Tables: writes one after the other.                                     *)

\* Write i sets bytes from from[i] up to from[i + 1].
Cells(w, n, from) ==
  /\ from \in [1 .. n + 1 -> Nat]
  /\ \A i, j \in 1 .. n : i < j => from[i + 1] <= from[j]
  /\ \A i \in 1 .. n : \A x \in DOMAIN w[i] : x \in Nat /\ from[i] <= x /\ x < from[i + 1]

\* Entries of one length each, one after the other, do not overlap.
LEMMA TableLaid ==
  ASSUME NEW w, NEW n, NEW from, Indexed(w, n), Cells(w, n, from)
  PROVE  \A i \in 1 .. n : Holds(Laid(w), w[i])
<1>1. SUFFICES ASSUME NEW i \in 1 .. n, NEW j \in 1 .. n, i # j, NEW x \in DOMAIN w[i], x \in DOMAIN w[j]
               PROVE  FALSE
  BY LaidHolds DEF Apart, Indexed
<1>2. /\ x \in Nat /\ from[i] <= x /\ x < from[i + 1] /\ from[j] <= x /\ x < from[j + 1]
      /\ from[i] \in Nat /\ from[j] \in Nat /\ from[i + 1] \in Nat /\ from[j + 1] \in Nat
      /\ (i < j => from[i + 1] <= from[j]) /\ (j < i => from[j + 1] <= from[i])
  <2>1. i + 1 \in 1 .. n + 1 /\ j + 1 \in 1 .. n + 1 /\ i \in 1 .. n + 1 /\ j \in 1 .. n + 1
    BY DEF Indexed
  <2> QED BY <1>1, <2>1, Zenon DEF Cells
<1>3. i < j \/ j < i
  BY <1>1, SMT DEF Indexed
<1> QED BY <1>2, <1>3, SMT

\* The bytes after the names of mhy0 and mhy1, which are not written.
Holes(n) == {6 + 275 * (c - 1) + 260 : c \in 1 .. n}

MhyCabAt(c) == 6 + 275 * (c - 1)

MhyCabTable(cabs) == Laid([c \in DOMAIN cabs |-> MhyCab(6 + 275 * (c - 1), cabs[c])])

MhyBlockTable(n, blks, keys) ==
  Laid([b \in DOMAIN blks |-> MhyBlock(MhyBlockAt(n, b), blks[b], keys[b].extra)])

MhyCabTableBytes(n)      == (6 .. 5 + 275 * n) \ Holes(n)
MhyBlockTableBytes(n, d) == 12 + 275 * n .. 11 + 275 * n + 13 * d

\* The cab table of an mhy header: where it lies, and that every entry is in it.
LEMMA MhyCabTableWrites ==
  ASSUME NEW cabs, NEW n, Indexed(cabs, n), \A c \in 1 .. n : FullName(cabs[c])
  PROVE  /\ DOMAIN MhyCabTable(cabs) = MhyCabTableBytes(n)
         /\ \A c \in 1 .. n : Holds(MhyCabTable(cabs), MhyCab(MhyCabAt(c), cabs[c]))
         /\ \A m : (\A c \in 1 .. n : Agrees(m, MhyCab(MhyCabAt(c), cabs[c])))
                   => Agrees(m, MhyCabTable(cabs))
         /\ (\A c \in 1 .. n : Memory(MhyCab(MhyCabAt(c), cabs[c]))) => Memory(MhyCabTable(cabs))
<1> DEFINE w == [c \in DOMAIN cabs |-> MhyCab(MhyCabAt(c), cabs[c])]
           from == [c \in 1 .. n + 1 |-> MhyCabAt(c)]
<1>1. \A c \in 1 .. n : w[c] = MhyCab(MhyCabAt(c), cabs[c])
  BY DEF Indexed
<1>2. Indexed(w, n) /\ n \in Nat
  BY DEF Indexed
<1>3. MhyCabTable(cabs) = Laid(w)
  BY DEF MhyCabTable, MhyCabAt
<1> HIDE DEF w
<1>4. \A c \in 1 .. n : DOMAIN w[c] = MhyCabBytes(MhyCabAt(c))
  <2>1. \A c \in 1 .. n : MhyCabAt(c) \in Nat
    BY <1>2, SMT DEF MhyCabAt
  <2>2. \A c \in 1 .. n : DOMAIN MhyCab(MhyCabAt(c), cabs[c]) = MhyCabBytes(MhyCabAt(c))
    BY <2>1, MhyCabWrites, Zenon
  <2> QED BY <1>1, <2>2
<1>5. \A c \in 1 .. n : Holds(Laid(w), w[c])
  <2>1. from \in [1 .. n + 1 -> Nat]
    BY <1>2, SMT DEF MhyCabAt
  <2>2. \A i, j \in 1 .. n : i < j => from[i + 1] <= from[j]
    BY <1>2, SMT DEF MhyCabAt
  <2>3. \A i \in 1 .. n : \A x \in DOMAIN w[i] : x \in Nat /\ from[i] <= x /\ x < from[i + 1]
    <3>1. \A i \in 1 .. n : \A x \in MhyCabBytes(MhyCabAt(i)) : x \in Nat /\ from[i] <= x /\ x < from[i + 1]
      BY <1>2, SMT DEF MhyCabAt, MhyCabBytes
    <3> QED BY <1>4, <3>1, Zenon
  <2> HIDE DEF from
  <2>4. Cells(w, n, from)
    BY <2>1, <2>2, <2>3 DEF Cells
  <2> QED BY <1>2, <2>4, TableLaid
<1>6. \A x : x \in DOMAIN Laid(w) <=> \E c \in 1 .. n : x \in DOMAIN w[c]
  BY <1>2, LaidDomain
<1>7. \A x : (\E c \in 1 .. n : x \in DOMAIN w[c]) <=> x \in MhyCabTableBytes(n)
  <2>1. ASSUME NEW x, NEW c \in 1 .. n, x \in DOMAIN w[c] PROVE x \in MhyCabTableBytes(n)
    <3>1. x \in MhyCabBytes(MhyCabAt(c))
      BY <1>4, <2>1
    <3>2. x \in 6 .. 5 + 275 * n
      BY <1>2, <3>1, SMT DEF MhyCabAt, MhyCabBytes
    <3>3. ASSUME NEW d \in 1 .. n, x = 6 + 275 * (d - 1) + 260 PROVE FALSE
      <4>1. d - c \in Int /\ x = (6 + 275 * (c - 1) + 260) + 275 * (d - c)
        BY <1>2, <3>3, SMT
      <4>2. 275 * (d - c) > 0 - 261 /\ 275 * (d - c) < 15
        BY <1>2, <3>1, <4>1, SMT DEF MhyCabAt, MhyCabBytes
      <4>3. d = c
        BY <1>2, <4>1, <4>2, SMT
      <4> QED BY <3>1, <3>3, <4>3, SMT DEF MhyCabAt, MhyCabBytes
    <3> QED BY <3>2, <3>3 DEF MhyCabTableBytes, Holes
  <2>2. ASSUME NEW x, x \in MhyCabTableBytes(n) PROVE \E c \in 1 .. n : x \in DOMAIN w[c]
    <3> DEFINE c == (x - 6) \div 275 + 1
    <3>1. x \in 6 .. 5 + 275 * n /\ x \notin Holes(n)
      BY <2>2 DEF MhyCabTableBytes
    <3>2. c \in 1 .. n /\ x \in 6 + 275 * (c - 1) .. 6 + 275 * (c - 1) + 274
      BY <1>2, <3>1, SMT
    <3> HIDE DEF c
    <3>3. x # 6 + 275 * (c - 1) + 260
      BY <3>1, <3>2 DEF Holes
    <3>4. x \in MhyCabBytes(MhyCabAt(c))
      BY <3>2, <3>3 DEF MhyCabBytes, MhyCabAt
    <3> QED BY <1>4, <3>2, <3>4
  <2> QED BY <2>1, <2>2
<1>8. DOMAIN Laid(w) = MhyCabTableBytes(n)
  BY <1>6, <1>7
<1>9. /\ \A m : (\A c \in 1 .. n : Agrees(m, w[c])) => Agrees(m, Laid(w))
      /\ (\A c \in 1 .. n : Memory(w[c])) => Memory(Laid(w))
  BY <1>2, LaidAgrees, LaidMemory
<1> QED BY <1>1, <1>3, <1>5, <1>8, <1>9

\* The block table that follows it.
LEMMA MhyBlockTableWrites ==
  ASSUME NEW n \in Nat, NEW blks, NEW d, Indexed(blks, d), NEW keys
  PROVE  /\ DOMAIN MhyBlockTable(n, blks, keys) = MhyBlockTableBytes(n, d)
         /\ \A b \in 1 .. d : Holds(MhyBlockTable(n, blks, keys),
                                    MhyBlock(MhyBlockAt(n, b), blks[b], keys[b].extra))
         /\ \A m : (\A b \in 1 .. d : Agrees(m, MhyBlock(MhyBlockAt(n, b), blks[b], keys[b].extra)))
                   => Agrees(m, MhyBlockTable(n, blks, keys))
         /\ (\A b \in 1 .. d : Memory(MhyBlock(MhyBlockAt(n, b), blks[b], keys[b].extra)))
            => Memory(MhyBlockTable(n, blks, keys))
<1> DEFINE w == [b \in DOMAIN blks |-> MhyBlock(MhyBlockAt(n, b), blks[b], keys[b].extra)]
           from == [b \in 1 .. d + 1 |-> MhyBlockAt(n, b)]
<1>1. \A b \in 1 .. d : w[b] = MhyBlock(MhyBlockAt(n, b), blks[b], keys[b].extra)
  BY DEF Indexed
<1>2. Indexed(w, d) /\ d \in Nat
  BY DEF Indexed
<1>3. MhyBlockTable(n, blks, keys) = Laid(w)
  BY DEF MhyBlockTable
<1> HIDE DEF w
<1>4. \A b \in 1 .. d : DOMAIN w[b] = MhyBlockBytes(MhyBlockAt(n, b))
  <2>1. \A b \in 1 .. d : MhyBlockAt(n, b) \in Nat
    BY <1>2, SMT DEF MhyBlockAt
  <2>2. \A b \in 1 .. d : DOMAIN MhyBlock(MhyBlockAt(n, b), blks[b], keys[b].extra)
                            = MhyBlockBytes(MhyBlockAt(n, b))
    BY <2>1, MhyBlockWrites, Zenon
  <2> QED BY <1>1, <2>2
<1>5. \A b \in 1 .. d : Holds(Laid(w), w[b])
  <2>1. from \in [1 .. d + 1 -> Nat]
    BY <1>2, SMT DEF MhyBlockAt
  <2>2. \A i, j \in 1 .. d : i < j => from[i + 1] <= from[j]
    BY <1>2, SMT DEF MhyBlockAt
  <2>3. \A i \in 1 .. d : \A x \in DOMAIN w[i] : x \in Nat /\ from[i] <= x /\ x < from[i + 1]
    BY <1>2, <1>4, SMT DEF MhyBlockAt, MhyBlockBytes
  <2> HIDE DEF from
  <2>4. Cells(w, d, from)
    BY <2>1, <2>2, <2>3 DEF Cells
  <2> QED BY <1>2, <2>4, TableLaid
<1>6. \A x : x \in DOMAIN Laid(w) <=> \E b \in 1 .. d : x \in DOMAIN w[b]
  BY <1>2, LaidDomain
<1>7. \A x : (\E b \in 1 .. d : x \in DOMAIN w[b]) <=> x \in MhyBlockTableBytes(n, d)
  <2>1. ASSUME NEW x, NEW b \in 1 .. d, x \in DOMAIN w[b] PROVE x \in MhyBlockTableBytes(n, d)
    <3>1. x \in MhyBlockBytes(MhyBlockAt(n, b))
      BY <1>4, <2>1
    <3> QED BY <1>2, <3>1, SMT DEF MhyBlockBytes, MhyBlockAt, MhyBlockTableBytes
  <2>2. ASSUME NEW x, x \in MhyBlockTableBytes(n, d) PROVE \E b \in 1 .. d : x \in DOMAIN w[b]
    <3> DEFINE b == (x - 12 - 275 * n) \div 13 + 1
    <3>1. x \in 12 + 275 * n .. 11 + 275 * n + 13 * d
      BY <2>2 DEF MhyBlockTableBytes
    <3>2. b \in 1 .. d /\ x \in 12 + 275 * n + 13 * (b - 1) .. 12 + 275 * n + 13 * (b - 1) + 12
      BY <1>2, <3>1, SMT
    <3> HIDE DEF b
    <3>3. x \in MhyBlockBytes(MhyBlockAt(n, b))
      BY <3>2 DEF MhyBlockBytes, MhyBlockAt
    <3> QED BY <1>4, <3>2, <3>3
  <2> QED BY <2>1, <2>2
<1>8. DOMAIN Laid(w) = MhyBlockTableBytes(n, d)
  BY <1>6, <1>7
<1>9. /\ \A m : (\A b \in 1 .. d : Agrees(m, w[b])) => Agrees(m, Laid(w))
      /\ (\A b \in 1 .. d : Memory(w[b])) => Memory(Laid(w))
  BY <1>2, LaidAgrees, LaidMemory
<1> QED BY <1>1, <1>3, <1>5, <1>8, <1>9


MhyInnerBytes(n, d) == (0 .. 11 + 275 * n + 13 * d) \ Holes(n)

InMhyInner(cabs, blks, beside, keys, n, d, m) ==
  /\ Agrees(m, shuffleInt(0, n)) /\ Agrees(m, BytesAt(1, <<beside[1]>>))
  /\ Agrees(m, BytesAt(3, <<beside[2]>>)) /\ Agrees(m, MhyCabTable(cabs))
  /\ Agrees(m, shuffleInt(MhyCntAt(n), d)) /\ Agrees(m, BytesAt(MhyCntAt(n) + 1, <<beside[3]>>))
  /\ Agrees(m, BytesAt(MhyCntAt(n) + 3, <<beside[4]>>))
  /\ Agrees(m, MhyBlockTable(n, blks, keys))

SoundMhyInner(cabs, blks, beside, keys, n, d) ==
  /\ Memory(shuffleInt(0, n)) /\ Memory(BytesAt(1, <<beside[1]>>))
  /\ Memory(BytesAt(3, <<beside[2]>>)) /\ Memory(MhyCabTable(cabs))
  /\ Memory(shuffleInt(MhyCntAt(n), d)) /\ Memory(BytesAt(MhyCntAt(n) + 1, <<beside[3]>>))
  /\ Memory(BytesAt(MhyCntAt(n) + 3, <<beside[4]>>)) /\ Memory(MhyBlockTable(n, blks, keys))

\* The whole inner header of mhy0 and mhy1: counts, both tables and the bytes beside them.
LEMMA MhyInnerWrites ==
  ASSUME NEW cabs, NEW n, Indexed(cabs, n), Len(cabs) = n, \A c \in 1 .. n : FullName(cabs[c]),
         NEW blks, NEW d, Indexed(blks, d), Len(blks) = d, NEW beside, NEW keys
  PROVE  /\ DOMAIN MhyInner(cabs, blks, beside, keys) = MhyInnerBytes(n, d)
         /\ \A m : Agrees(m, MhyInner(cabs, blks, beside, keys))
                   <=> InMhyInner(cabs, blks, beside, keys, n, d, m)
         /\ SoundMhyInner(cabs, blks, beside, keys, n, d) => Memory(MhyInner(cabs, blks, beside, keys))
<1> DEFINE w == << shuffleInt(0, n), BytesAt(1, <<beside[1]>>), BytesAt(3, <<beside[2]>>),
                   MhyCabTable(cabs), shuffleInt(MhyCntAt(n), d),
                   BytesAt(MhyCntAt(n) + 1, <<beside[3]>>),
                   BytesAt(MhyCntAt(n) + 3, <<beside[4]>>), MhyBlockTable(n, blks, keys) >>
           lab == [x \in Nat |-> IF x \in {2, 4, 0, 5} THEN 1 ELSE IF x \in 1 .. 1 THEN 2 ELSE
                     IF x \in 3 .. 3 THEN 3 ELSE IF x \in MhyCabTableBytes(n) THEN 4 ELSE
                     IF x \in {MhyCntAt(n) + 2, MhyCntAt(n) + 4, MhyCntAt(n), MhyCntAt(n) + 5} THEN 5 ELSE
                     IF x \in MhyCntAt(n) + 1 .. MhyCntAt(n) + 1 THEN 6 ELSE
                     IF x \in MhyCntAt(n) + 3 .. MhyCntAt(n) + 3 THEN 7 ELSE 8]
<1>n. MhyCntAt(n) \in Nat
  BY SMT DEF Indexed, MhyCntAt
<1>0. /\ n \in Nat /\ d \in Nat /\ MhyCntAt(n) = 6 + 275 * n /\ MhyCntAt(n) \in Nat
      /\ \A x \in MhyCabTableBytes(n) : x \in 6 .. 5 + 275 * n
      /\ \A x \in MhyBlockTableBytes(n, d) : x \in 12 + 275 * n .. 11 + 275 * n + 13 * d
  BY SMT DEF Indexed, MhyCntAt, MhyCabTableBytes, MhyBlockTableBytes
<1>1. /\ DOMAIN w = 1 .. 8 /\ Indexed(w, 8)
      /\ w[1] = shuffleInt(0, n)
      /\ w[2] = BytesAt(1, <<beside[1]>>)
      /\ w[3] = BytesAt(3, <<beside[2]>>)
      /\ w[4] = MhyCabTable(cabs)
      /\ w[5] = shuffleInt(MhyCntAt(n), d)
      /\ w[6] = BytesAt(MhyCntAt(n) + 1, <<beside[3]>>)
      /\ w[7] = BytesAt(MhyCntAt(n) + 3, <<beside[4]>>)
      /\ w[8] = MhyBlockTable(n, blks, keys)
  BY SMT DEF Indexed
<1>i. Indexed(w, 8)
  BY <1>1
<1>2. MhyInner(cabs, blks, beside, keys) = Laid(w)
  BY DEF MhyInner, MhyCabTable, MhyBlockTable
<1> HIDE DEF w
<1>a1. \A x : x \in DOMAIN w[1] <=> x \in {2, 4, 0, 5}
  BY <1>1, SMT DEF shuffleInt
<1>a2. \A x : x \in DOMAIN w[2] <=> x \in 1 .. 1
  BY <1>1, SMT DEF BytesAt
<1>a3. \A x : x \in DOMAIN w[3] <=> x \in 3 .. 3
  BY <1>1, SMT DEF BytesAt
<1>a4. \A x : x \in DOMAIN w[4] <=> x \in MhyCabTableBytes(n)
  BY <1>1, MhyCabTableWrites
<1>a5. \A x : x \in DOMAIN w[5] <=> x \in {MhyCntAt(n) + 2, MhyCntAt(n) + 4, MhyCntAt(n), MhyCntAt(n) + 5}
  BY <1>1, SMT DEF shuffleInt
<1>a6. \A x : x \in DOMAIN w[6] <=> x \in MhyCntAt(n) + 1 .. MhyCntAt(n) + 1
  BY <1>n, <1>1, SMT DEF BytesAt
<1>a7. \A x : x \in DOMAIN w[7] <=> x \in MhyCntAt(n) + 3 .. MhyCntAt(n) + 3
  BY <1>n, <1>1, SMT DEF BytesAt
<1>a8. \A x : x \in DOMAIN w[8] <=> x \in MhyBlockTableBytes(n, d)
  BY <1>0, <1>1, MhyBlockTableWrites
<1>3. 8 \in Nat /\ \A i \in 1 .. 8 : i = 1 \/ i = 2 \/ i = 3 \/ i = 4 \/ i = 5 \/ i = 6 \/ i = 7 \/ i = 8
  BY SMT
<1>4. 1 \in 1 .. 8 /\ 2 \in 1 .. 8 /\ 3 \in 1 .. 8 /\ 4 \in 1 .. 8 /\ 5 \in 1 .. 8
      /\ 6 \in 1 .. 8 /\ 7 \in 1 .. 8 /\ 8 \in 1 .. 8
  BY SMT
<1>5. \A i \in 1 .. 8 : \A x \in DOMAIN w[i] : lab[x] = i
  <2>1. \A x \in DOMAIN w[1] : lab[x] = 1
    BY <1>a1, <1>0, SMT
  <2>2. \A x \in DOMAIN w[2] : lab[x] = 2
    BY <1>a2, <1>0, SMT
  <2>3. \A x \in DOMAIN w[3] : lab[x] = 3
    BY <1>a3, <1>0, SMT
  <2>4. \A x \in DOMAIN w[4] : lab[x] = 4
    BY <1>a4, <1>0, SMT
  <2>5. \A x \in DOMAIN w[5] : lab[x] = 5
    BY <1>a5, <1>0, SMT
  <2>6. \A x \in DOMAIN w[6] : lab[x] = 6
    BY <1>a6, <1>0, SMT
  <2>7. \A x \in DOMAIN w[7] : lab[x] = 7
    BY <1>a7, <1>0, SMT
  <2>8. \A x \in DOMAIN w[8] : lab[x] = 8
    BY <1>a8, <1>0, SMT
  <2> HIDE DEF lab
  <2> QED BY <1>3, <2>1, <2>2, <2>3, <2>4, <2>5, <2>6, <2>7, <2>8
<1> HIDE DEF lab
<1>6. \A i \in 1 .. 8 : Holds(Laid(w), w[i])
  <2>1. Apart(w)
    BY <1>1, <1>5 DEF Apart
  <2> QED BY <1>i, <2>1, LaidHolds
<1>8. \A x : x \in DOMAIN Laid(w) <=>
           x \in DOMAIN w[1] \/ x \in DOMAIN w[2] \/ x \in DOMAIN w[3] \/ x \in DOMAIN w[4]
           \/ x \in DOMAIN w[5] \/ x \in DOMAIN w[6] \/ x \in DOMAIN w[7] \/ x \in DOMAIN w[8]
  <2>1. \A x : x \in DOMAIN Laid(w) <=> \E i \in 1 .. 8 : x \in DOMAIN w[i]
    BY <1>i, LaidDomain, Zenon
  <2> QED BY <1>3, <1>4, <2>1
<1>9. DOMAIN Laid(w) = MhyInnerBytes(n, d)
  <2>1. \A x : x \in MhyInnerBytes(n, d) <=>
             (x \in {2, 4, 0, 5}) \/ (x \in 1 .. 1) \/ (x \in 3 .. 3)
             \/ (x \in MhyCabTableBytes(n))
             \/ (x \in {MhyCntAt(n) + 2, MhyCntAt(n) + 4, MhyCntAt(n), MhyCntAt(n) + 5})
             \/ (x \in MhyCntAt(n) + 1 .. MhyCntAt(n) + 1)
             \/ (x \in MhyCntAt(n) + 3 .. MhyCntAt(n) + 3) \/ (x \in MhyBlockTableBytes(n, d))
    <3>1. /\ \A x : x \in MhyCabTableBytes(n) <=> x \in 6 .. 5 + 275 * n /\ x \notin Holes(n)
          /\ \A x : x \in MhyInnerBytes(n, d)
                   <=> x \in 0 .. 11 + 275 * n + 13 * d /\ x \notin Holes(n)
          /\ \A x : x \in MhyBlockTableBytes(n, d)
                   <=> x \in 12 + 275 * n .. 11 + 275 * n + 13 * d
      BY DEF MhyCabTableBytes, MhyInnerBytes, MhyBlockTableBytes
    <3>2. \A x \in Holes(n) : x \in 6 .. 5 + 275 * n
      BY <1>0, SMT DEF Holes
    <3> QED BY <1>0, <3>1, <3>2, SMT
  <2>2. \A x : x \in DOMAIN Laid(w) <=> x \in MhyInnerBytes(n, d)
    BY <1>8, <2>1, <1>a1, <1>a2, <1>a3, <1>a4, <1>a5, <1>a6, <1>a7, <1>a8
  <2> QED BY <2>2
<1>7. ASSUME NEW m, Agrees(m, Laid(w)) PROVE InMhyInner(cabs, blks, beside, keys, n, d, m)
  <2>1. \A i \in 1 .. 8 : Agrees(m, w[i])
    BY <1>6, <1>7, AgreesThrough
  <2>2. Agrees(m, w[1]) /\ Agrees(m, w[2]) /\ Agrees(m, w[3]) /\ Agrees(m, w[4])
        /\ Agrees(m, w[5]) /\ Agrees(m, w[6]) /\ Agrees(m, w[7]) /\ Agrees(m, w[8])
    BY <1>4, <2>1
  <2> QED BY <1>1, <2>2 DEF InMhyInner
<1>10. ASSUME NEW m, InMhyInner(cabs, blks, beside, keys, n, d, m) PROVE Agrees(m, Laid(w))
  <2>0. Agrees(m, w[1]) /\ Agrees(m, w[2]) /\ Agrees(m, w[3]) /\ Agrees(m, w[4])
        /\ Agrees(m, w[5]) /\ Agrees(m, w[6]) /\ Agrees(m, w[7]) /\ Agrees(m, w[8])
    BY <1>1, <1>10 DEF InMhyInner
  <2>1. \A i \in 1 .. 8 : Agrees(m, w[i])
    BY <1>3, <2>0
  <2> QED BY <1>i, <2>1, LaidAgrees
<1>11. ASSUME SoundMhyInner(cabs, blks, beside, keys, n, d) PROVE Memory(Laid(w))
  <2>0. Memory(w[1]) /\ Memory(w[2]) /\ Memory(w[3]) /\ Memory(w[4]) /\ Memory(w[5])
        /\ Memory(w[6]) /\ Memory(w[7]) /\ Memory(w[8])
    BY <1>1, <1>11 DEF SoundMhyInner
  <2>1. \A i \in 1 .. 8 : Memory(w[i])
    BY <1>3, <2>0
  <2> QED BY <1>i, <2>1, LaidMemory
<1> QED BY <1>2, <1>7, <1>9, <1>10, <1>11

\* Writes without a gap between them.
Adjacent(w, n, from) ==
  /\ from \in [1 .. n + 1 -> Nat]
  /\ \A i \in 1 .. n : from[i] <= from[i + 1] /\ DOMAIN w[i] = from[i] .. from[i + 1] - 1

\* Entries of various lengths, each starting where the one before ends, do not overlap.
LEMMA AdjacentLaid ==
  ASSUME NEW w, NEW n, NEW from, Indexed(w, n), Adjacent(w, n, from)
  PROVE  /\ \A i, j \in 1 .. n + 1 : i <= j => from[i] <= from[j]
         /\ \A i \in 1 .. n : Holds(Laid(w), w[i])
         /\ DOMAIN Laid(w) = from[1] .. from[n + 1] - 1
<1>1. n \in Nat /\ from \in [1 .. n + 1 -> Nat] /\ \A i \in 1 .. n : from[i] <= from[i + 1]
  BY DEF Indexed, Adjacent
<1>2. \A i, j \in 1 .. n + 1 : i <= j => from[i] <= from[j]
  <2> DEFINE S == {j \in 0 .. n + 1 : \A i \in 1 .. j : from[i] <= from[j]}
  <2>1. 0 \in S
    BY <1>1, SMT
  <2>2. ASSUME NEW k \in 0 .. (n + 1) - 1, k \in S PROVE k + 1 \in S
    <3>1. k + 1 \in 0 .. n + 1 /\ k + 1 \in 1 .. n + 1
      BY <1>1, SMT
    <3>2. ASSUME NEW i \in 1 .. k + 1 PROVE from[i] <= from[k + 1]
      <4>1. CASE i = k + 1
        BY <1>1, <3>1, <4>1, SMT
      <4>2. CASE i # k + 1
        <5>1. i \in 1 .. k /\ k \in 1 .. n /\ k \in 1 .. n + 1 /\ i \in 1 .. n + 1
          BY <1>1, <4>2, SMT
        <5>2. from[i] <= from[k] /\ from[k] <= from[k + 1]
          BY <1>1, <2>2, <5>1, Zenon
        <5>3. from[i] \in Nat /\ from[k] \in Nat /\ from[k + 1] \in Nat
          BY <1>1, <3>1, <5>1, Zenon
        <5> QED BY <5>2, <5>3, SMT
      <4> QED BY <4>1, <4>2
    <3> QED BY <3>1, <3>2
  <2> HIDE DEF S
  <2>3. n + 1 \in Nat
    BY <1>1, SMT
  <2>4. 0 .. n + 1 \subseteq S
    BY <2>1, <2>2, <2>3, UpTo
  <2> QED BY <1>1, <2>4, SMT DEF S
<1>3. Cells(w, n, from)
  <2>1. \A i, j \in 1 .. n : i < j => from[i + 1] <= from[j]
    <3>1. \A i, j \in 1 .. n : i < j => i + 1 \in 1 .. n + 1 /\ j \in 1 .. n + 1 /\ i + 1 <= j
      BY <1>1, SMT
    <3> QED BY <1>2, <3>1, Zenon
  <2>2. ASSUME NEW i \in 1 .. n, NEW x \in DOMAIN w[i]
        PROVE  x \in Nat /\ from[i] <= x /\ x < from[i + 1]
    <3>1. x \in from[i] .. from[i + 1] - 1 /\ from[i] \in Nat /\ from[i + 1] \in Nat
      BY <1>1, <2>2 DEF Adjacent
    <3> QED BY <3>1, SMT
  <2> QED BY <1>1, <2>1, <2>2 DEF Cells
<1>4. ASSUME NEW x, NEW i \in 1 .. n, x \in DOMAIN w[i] PROVE x \in from[1] .. from[n + 1] - 1
  <2>1. x \in from[i] .. from[i + 1] - 1
    BY <1>4 DEF Adjacent
  <2>2. /\ i \in 1 .. n + 1 /\ i + 1 \in 1 .. n + 1 /\ 1 \in 1 .. n + 1
        /\ n + 1 \in 1 .. n + 1 /\ 1 <= i /\ i + 1 <= n + 1
    BY <1>1, SMT
  <2>3. /\ from[1] <= from[i] /\ from[i + 1] <= from[n + 1] /\ from[1] \in Nat /\ from[i] \in Nat
        /\ from[i + 1] \in Nat /\ from[n + 1] \in Nat
    BY <1>1, <1>2, <2>2, Zenon
  <2> QED BY <2>1, <2>3, SMT
<1>5. ASSUME NEW x, x \in from[1] .. from[n + 1] - 1 PROVE \E i \in 1 .. n : x \in DOMAIN w[i]
  <2> DEFINE T == {i \in 1 .. n : from[i] <= x}
  <2>1. 1 \in 1 .. n + 1 /\ n + 1 \in 1 .. n + 1 /\ from[1] \in Nat /\ from[n + 1] \in Nat
    BY <1>1, SMT
  <2>2. x \in Nat /\ from[1] <= x /\ x < from[n + 1]
    BY <1>5, <2>1, SMT
  <2>3. n # 0
    BY <2>1, <2>2, SMT
  <2>4. 1 \in T /\ T \subseteq 1 .. n
    BY <1>1, <2>2, <2>3, SMT
  <2>5. Max(T) \in T /\ \A i \in T : Max(T) >= i
    <3>1. Max(T) \in T
      BY <1>1, <2>4, MaxThere
    <3>2. \E m \in T : \A i \in T : m >= i
      BY <1>1, <2>4, MaxExists
    <3> QED BY <3>2 DEF Max
  <2>6. PICK i \in T : \A j \in T : i >= j
    BY <2>5
  <2>7. /\ i \in 1 .. n /\ from[i] <= x /\ i + 1 \in 1 .. n + 1 /\ i \in 1 .. n + 1
        /\ from[i] \in Nat /\ from[i + 1] \in Nat
    BY <1>1, SMT
  <2>8. x < from[i + 1]
    <3>1. CASE i = n
      BY <2>2, <3>1
    <3>2. CASE i # n
      <4>1. i + 1 \in 1 .. n /\ ~(i >= i + 1)
        BY <1>1, <2>7, <3>2, SMT
      <4>2. ~(from[i + 1] <= x)
        BY <2>6, <4>1
      <4> QED BY <2>2, <2>7, <4>2, SMT
    <3> QED BY <3>1, <3>2
  <2>9. x \in from[i] .. from[i + 1] - 1
    BY <2>2, <2>7, <2>8, SMT
  <2> QED BY <2>7, <2>9 DEF Adjacent
<1>6. \A x : x \in DOMAIN Laid(w) <=> \E i \in 1 .. n : x \in DOMAIN w[i]
  BY LaidDomain
<1>7. DOMAIN Laid(w) = from[1] .. from[n + 1] - 1
  BY <1>4, <1>5, <1>6
<1> QED BY <1>2, <1>3, <1>7, TableLaid

-----------------------------------------------------------------------------
(* The names and tables of encr and blb3.                                  *)

\* n cabs with names of bytes.
Named(cabs, n) ==
  /\ Indexed(cabs, n) /\ Len(cabs) = n
  /\ \A c \in 1 .. n : cabs[c].meta.name \in Seq(Byte) /\ cabs[c].blk_off \in Int

\* The names as they are written: the bytes of the name and the 0 that ends it.
LEMMA NamesOut ==
  ASSUME NEW cabs, NEW n, Named(cabs, n)
  PROVE  /\ \A c \in 1 .. n : /\ NameOut(cabs[c]) \in Seq(Byte)
                              /\ Len(NameOut(cabs[c])) = Len(cabs[c].meta.name) + 1
                              /\ Len(NameOut(cabs[c])) \in Nat
                              /\ NameLens(cabs)[c] = Len(NameOut(cabs[c]))
         /\ NameLens(cabs) \in Seq(Nat) /\ Len(NameLens(cabs)) = n
<1>1. n \in Nat /\ DOMAIN cabs = 1 .. n
  BY DEF Named, Indexed
<1>2. ASSUME NEW c \in 1 .. n
      PROVE  /\ NameOut(cabs[c]) \in Seq(Byte)
             /\ Len(NameOut(cabs[c])) = Len(cabs[c].meta.name) + 1
             /\ Len(NameOut(cabs[c])) \in Nat
  <2> DEFINE name == cabs[c].meta.name
             last == IF Len(name) < 256 THEN 0 ELSE Digit(cabs[c].blk_off, 0)
  <2>1. name \in Seq(Byte) /\ last \in Byte
    <3>1. name \in Seq(Byte) /\ cabs[c].blk_off \in Int
      BY DEF Named
    <3>2. 0 \in Byte /\ 0 \in 0 .. 7
      BY SMT DEF Byte
    <3> QED BY <3>1, <3>2, DigitBytes
  <2>2. NameOut(cabs[c]) = name \o <<last>>
    BY DEF NameOut
  <2> HIDE DEF name, last
  <2>3. name \o <<last>> \in Seq(Byte) /\ Len(name \o <<last>>) = Len(name) + 1 /\ Len(name) \in Nat
    BY <2>1, SMT
  <2> QED BY <2>2, <2>3 DEF name
<1>3. NameLens(cabs) = [c \in 1 .. n |-> Len(NameOut(cabs[c]))]
  BY <1>1 DEF NameLens
<1>4. NameLens(cabs) \in [1 .. n -> Nat]
  BY <1>2, <1>3
<1>5. NameLens(cabs) \in Seq(Nat) /\ Len(NameLens(cabs)) = n
  BY <1>1, <1>4, BytesSeq
<1> QED BY <1>2, <1>3, <1>5

EncrBlockAt(b) == 4 + 10 * (b - 1)

EncrBlockTable(blks) == Laid([b \in DOMAIN blks |-> EncrBlock(4 + 10 * (b - 1), blks[b])])

EncrCabTable(cabs, blks) ==
  Laid([c \in DOMAIN cabs |-> EncrCab(EncrCabAt(cabs, blks, c), cabs[c])])

\* The block table of encr.
LEMMA EncrBlockTableWrites ==
  ASSUME NEW blks, NEW d, Indexed(blks, d)
  PROVE  /\ DOMAIN EncrBlockTable(blks) = 4 .. 3 + 10 * d
         /\ \A b \in 1 .. d : Holds(EncrBlockTable(blks), EncrBlock(EncrBlockAt(b), blks[b]))
         /\ (\A b \in 1 .. d : Memory(EncrBlock(EncrBlockAt(b), blks[b]))) => Memory(EncrBlockTable(blks))
<1> DEFINE w == [b \in DOMAIN blks |-> EncrBlock(EncrBlockAt(b), blks[b])]
           from == [b \in 1 .. d + 1 |-> EncrBlockAt(b)]
<1>1. \A b \in 1 .. d : w[b] = EncrBlock(EncrBlockAt(b), blks[b])
  BY DEF Indexed
<1>2. Indexed(w, d) /\ d \in Nat
  BY DEF Indexed
<1>3. EncrBlockTable(blks) = Laid(w)
  BY DEF EncrBlockTable, EncrBlockAt
<1> HIDE DEF w
<1>4. Adjacent(w, d, from)
  <2>1. from \in [1 .. d + 1 -> Nat] /\ \A b \in 1 .. d : from[b] <= from[b + 1]
    BY <1>2, SMT DEF EncrBlockAt
  <2>2. \A b \in 1 .. d : EncrBlockAt(b) \in Nat /\ from[b] = EncrBlockAt(b)
                          /\ from[b + 1] - 1 = EncrBlockAt(b) + 9
    BY <1>2, SMT DEF EncrBlockAt
  <2>3. \A b \in 1 .. d : DOMAIN EncrBlock(EncrBlockAt(b), blks[b]) = EncrBlockAt(b) .. EncrBlockAt(b) + 9
    BY <2>2, EncrBlockWrites, Zenon
  <2> HIDE DEF from
  <2> QED BY <1>1, <2>1, <2>2, <2>3 DEF Adjacent
<1>5. from[1] = 4 /\ from[d + 1] - 1 = 3 + 10 * d
  BY <1>2, SMT DEF EncrBlockAt
<1> HIDE DEF from
<1>6. /\ \A i \in 1 .. d : Holds(Laid(w), w[i])
      /\ DOMAIN Laid(w) = from[1] .. from[d + 1] - 1
  BY <1>2, <1>4, AdjacentLaid, Zenon
<1>7. (\A b \in 1 .. d : Memory(w[b])) => Memory(Laid(w))
  BY <1>2, LaidMemory
<1> QED BY <1>1, <1>3, <1>5, <1>6, <1>7

\* Where each cab entry of encr starts: behind the names of those before it.
LEMMA EncrCabPlaces ==
  ASSUME NEW cabs, NEW n, Named(cabs, n), NEW blks, Len(blks) \in Nat
  PROVE  /\ \A c \in 1 .. n + 1 : EncrCabAt(cabs, blks, c) \in Nat
         /\ EncrCabAt(cabs, blks, 1) = 8 + 10 * Len(blks)
         /\ \A c \in 1 .. n :
              EncrCabAt(cabs, blks, c + 1) = EncrCabAt(cabs, blks, c) + 20 + Len(NameOut(cabs[c]))
         /\ EncrCabAt(cabs, blks, n + 1) = EncrInnerLen(cabs, blks)
<1> DEFINE lens == NameLens(cabs)
<1>1. n \in Nat /\ Len(cabs) = n
  BY DEF Named, Indexed
<1>2. /\ \A k \in 1 .. n + 1 : Before(lens, k) \in Nat
      /\ Before(lens, 1) = 0
      /\ \A k \in 1 .. n : Before(lens, k + 1) = Before(lens, k) + lens[k]
  BY NamesOut, BeforeFacts
<1>3. \A c \in 1 .. n : lens[c] = Len(NameOut(cabs[c])) /\ Len(NameOut(cabs[c])) \in Nat
  BY NamesOut
<1> HIDE DEF lens
<1>4. \A c \in 1 .. n + 1 : EncrCabAt(cabs, blks, c) = 8 + 10 * Len(blks) + 20 * (c - 1) + Before(lens, c)
  BY DEF EncrCabAt, lens
<1>5. \A c \in 1 .. n + 1 : EncrCabAt(cabs, blks, c) \in Nat
  BY <1>1, <1>2, <1>4, SMT
<1>6. EncrCabAt(cabs, blks, 1) = 8 + 10 * Len(blks)
  BY <1>1, <1>2, <1>4, SMT
<1>7. ASSUME NEW c \in 1 .. n
      PROVE  EncrCabAt(cabs, blks, c + 1) = EncrCabAt(cabs, blks, c) + 20 + Len(NameOut(cabs[c]))
  <2>1. c \in 1 .. n + 1 /\ c + 1 \in 1 .. n + 1 /\ (c + 1) - 1 = (c - 1) + 1 /\ c \in Nat
    BY <1>1, SMT
  <2>2. /\ EncrCabAt(cabs, blks, c) = 8 + 10 * Len(blks) + 20 * (c - 1) + Before(lens, c)
        /\ EncrCabAt(cabs, blks, c + 1) = 8 + 10 * Len(blks) + 20 * ((c + 1) - 1) + Before(lens, c + 1)
        /\ Before(lens, c + 1) = Before(lens, c) + lens[c] /\ Before(lens, c) \in Nat
        /\ lens[c] = Len(NameOut(cabs[c])) /\ Len(NameOut(cabs[c])) \in Nat
    BY <1>2, <1>3, <1>4, <2>1
  <2> QED BY <2>1, <2>2, SMT
<1>8. EncrCabAt(cabs, blks, n + 1) = EncrInnerLen(cabs, blks)
  BY <1>1 DEF EncrInnerLen
<1> QED BY <1>5, <1>6, <1>7, <1>8

\* The cab table of encr, to the end of the inner header.
LEMMA EncrCabTableWrites ==
  ASSUME NEW cabs, NEW n, Named(cabs, n), NEW blks, Len(blks) \in Nat
  PROVE  /\ DOMAIN EncrCabTable(cabs, blks) = 8 + 10 * Len(blks) .. EncrInnerLen(cabs, blks) - 1
         /\ \A c \in 1 .. n : Holds(EncrCabTable(cabs, blks), EncrCab(EncrCabAt(cabs, blks, c), cabs[c]))
         /\ (\A c \in 1 .. n : Memory(EncrCab(EncrCabAt(cabs, blks, c), cabs[c])))
            => Memory(EncrCabTable(cabs, blks))
         /\ 8 + 10 * Len(blks) <= EncrInnerLen(cabs, blks)
<1> DEFINE w == [c \in DOMAIN cabs |-> EncrCab(EncrCabAt(cabs, blks, c), cabs[c])]
           from == [c \in 1 .. n + 1 |-> EncrCabAt(cabs, blks, c)]
<1>1. \A c \in 1 .. n : w[c] = EncrCab(EncrCabAt(cabs, blks, c), cabs[c])
  BY DEF Indexed, Named
<1>2. Indexed(w, n) /\ n \in Nat
  BY DEF Indexed, Named
<1>3. EncrCabTable(cabs, blks) = Laid(w)
  BY DEF EncrCabTable
<1> HIDE DEF w
<1>4. Adjacent(w, n, from)
  <2>1. from \in [1 .. n + 1 -> Nat]
    BY EncrCabPlaces
  <2>2. ASSUME NEW c \in 1 .. n
        PROVE  from[c] <= from[c + 1] /\ DOMAIN w[c] = from[c] .. from[c + 1] - 1
    <3> DEFINE l == Len(NameOut(cabs[c]))
               at == EncrCabAt(cabs, blks, c)
    <3>1. c \in 1 .. n + 1 /\ c + 1 \in 1 .. n + 1
      BY <1>2, SMT
    <3>2. from[c] = at /\ from[c + 1] = at + 20 + l /\ at \in Nat
      BY <3>1, EncrCabPlaces
    <3>3. l \in Nat /\ Len(NameOut(cabs[c])) = l
      BY NamesOut
    <3>4. w[c] = EncrCab(at, cabs[c])
      BY <1>1
    <3> HIDE DEF l, at, from
    <3>5. DOMAIN EncrCab(at, cabs[c]) = at .. at + 20 + l - 1
      BY <3>2, <3>3, EncrCabWrites, Zenon
    <3> QED BY <3>2, <3>3, <3>4, <3>5
  <2> HIDE DEF from
  <2> QED BY <2>1, <2>2 DEF Adjacent
<1>5. from[1] = 8 + 10 * Len(blks) /\ from[n + 1] = EncrInnerLen(cabs, blks)
  <2>1. 1 \in 1 .. n + 1 /\ n + 1 \in 1 .. n + 1
    BY <1>2, SMT
  <2> QED BY <2>1, EncrCabPlaces
<1> HIDE DEF from
<1>6. /\ \A i \in 1 .. n : Holds(Laid(w), w[i])
      /\ DOMAIN Laid(w) = from[1] .. from[n + 1] - 1
      /\ \A i, j \in 1 .. n + 1 : i <= j => from[i] <= from[j]
  BY <1>2, <1>4, AdjacentLaid, Zenon
<1>7. (\A c \in 1 .. n : Memory(w[c])) => Memory(Laid(w))
  BY <1>2, LaidMemory
<1>8. from[1] <= from[n + 1]
  BY <1>2, <1>6, SMT
<1> QED BY <1>1, <1>3, <1>5, <1>6, <1>7, <1>8


InEncrInner(cabs, blks, n, d, m) ==
  /\ Agrees(m, BeAt(0, 4, d)) /\ Agrees(m, EncrBlockTable(blks))
  /\ Agrees(m, BeAt(4 + 10 * d, 4, n)) /\ Agrees(m, EncrCabTable(cabs, blks))

SoundEncrInner(cabs, blks, n, d) ==
  /\ Memory(BeAt(0, 4, d)) /\ Memory(EncrBlockTable(blks)) /\ Memory(BeAt(4 + 10 * d, 4, n))
  /\ Memory(EncrCabTable(cabs, blks))

\* The whole inner header of encr.
LEMMA EncrInnerWrites ==
  ASSUME NEW cabs, NEW n, Named(cabs, n), NEW blks, NEW d, Indexed(blks, d), Len(blks) = d
  PROVE  /\ DOMAIN EncrInner(cabs, blks) = 0 .. EncrInnerLen(cabs, blks) - 1
         /\ \A m : Agrees(m, EncrInner(cabs, blks)) => InEncrInner(cabs, blks, n, d, m)
         /\ SoundEncrInner(cabs, blks, n, d) => Memory(EncrInner(cabs, blks))
<1> DEFINE w == << BeAt(0, 4, d), EncrBlockTable(blks), BeAt(4 + 10 * d, 4, n),
                   EncrCabTable(cabs, blks) >>
           lab == [x \in Nat |-> IF x \in 0 .. 3 THEN 1 ELSE IF x \in 4 .. 3 + 10 * d THEN 2 ELSE
                     IF x \in 4 + 10 * d .. 7 + 10 * d THEN 3 ELSE 4]
<1>0. d \in Nat /\ Len(blks) = d /\ EncrInnerLen(cabs, blks) \in Nat /\ 8 + 10 * d <= EncrInnerLen(cabs, blks)
  <2>1. d \in Nat /\ Len(blks) = d /\ n \in Nat
    BY DEF Indexed, Named
  <2>2. n + 1 \in 1 .. n + 1
    BY <2>1, SMT
  <2> QED BY <2>1, <2>2, EncrCabPlaces, EncrCabTableWrites
<1>1. /\ DOMAIN w = 1 .. 4 /\ Indexed(w, 4)
      /\ w[1] = BeAt(0, 4, d)
      /\ w[2] = EncrBlockTable(blks)
      /\ w[3] = BeAt(4 + 10 * d, 4, n)
      /\ w[4] = EncrCabTable(cabs, blks)
  BY SMT DEF Indexed
<1>i. Indexed(w, 4)
  BY <1>1
<1>2. EncrInner(cabs, blks) = Laid(w)
  BY <1>0 DEF EncrInner, EncrBlockTable, EncrCabTable, Named
<1> HIDE DEF w
<1>a1. \A x : x \in DOMAIN w[1] <=> x \in 0 .. 3
  BY <1>1, SMT DEF BeAt
<1>a2. \A x : x \in DOMAIN w[2] <=> x \in 4 .. 3 + 10 * d
  BY <1>1, EncrBlockTableWrites
<1>a3. \A x : x \in DOMAIN w[3] <=> x \in 4 + 10 * d .. 7 + 10 * d
  BY <1>0, <1>1, SMT DEF BeAt
<1>a4. \A x : x \in DOMAIN w[4] <=> x \in 8 + 10 * d .. EncrInnerLen(cabs, blks) - 1
  BY <1>0, <1>1, EncrCabTableWrites
<1>3. 4 \in Nat /\ \A i \in 1 .. 4 : i = 1 \/ i = 2 \/ i = 3 \/ i = 4
  BY SMT
<1>4. 1 \in 1 .. 4 /\ 2 \in 1 .. 4 /\ 3 \in 1 .. 4 /\ 4 \in 1 .. 4
  BY SMT
<1>5. \A i \in 1 .. 4 : \A x \in DOMAIN w[i] : lab[x] = i
  <2>1. \A x \in DOMAIN w[1] : lab[x] = 1
    BY <1>a1, <1>0, SMT
  <2>2. \A x \in DOMAIN w[2] : lab[x] = 2
    BY <1>a2, <1>0, SMT
  <2>3. \A x \in DOMAIN w[3] : lab[x] = 3
    BY <1>a3, <1>0, SMT
  <2>4. \A x \in DOMAIN w[4] : lab[x] = 4
    BY <1>a4, <1>0, SMT
  <2> HIDE DEF lab
  <2> QED BY <1>3, <2>1, <2>2, <2>3, <2>4
<1> HIDE DEF lab
<1>6. \A i \in 1 .. 4 : Holds(Laid(w), w[i])
  <2>1. Apart(w)
    BY <1>1, <1>5 DEF Apart
  <2> QED BY <1>i, <2>1, LaidHolds
<1>8. \A x : x \in DOMAIN Laid(w) <=>
           x \in DOMAIN w[1] \/ x \in DOMAIN w[2] \/ x \in DOMAIN w[3] \/ x \in DOMAIN w[4]
  <2>1. \A x : x \in DOMAIN Laid(w) <=> \E i \in 1 .. 4 : x \in DOMAIN w[i]
    BY <1>i, LaidDomain, Zenon
  <2> QED BY <1>3, <1>4, <2>1
<1>9. DOMAIN Laid(w) = 0 .. EncrInnerLen(cabs, blks) - 1
  <2>1. \A x : x \in 0 .. EncrInnerLen(cabs, blks) - 1 <=>
             (x \in 0 .. 3) \/ (x \in 4 .. 3 + 10 * d) \/ (x \in 4 + 10 * d .. 7 + 10 * d)
             \/ (x \in 8 + 10 * d .. EncrInnerLen(cabs, blks) - 1)
    BY <1>0, SMT
  <2>2. \A x : x \in DOMAIN Laid(w) <=> x \in 0 .. EncrInnerLen(cabs, blks) - 1
    BY <1>8, <2>1, <1>a1, <1>a2, <1>a3, <1>a4
  <2> QED BY <2>2
<1>7. ASSUME NEW m, Agrees(m, Laid(w)) PROVE InEncrInner(cabs, blks, n, d, m)
  <2>1. \A i \in 1 .. 4 : Agrees(m, w[i])
    BY <1>6, <1>7, AgreesThrough
  <2>2. Agrees(m, w[1]) /\ Agrees(m, w[2]) /\ Agrees(m, w[3]) /\ Agrees(m, w[4])
    BY <1>4, <2>1
  <2> QED BY <1>1, <2>2 DEF InEncrInner
<1>11. ASSUME SoundEncrInner(cabs, blks, n, d) PROVE Memory(Laid(w))
  <2>0. Memory(w[1]) /\ Memory(w[2]) /\ Memory(w[3]) /\ Memory(w[4])
    BY <1>1, <1>11 DEF SoundEncrInner
  <2>1. \A i \in 1 .. 4 : Memory(w[i])
    BY <1>3, <2>0
  <2> QED BY <1>i, <2>1, LaidMemory
<1> QED BY <1>2, <1>7, <1>9, <1>11

Blb3CabFits(at, cab, name_at) ==
  at \in Nat /\ name_at \in Nat /\ name_at >= at + 16 /\ Len(NameOut(cab)) \in Nat

InBlb3Cab(at, cab, name_at, m) ==
  /\ Agrees(m, LeAt(at, 4, cab.blk_off)) /\ Agrees(m, LeAt(at + 4, 4, cab.blk_sz))
  /\ Agrees(m, LeAt(at + 8, 8, name_at - (at + 8))) /\ Agrees(m, BytesAt(name_at, NameOut(cab)))

SoundBlb3Cab(at, cab, name_at) ==
  /\ Memory(LeAt(at, 4, cab.blk_off)) /\ Memory(LeAt(at + 4, 4, cab.blk_sz))
  /\ Memory(LeAt(at + 8, 8, name_at - (at + 8))) /\ Memory(BytesAt(name_at, NameOut(cab)))

\* A cab entry of blb3: 16 bytes in the table and the name where the entry points.
LEMMA Blb3CabWrites ==
  ASSUME NEW at, NEW cab, NEW name_at, Blb3CabFits(at, cab, name_at)
  PROVE  /\ DOMAIN Blb3Cab(at, cab, name_at)
              = (at .. at + 15) \cup (name_at .. name_at + Len(NameOut(cab)) - 1)
         /\ \A m : Agrees(m, Blb3Cab(at, cab, name_at)) => InBlb3Cab(at, cab, name_at, m)
         /\ SoundBlb3Cab(at, cab, name_at) => Memory(Blb3Cab(at, cab, name_at))
<1> DEFINE w == << LeAt(at, 4, cab.blk_off), LeAt(at + 4, 4, cab.blk_sz),
                   LeAt(at + 8, 8, name_at - (at + 8)), BytesAt(name_at, NameOut(cab)) >>
           lab == [x \in Nat |-> IF x \in at .. at + 3 THEN 1 ELSE IF x \in at + 4 .. at + 7 THEN 2 ELSE
                     IF x \in at + 8 .. at + 15 THEN 3 ELSE 4]
<1>0. /\ at \in Nat /\ name_at \in Nat /\ name_at >= at + 16 /\ Len(NameOut(cab)) \in Nat
  BY DEF Blb3CabFits
<1>1. /\ DOMAIN w = 1 .. 4 /\ Indexed(w, 4)
      /\ w[1] = LeAt(at, 4, cab.blk_off)
      /\ w[2] = LeAt(at + 4, 4, cab.blk_sz)
      /\ w[3] = LeAt(at + 8, 8, name_at - (at + 8))
      /\ w[4] = BytesAt(name_at, NameOut(cab))
  BY SMT DEF Indexed
<1>i. Indexed(w, 4)
  BY <1>1
<1>2. Blb3Cab(at, cab, name_at) = Laid(w)
  BY DEF Blb3Cab
<1> HIDE DEF w
<1>a1. \A x : x \in DOMAIN w[1] <=> x \in at .. at + 3
  BY <1>0, <1>1, SMT DEF LeAt
<1>a2. \A x : x \in DOMAIN w[2] <=> x \in at + 4 .. at + 7
  BY <1>0, <1>1, SMT DEF LeAt
<1>a3. \A x : x \in DOMAIN w[3] <=> x \in at + 8 .. at + 15
  BY <1>0, <1>1, SMT DEF LeAt
<1>a4. \A x : x \in DOMAIN w[4] <=> x \in name_at .. name_at + Len(NameOut(cab)) - 1
  BY <1>0, <1>1, SMT DEF BytesAt
<1>3. 4 \in Nat /\ \A i \in 1 .. 4 : i = 1 \/ i = 2 \/ i = 3 \/ i = 4
  BY SMT
<1>4. 1 \in 1 .. 4 /\ 2 \in 1 .. 4 /\ 3 \in 1 .. 4 /\ 4 \in 1 .. 4
  BY SMT
<1>5. \A i \in 1 .. 4 : \A x \in DOMAIN w[i] : lab[x] = i
  <2>1. \A x \in DOMAIN w[1] : lab[x] = 1
    BY <1>a1, <1>0, SMT
  <2>2. \A x \in DOMAIN w[2] : lab[x] = 2
    BY <1>a2, <1>0, SMT
  <2>3. \A x \in DOMAIN w[3] : lab[x] = 3
    BY <1>a3, <1>0, SMT
  <2>4. \A x \in DOMAIN w[4] : lab[x] = 4
    BY <1>a4, <1>0, SMT
  <2> HIDE DEF lab
  <2> QED BY <1>3, <2>1, <2>2, <2>3, <2>4
<1> HIDE DEF lab
<1>6. \A i \in 1 .. 4 : Holds(Laid(w), w[i])
  <2>1. Apart(w)
    BY <1>1, <1>5 DEF Apart
  <2> QED BY <1>i, <2>1, LaidHolds
<1>8. \A x : x \in DOMAIN Laid(w) <=>
           x \in DOMAIN w[1] \/ x \in DOMAIN w[2] \/ x \in DOMAIN w[3] \/ x \in DOMAIN w[4]
  <2>1. \A x : x \in DOMAIN Laid(w) <=> \E i \in 1 .. 4 : x \in DOMAIN w[i]
    BY <1>i, LaidDomain, Zenon
  <2> QED BY <1>3, <1>4, <2>1
<1>9. DOMAIN Laid(w) = (at .. at + 15) \cup (name_at .. name_at + Len(NameOut(cab)) - 1)
  <2>1. \A x : x \in (at .. at + 15) \cup (name_at .. name_at + Len(NameOut(cab)) - 1) <=>
             (x \in at .. at + 3) \/ (x \in at + 4 .. at + 7) \/ (x \in at + 8 .. at + 15)
             \/ (x \in name_at .. name_at + Len(NameOut(cab)) - 1)
    BY <1>0, SMT
  <2>2. \A x : x \in DOMAIN Laid(w)
                 <=> x \in (at .. at + 15) \cup (name_at .. name_at + Len(NameOut(cab)) - 1)
    BY <1>8, <2>1, <1>a1, <1>a2, <1>a3, <1>a4
  <2> QED BY <2>2
<1>7. ASSUME NEW m, Agrees(m, Laid(w)) PROVE InBlb3Cab(at, cab, name_at, m)
  <2>1. \A i \in 1 .. 4 : Agrees(m, w[i])
    BY <1>6, <1>7, AgreesThrough
  <2>2. Agrees(m, w[1]) /\ Agrees(m, w[2]) /\ Agrees(m, w[3]) /\ Agrees(m, w[4])
    BY <1>4, <2>1
  <2> QED BY <1>1, <2>2 DEF InBlb3Cab
<1>11. ASSUME SoundBlb3Cab(at, cab, name_at) PROVE Memory(Laid(w))
  <2>0. Memory(w[1]) /\ Memory(w[2]) /\ Memory(w[3]) /\ Memory(w[4])
    BY <1>1, <1>11 DEF SoundBlb3Cab
  <2>1. \A i \in 1 .. 4 : Memory(w[i])
    BY <1>3, <2>0
  <2> QED BY <1>i, <2>1, LaidMemory
<1> QED BY <1>2, <1>7, <1>9, <1>11

-----------------------------------------------------------------------------
(* The flag words of blb3.                                                 *)

\* Bit[k], unfolded once.
LEMMA BitDef ==
  \A k \in 0 .. 30 : Bit[k] = IF k = 0 THEN 1 ELSE 2 * Bit[k - 1]
<1> DEFINE double == [x \in Nat |-> 2 * x]
           step == [k \in 1 .. 30 |-> double]
           R(u) == u = [k \in 0 .. 30 |-> IF k = 0 THEN 1 ELSE 2 * u[k - 1]]
<1>1. step \in [1 .. 30 -> [Nat -> Nat]] /\ 1 \in Nat /\ 30 \in Nat
  <2>1. double \in [Nat -> Nat]
    BY SMT
  <2> HIDE DEF double
  <2> QED BY <2>1, SMT
<1>2. PICK s \in [0 .. 30 -> Nat] : Recurs(s, 30, 1, step)
  <2> HIDE DEF step
  <2> QED BY <1>1, Recursion
<1>3. \A k \in 0 .. 30 : s[k] = IF k = 0 THEN 1 ELSE 2 * s[k - 1]
  <2>1. \A k \in 0 .. 30 : s[k] = IF k = 0 THEN 1 ELSE step[k][s[k - 1]]
    <3> HIDE DEF step
    <3> QED BY <1>2, Zenon DEF Recurs
  <2>2. \A k \in 0 .. 30 : k # 0 => k \in 1 .. 30 /\ k - 1 \in 0 .. 30
    BY SMT
  <2>3. \A k \in 1 .. 30 : k - 1 \in 0 .. 30 => step[k][s[k - 1]] = 2 * s[k - 1]
    BY SMT
  <2> HIDE DEF step
  <2> QED BY <2>1, <2>2, <2>3, Zenon
<1>4. R(s)
  BY <1>2, <1>3
<1>5. Bit = CHOOSE u : R(u)
  BY DEF Bit
<1>6. R(Bit)
  <2> HIDE DEF R
  <2> QED BY <1>4, <1>5
<1> QED BY <1>6, SMT

\* The powers of two the formats use.
LEMMA Bits ==
  /\ Bit[0] = 1 /\ Bit[1] = 2 /\ Bit[2] = 4 /\ Bit[3] = 8 /\ Bit[4] = 16
  /\ Bit[5] = 32 /\ Bit[6] = 64 /\ Bit[7] = 128 /\ Bit[17] = BlockSize
<1>1. Bit[0] = 1 /\ Bit[1] = 2 /\ Bit[2] = 4 /\ Bit[3] = 8
  BY BitDef, SMT
<1>2. Bit[4] = 16 /\ Bit[5] = 32 /\ Bit[6] = 64 /\ Bit[7] = 128
  BY <1>1, BitDef, SMT
<1>3. Bit[8] = 256 /\ Bit[9] = 512 /\ Bit[10] = 1024 /\ Bit[11] = 2048
  BY <1>2, BitDef, SMT
<1>4. Bit[12] = 4096 /\ Bit[13] = 8192 /\ Bit[14] = 16384 /\ Bit[15] = 32768
  BY <1>3, BitDef, SMT
<1>5. Bit[16] = 65536 /\ Bit[17] = 131072
  BY <1>4, BitDef, SMT
<1> QED BY <1>1, <1>2, <1>5, SMT DEF BlockSize

\* The sum of eight numbers, written out.
LEMMA EightSum ==
  ASSUME NEW seq \in [1 .. 8 -> Nat]
  PROVE  Sum(seq) = seq[1] + seq[2] + seq[3] + seq[4] + seq[5] + seq[6] + seq[7] + seq[8]
<1>1. seq \in Seq(Nat) /\ Len(seq) = 8
  <2>1. 8 \in Nat
    BY SMT
  <2> QED BY <2>1, BytesSeq, Zenon
<1>2. /\ Before(seq, 1) = 0 /\ Before(seq, 8 + 1) = Sum(seq)
      /\ \A k \in 1 .. 8 : Before(seq, k + 1) = Before(seq, k) + seq[k]
      /\ \A k \in 1 .. 8 + 1 : Before(seq, k) \in Nat
  BY <1>1, BeforeFacts
<1>3. /\ Before(seq, 2) = Before(seq, 1) + seq[1] /\ Before(seq, 3) = Before(seq, 2) + seq[2]
      /\ Before(seq, 4) = Before(seq, 3) + seq[3] /\ Before(seq, 5) = Before(seq, 4) + seq[4]
      /\ Before(seq, 6) = Before(seq, 5) + seq[5] /\ Before(seq, 7) = Before(seq, 6) + seq[6]
      /\ Before(seq, 8) = Before(seq, 7) + seq[7] /\ Before(seq, 9) = Before(seq, 8) + seq[8]
  BY <1>2, SMT
<1>4. /\ seq[1] \in Nat /\ seq[2] \in Nat /\ seq[3] \in Nat /\ seq[4] \in Nat
      /\ seq[5] \in Nat /\ seq[6] \in Nat /\ seq[7] \in Nat /\ seq[8] \in Nat
  BY SMT
<1>5. Before(seq, 9) = Sum(seq) /\ Before(seq, 1) = 0
  BY <1>2, SMT
<1> QED BY <1>3, <1>4, <1>5, SMT

IsByteOf(byte, b1, b2, b3, b4, b5, b6, b7, b8) ==
  byte = b1 + 2 * b2 + 4 * b3 + 8 * b4 + 16 * b5 + 32 * b6 + 64 * b7 + 128 * b8

\* A byte made of eight bits has those bits.
LEMMA EightBits ==
  ASSUME NEW b1 \in {0, 1}, NEW b2 \in {0, 1}, NEW b3 \in {0, 1}, NEW b4 \in {0, 1},
         NEW b5 \in {0, 1}, NEW b6 \in {0, 1}, NEW b7 \in {0, 1}, NEW b8 \in {0, 1},
         NEW byte, IsByteOf(byte, b1, b2, b3, b4, b5, b6, b7, b8)
  PROVE  /\ byte \in Byte
         /\ (byte \div 1) % 2 = b1 /\ (byte \div 2) % 2 = b2 /\ (byte \div 4) % 2 = b3
         /\ (byte \div 8) % 2 = b4 /\ (byte \div 16) % 2 = b5 /\ (byte \div 32) % 2 = b6
         /\ (byte \div 64) % 2 = b7 /\ (byte \div 128) % 2 = b8
<1> USE DEF IsByteOf
<1>1. byte \in Byte
  BY SMT DEF Byte
<1>2. (byte \div 1) % 2 = b1
  <2>1. byte \div 1 = b1 + 2 * b2 + 4 * b3 + 8 * b4 + 16 * b5 + 32 * b6 + 64 * b7 + 128 * b8
    BY SMT
  <2> QED BY <2>1, SMT
<1>3. (byte \div 2) % 2 = b2
  <2>1. byte \div 2 = b2 + 2 * b3 + 4 * b4 + 8 * b5 + 16 * b6 + 32 * b7 + 64 * b8
    BY SMT
  <2> QED BY <2>1, SMT
<1>4. (byte \div 4) % 2 = b3
  <2>1. byte \div 4 = b3 + 2 * b4 + 4 * b5 + 8 * b6 + 16 * b7 + 32 * b8
    BY SMT
  <2> QED BY <2>1, SMT
<1>5. (byte \div 8) % 2 = b4
  <2>1. byte \div 8 = b4 + 2 * b5 + 4 * b6 + 8 * b7 + 16 * b8
    BY SMT
  <2> QED BY <2>1, SMT
<1>6. (byte \div 16) % 2 = b5
  <2>1. byte \div 16 = b5 + 2 * b6 + 4 * b7 + 8 * b8
    BY SMT
  <2> QED BY <2>1, SMT
<1>7. (byte \div 32) % 2 = b6
  <2>1. byte \div 32 = b6 + 2 * b7 + 4 * b8
    BY SMT
  <2> QED BY <2>1, SMT
<1>8. (byte \div 64) % 2 = b7
  <2>1. byte \div 64 = b7 + 2 * b8
    BY SMT
  <2> QED BY <2>1, SMT
<1>9. (byte \div 128) % 2 = b8
  <2>1. byte \div 128 = b8
    BY SMT
  <2> QED BY <2>1, SMT
<1> QED BY <1>1, <1>2, <1>3, <1>4, <1>5, <1>6, <1>7, <1>8, <1>9

\* Cabs with flags of one bit.
Flagged(cabs, n) == Indexed(cabs, n) /\ Len(cabs) = n /\ \A c \in 1 .. n : cabs[c].meta.flag \in {0, 1}

\* A byte of the flag words holds the flags of its eight cabs.
LEMMA FlagByte ==
  ASSUME NEW cabs, NEW n, Flagged(cabs, n), NEW q \in Nat
  PROVE  LET set(c) == IF c <= n /\ cabs[c].meta.flag # 0 THEN 1 ELSE 0
             byte == Sum([c \in 1 .. 8 |-> FlagBit(cabs, 8 * q + c)])
         IN  byte \in Byte /\ \A r \in 0 .. 7 : (byte \div Bit[r]) % 2 = set(8 * q + r + 1)
<1> DEFINE set(c) == IF c <= n /\ cabs[c].meta.flag # 0 THEN 1 ELSE 0
           seq == [c \in 1 .. 8 |-> FlagBit(cabs, 8 * q + c)]
<1>1. n \in Nat /\ Len(cabs) = n
  BY DEF Flagged, Indexed
<1>2. \A c \in 1 .. 8 : seq[c] = set(8 * q + c) * Bit[c - 1] /\ set(8 * q + c) \in {0, 1}
  <2> TAKE c \in 1 .. 8
  <2>1. (8 * q + c - 1) % 8 = c - 1 /\ seq[c] = FlagBit(cabs, 8 * q + c)
    BY SMT
  <2>2. Bit[c - 1] \in Nat
    <3>1. c = 1 \/ c = 2 \/ c = 3 \/ c = 4 \/ c = 5 \/ c = 6 \/ c = 7 \/ c = 8
      BY SMT
    <3> QED BY <3>1, Bits, SMT
  <2>3. FlagBit(cabs, 8 * q + c) = IF 8 * q + c <= n /\ cabs[8 * q + c].meta.flag # 0 THEN Bit[c - 1] ELSE 0
    BY <1>1, <2>1 DEF FlagBit
  <2>4. CASE 8 * q + c <= n /\ cabs[8 * q + c].meta.flag # 0
    BY <2>1, <2>2, <2>3, <2>4, SMT
  <2>5. CASE ~(8 * q + c <= n /\ cabs[8 * q + c].meta.flag # 0)
    BY <2>1, <2>2, <2>3, <2>5, SMT
  <2> QED BY <2>4, <2>5
<1>3. /\ seq[1] = set(8 * q + 1) /\ seq[2] = 2 * set(8 * q + 2)
      /\ seq[3] = 4 * set(8 * q + 3) /\ seq[4] = 8 * set(8 * q + 4)
      /\ seq[5] = 16 * set(8 * q + 5) /\ seq[6] = 32 * set(8 * q + 6)
      /\ seq[7] = 64 * set(8 * q + 7) /\ seq[8] = 128 * set(8 * q + 8)
      /\ set(8 * q + 1) \in {0, 1} /\ set(8 * q + 2) \in {0, 1} /\ set(8 * q + 3) \in {0, 1}
      /\ set(8 * q + 4) \in {0, 1} /\ set(8 * q + 5) \in {0, 1} /\ set(8 * q + 6) \in {0, 1}
      /\ set(8 * q + 7) \in {0, 1} /\ set(8 * q + 8) \in {0, 1}
  <2> HIDE DEF seq, set
  <2>1. /\ seq[1] = set(8 * q + 1) * Bit[1 - 1] /\ seq[2] = set(8 * q + 2) * Bit[2 - 1]
        /\ seq[3] = set(8 * q + 3) * Bit[3 - 1] /\ seq[4] = set(8 * q + 4) * Bit[4 - 1]
        /\ seq[5] = set(8 * q + 5) * Bit[5 - 1] /\ seq[6] = set(8 * q + 6) * Bit[6 - 1]
        /\ seq[7] = set(8 * q + 7) * Bit[7 - 1] /\ seq[8] = set(8 * q + 8) * Bit[8 - 1]
    BY <1>2, SMT
  <2>2. /\ set(8 * q + 1) \in {0, 1} /\ set(8 * q + 2) \in {0, 1} /\ set(8 * q + 3) \in {0, 1}
        /\ set(8 * q + 4) \in {0, 1} /\ set(8 * q + 5) \in {0, 1} /\ set(8 * q + 6) \in {0, 1}
        /\ set(8 * q + 7) \in {0, 1} /\ set(8 * q + 8) \in {0, 1}
    BY <1>2, SMT
  <2> QED BY <2>1, <2>2, Bits, SMT
<1>b. /\ set(8 * q + 1) \in {0, 1} /\ set(8 * q + 2) \in {0, 1} /\ set(8 * q + 3) \in {0, 1}
      /\ set(8 * q + 4) \in {0, 1} /\ set(8 * q + 5) \in {0, 1} /\ set(8 * q + 6) \in {0, 1}
      /\ set(8 * q + 7) \in {0, 1} /\ set(8 * q + 8) \in {0, 1}
  BY <1>3
<1>4. seq \in [1 .. 8 -> Nat]
  <2>1. \A c \in 1 .. 8 : seq[c] \in Nat
    <3> TAKE c \in 1 .. 8
    <3> HIDE DEF seq, set
    <3>1. c = 1 \/ c = 2 \/ c = 3 \/ c = 4 \/ c = 5 \/ c = 6 \/ c = 7 \/ c = 8
      BY SMT
    <3> QED BY <1>3, <3>1, SMT
  <2> QED BY <2>1
<1> DEFINE byte == Sum(seq)
<1>5. byte = set(8 * q + 1) + 2 * set(8 * q + 2) + 4 * set(8 * q + 3) + 8 * set(8 * q + 4)
             + 16 * set(8 * q + 5) + 32 * set(8 * q + 6) + 64 * set(8 * q + 7) + 128 * set(8 * q + 8)
  <2> HIDE DEF seq, set
  <2>1. byte = seq[1] + seq[2] + seq[3] + seq[4] + seq[5] + seq[6] + seq[7] + seq[8]
    BY <1>4, EightSum
  <2> HIDE DEF byte
  <2> QED BY <1>3, <2>1, SMT
<1>6. byte \in Byte /\ \A r \in 0 .. 7 : (byte \div Bit[r]) % 2 = set(8 * q + r + 1)
  <2> HIDE DEF seq, set, byte
  <2>0. IsByteOf(byte, set(8 * q + 1), set(8 * q + 2), set(8 * q + 3), set(8 * q + 4),
                       set(8 * q + 5), set(8 * q + 6), set(8 * q + 7), set(8 * q + 8))
    BY <1>5 DEF IsByteOf
  <2>1. byte \in Byte
    BY <1>b, <2>0, EightBits, SMT
  <2>2. (byte \div 1) % 2 = set(8 * q + 1) /\ (byte \div 2) % 2 = set(8 * q + 2)
    BY <1>b, <2>0, EightBits, SMT
  <2>3. (byte \div 4) % 2 = set(8 * q + 3) /\ (byte \div 8) % 2 = set(8 * q + 4)
    BY <1>b, <2>0, EightBits, SMT
  <2>4. (byte \div 16) % 2 = set(8 * q + 5) /\ (byte \div 32) % 2 = set(8 * q + 6)
    BY <1>b, <2>0, EightBits, SMT
  <2>5. (byte \div 64) % 2 = set(8 * q + 7) /\ (byte \div 128) % 2 = set(8 * q + 8)
    BY <1>b, <2>0, EightBits, SMT
  <2>6. ASSUME NEW r \in 0 .. 7 PROVE (byte \div Bit[r]) % 2 = set(8 * q + r + 1)
    <3>1. r = 0 \/ r = 1 \/ r = 2 \/ r = 3 \/ r = 4 \/ r = 5 \/ r = 6 \/ r = 7
      BY SMT
    <3>2. /\ 8 * q + 0 + 1 = 8 * q + 1 /\ 8 * q + 1 + 1 = 8 * q + 2 /\ 8 * q + 2 + 1 = 8 * q + 3
          /\ 8 * q + 3 + 1 = 8 * q + 4 /\ 8 * q + 4 + 1 = 8 * q + 5 /\ 8 * q + 5 + 1 = 8 * q + 6
          /\ 8 * q + 6 + 1 = 8 * q + 7 /\ 8 * q + 7 + 1 = 8 * q + 8
      BY SMT
    <3>3. CASE r = 0
      BY <2>2, <3>2, <3>3, Bits
    <3>4. CASE r = 1
      BY <2>2, <3>2, <3>4, Bits
    <3>5. CASE r = 2
      BY <2>3, <3>2, <3>5, Bits
    <3>6. CASE r = 3
      BY <2>3, <3>2, <3>6, Bits
    <3>7. CASE r = 4
      BY <2>4, <3>2, <3>7, Bits
    <3>8. CASE r = 5
      BY <2>4, <3>2, <3>8, Bits
    <3>9. CASE r = 6
      BY <2>5, <3>2, <3>9, Bits
    <3>10. CASE r = 7
      BY <2>5, <3>2, <3>10, Bits
    <3> QED BY <3>1, <3>3, <3>4, <3>5, <3>6, <3>7, <3>8, <3>9, <3>10
  <2> QED BY <2>1, <2>6
<1> QED BY <1>6

\* So the flag of every cab is found at its bit of the words.
LEMMA FlagBytesRead ==
  ASSUME NEW cabs, NEW n, Flagged(cabs, n), n >= 1
  PROVE  /\ FlagBytes(cabs) \in Seq(Byte) /\ Len(FlagBytes(cabs)) \in Nat /\ Len(FlagBytes(cabs)) >= 4
         /\ \A c \in 1 .. n :
              /\ (c - 1) \div 8 + 1 \in 1 .. Len(FlagBytes(cabs))
              /\ (FlagBytes(cabs)[(c - 1) \div 8 + 1] \div Bit[(c - 1) % 8]) % 2 = cabs[c].meta.flag
<1> DEFINE len == 4 * ((n + 31) \div 32)
           byte(q) == Sum([c \in 1 .. 8 |-> FlagBit(cabs, 8 * q + c)])
<1>1. n \in Nat /\ Len(cabs) = n /\ len \in Nat /\ len >= 4
  <2>1. n \in Nat /\ Len(cabs) = n
    BY DEF Flagged, Indexed
  <2> QED BY <2>1, SMT
<1>2. FlagBytes(cabs) = [k \in 1 .. len |-> byte(k - 1)]
  BY <1>1 DEF FlagBytes
<1>3. \A q \in Nat : byte(q) \in Byte
  BY FlagByte
<1> HIDE DEF byte
<1>4. FlagBytes(cabs) \in [1 .. len -> Byte]
  <2>1. \A k \in 1 .. len : k - 1 \in Nat
    BY <1>1, SMT
  <2> QED BY <1>2, <1>3, <2>1
<1>5. FlagBytes(cabs) \in Seq(Byte) /\ Len(FlagBytes(cabs)) = len
  <2> HIDE DEF len
  <2> QED BY <1>1, <1>4, BytesSeq
<1>6. ASSUME NEW c \in 1 .. n
      PROVE  /\ (c - 1) \div 8 + 1 \in 1 .. len
             /\ (FlagBytes(cabs)[(c - 1) \div 8 + 1] \div Bit[(c - 1) % 8]) % 2 = cabs[c].meta.flag
  <2> DEFINE q == (c - 1) \div 8
             r == (c - 1) % 8
  <2>1. /\ q \in Nat /\ r \in 0 .. 7 /\ 8 * q + r + 1 = c /\ q + 1 \in 1 .. len /\ (q + 1) - 1 = q
    BY <1>1, SMT
  <2> HIDE DEF q, r, len
  <2>2. FlagBytes(cabs)[q + 1] = byte(q)
    BY <1>2, <2>1
  <2>3. (byte(q) \div Bit[r]) % 2 = IF 8 * q + r + 1 <= n /\ cabs[8 * q + r + 1].meta.flag # 0 THEN 1 ELSE 0
    BY <2>1, FlagByte DEF byte
  <2>4. cabs[c].meta.flag \in {0, 1} /\ c <= n
    BY <1>1, SMT DEF Flagged
  <2>5. (byte(q) \div Bit[r]) % 2 = cabs[c].meta.flag
    BY <2>1, <2>3, <2>4
  <2> QED BY <2>1, <2>2, <2>5 DEF q, r
<1> QED BY <1>1, <1>5, <1>6


\* Writes that lie in two parts each: one part after the other, twice.
Halved(w, n, h, s) ==
  /\ h \in [1 .. n + 1 -> Nat] /\ s \in [1 .. n + 1 -> Nat] /\ h[n + 1] <= s[1]
  /\ \A i \in 1 .. n : h[i] <= h[i + 1] /\ s[i] <= s[i + 1]
  /\ \A i \in 1 .. n : DOMAIN w[i] = (h[i] .. h[i + 1] - 1) \cup (s[i] .. s[i + 1] - 1)

\* Entries in two tables, each table without gaps, do not overlap.
LEMMA HalvedLaid ==
  ASSUME NEW w, NEW n, NEW h, NEW s, Indexed(w, n), Halved(w, n, h, s)
  PROVE  /\ \A i \in 1 .. n : Holds(Laid(w), w[i])
         /\ DOMAIN Laid(w) = (h[1] .. h[n + 1] - 1) \cup (s[1] .. s[n + 1] - 1)
<1> DEFINE u == [i \in 1 .. n |-> [y \in h[i] .. h[i + 1] - 1 |-> y]]
           v == [i \in 1 .. n |-> [y \in s[i] .. s[i + 1] - 1 |-> y]]
<1>1. n \in Nat /\ Indexed(u, n) /\ Indexed(v, n)
  BY DEF Indexed
<1>2. Adjacent(u, n, h) /\ Adjacent(v, n, s)
  BY DEF Adjacent, Halved
<1>3. \A i \in 1 .. n : \A x : x \in DOMAIN w[i] <=> x \in DOMAIN u[i] \/ x \in DOMAIN v[i]
  BY DEF Halved
<1>4. \A i \in 1 .. n : DOMAIN u[i] = h[i] .. h[i + 1] - 1 /\ DOMAIN v[i] = s[i] .. s[i + 1] - 1
  OBVIOUS
<1> HIDE DEF u, v
<1>5. /\ \A i, j \in 1 .. n + 1 : i <= j => h[i] <= h[j]
      /\ DOMAIN Laid(u) = h[1] .. h[n + 1] - 1
  BY <1>1, <1>2, AdjacentLaid
<1>6. /\ \A i, j \in 1 .. n + 1 : i <= j => s[i] <= s[j]
      /\ DOMAIN Laid(v) = s[1] .. s[n + 1] - 1
  BY <1>1, <1>2, AdjacentLaid
<1>7. \A i \in 1 .. n + 1 : h[i] \in Nat /\ s[i] \in Nat
  BY DEF Halved
<1>8. ASSUME NEW i \in 1 .. n, NEW j \in 1 .. n, i < j, NEW x \in DOMAIN w[i], x \in DOMAIN w[j]
      PROVE  FALSE
  <2>1. i \in 1 .. n + 1 /\ j \in 1 .. n + 1 /\ i + 1 \in 1 .. n + 1 /\ j + 1 \in 1 .. n + 1
        /\ i + 1 <= j /\ j + 1 <= n + 1 /\ 1 <= i /\ 1 <= j /\ 1 \in 1 .. n + 1 /\ n + 1 \in 1 .. n + 1
        /\ i + 1 <= n + 1
    BY <1>1, <1>8, SMT
  <2>2. /\ h[i + 1] <= h[j] /\ s[i + 1] <= s[j] /\ h[i + 1] <= h[n + 1] /\ h[j + 1] <= h[n + 1]
        /\ s[1] <= s[i] /\ s[1] <= s[j]
    BY <1>5, <1>6, <2>1
  <2>3. /\ h[i] \in Nat /\ h[i + 1] \in Nat /\ h[j] \in Nat /\ h[j + 1] \in Nat /\ h[n + 1] \in Nat
        /\ s[i] \in Nat /\ s[i + 1] \in Nat /\ s[j] \in Nat /\ s[j + 1] \in Nat /\ s[1] \in Nat
    BY <1>7, <2>1
  <2>4. h[n + 1] <= s[1]
    BY DEF Halved
  <2>5. (x \in h[i] .. h[i + 1] - 1 \/ x \in s[i] .. s[i + 1] - 1)
        /\ (x \in h[j] .. h[j + 1] - 1 \/ x \in s[j] .. s[j + 1] - 1)
    BY <1>3, <1>4, <1>8
  <2> QED BY <2>2, <2>3, <2>4, <2>5, SMT
<1>9. Apart(w)
  <2> SUFFICES ASSUME NEW i \in 1 .. n, NEW j \in 1 .. n, i # j, NEW x \in DOMAIN w[i], x \in DOMAIN w[j]
               PROVE  FALSE
    BY DEF Apart, Indexed
  <2>1. i < j \/ j < i
    BY <1>1, SMT
  <2> QED BY <1>8, <2>1
<1>10. \A i \in 1 .. n : Holds(Laid(w), w[i])
  BY <1>9, LaidHolds
<1>11. /\ \A x : x \in DOMAIN Laid(w) <=> \E i \in 1 .. n : x \in DOMAIN w[i]
       /\ \A x : x \in DOMAIN Laid(u) <=> \E i \in 1 .. n : x \in DOMAIN u[i]
       /\ \A x : x \in DOMAIN Laid(v) <=> \E i \in 1 .. n : x \in DOMAIN v[i]
  BY <1>1, LaidDomain
<1>12. \A x : x \in DOMAIN Laid(w) <=> x \in DOMAIN Laid(u) \/ x \in DOMAIN Laid(v)
  BY <1>3, <1>11
<1>13. DOMAIN Laid(w) = DOMAIN Laid(u) \cup DOMAIN Laid(v)
  BY <1>12
<1> QED BY <1>5, <1>6, <1>10, <1>13

-----------------------------------------------------------------------------
(* The tables of blb3.                                                     *)

\* The flag words are bytes.
LEMMA FlagWordsBytes ==
  ASSUME NEW cabs, NEW n, Flagged(cabs, n), n >= 1, NEW blks
  PROVE  FlagWords(cabs, blks) \in Seq(Byte) /\ Len(FlagWords(cabs, blks)) \in Nat
<1>1. FlagBytes(cabs) \in Seq(Byte)
  BY FlagBytesRead
<1>2. FlagWords(cabs, blks) \in Seq(Byte)
  BY <1>1 DEF FlagWords
<1> QED BY <1>2

Blb3BlockTable(blks) == Laid([b \in DOMAIN blks |-> LeAt(84 + 4 * (b - 1), 4, BlockEnd(blks, b))])

Blb3BlockAt(b) == 84 + 4 * (b - 1)

Blb3CabAt(cabs, blks, c) == 88 + 4 * Len(blks) + 16 * (c - 1)

Blb3CabTable(cabs, blks) ==
  Laid([c \in DOMAIN cabs |-> Blb3Cab(Blb3CabAt(cabs, blks, c), cabs[c], Blb3NameAt(cabs, blks, c))])

\* The block table of blb3, which stores where each block ends.
LEMMA Blb3BlockTableWrites ==
  ASSUME NEW blks, NEW d, Indexed(blks, d)
  PROVE  /\ DOMAIN Blb3BlockTable(blks) = 84 .. 83 + 4 * d
         /\ \A b \in 1 .. d : Holds(Blb3BlockTable(blks), LeAt(Blb3BlockAt(b), 4, BlockEnd(blks, b)))
         /\ (\A b \in 1 .. d : Memory(LeAt(Blb3BlockAt(b), 4, BlockEnd(blks, b))))
            => Memory(Blb3BlockTable(blks))
<1> DEFINE w == [b \in DOMAIN blks |-> LeAt(Blb3BlockAt(b), 4, BlockEnd(blks, b))]
           from == [b \in 1 .. d + 1 |-> Blb3BlockAt(b)]
<1>1. \A b \in 1 .. d : w[b] = LeAt(Blb3BlockAt(b), 4, BlockEnd(blks, b))
  BY DEF Indexed
<1>2. Indexed(w, d) /\ d \in Nat
  BY DEF Indexed
<1>3. Blb3BlockTable(blks) = Laid(w)
  BY DEF Blb3BlockTable, Blb3BlockAt
<1> HIDE DEF w
<1>4. Adjacent(w, d, from)
  <2>1. from \in [1 .. d + 1 -> Nat] /\ \A b \in 1 .. d : from[b] <= from[b + 1]
    BY <1>2, SMT DEF Blb3BlockAt
  <2>2. \A b \in 1 .. d : Blb3BlockAt(b) \in Nat /\ from[b] = Blb3BlockAt(b)
                          /\ from[b + 1] - 1 = Blb3BlockAt(b) + 4 - 1
    BY <1>2, SMT DEF Blb3BlockAt
  <2>3. \A b \in 1 .. d : DOMAIN LeAt(Blb3BlockAt(b), 4, BlockEnd(blks, b))
                          = Blb3BlockAt(b) .. Blb3BlockAt(b) + 4 - 1
    BY DEF LeAt
  <2> HIDE DEF from
  <2> QED BY <1>1, <2>1, <2>2, <2>3 DEF Adjacent
<1>5. from[1] = 84 /\ from[d + 1] - 1 = 83 + 4 * d
  BY <1>2, SMT DEF Blb3BlockAt
<1> HIDE DEF from
<1>6. /\ \A i \in 1 .. d : Holds(Laid(w), w[i])
      /\ DOMAIN Laid(w) = from[1] .. from[d + 1] - 1
  BY <1>2, <1>4, AdjacentLaid, Zenon
<1>7. (\A b \in 1 .. d : Memory(w[b])) => Memory(Laid(w))
  BY <1>2, LaidMemory
<1> QED BY <1>1, <1>3, <1>5, <1>6, <1>7

\* Where the names are.
LEMMA Blb3NamePlaces ==
  ASSUME NEW cabs, NEW n, Named(cabs, n), Flagged(cabs, n), n >= 1, NEW blks, Len(blks) \in Nat
  PROVE  /\ \A c \in 1 .. n + 1 : Blb3NameAt(cabs, blks, c) \in Nat
         /\ Blb3NameAt(cabs, blks, 1) = 88 + 4 * Len(blks) + 16 * n + Len(FlagWords(cabs, blks))
         /\ \A c \in 1 .. n :
              Blb3NameAt(cabs, blks, c + 1) = Blb3NameAt(cabs, blks, c) + Len(NameOut(cabs[c]))
         /\ \A i, j \in 1 .. n + 1 : i <= j => Blb3NameAt(cabs, blks, i) <= Blb3NameAt(cabs, blks, j)
         /\ Blb3NameAt(cabs, blks, n + 1) = Blb3Len(cabs, blks)
<1> DEFINE lens == NameLens(cabs)
           F == Len(FlagWords(cabs, blks))
<1>1. n \in Nat /\ Len(cabs) = n
  BY DEF Named, Indexed
<1>2. /\ \A k \in 1 .. n + 1 : Before(lens, k) \in Nat
      /\ Before(lens, 1) = 0
      /\ \A k \in 1 .. n : Before(lens, k + 1) = Before(lens, k) + lens[k]
      /\ \A k, m \in 1 .. n + 1 : k <= m => Before(lens, k) <= Before(lens, m)
  BY NamesOut, BeforeFacts
<1>3. \A c \in 1 .. n : lens[c] = Len(NameOut(cabs[c])) /\ Len(NameOut(cabs[c])) \in Nat
  BY NamesOut
<1>4. F \in Nat
  BY FlagWordsBytes
<1>5. \A c \in 1 .. n + 1 : Blb3NameAt(cabs, blks, c) = 88 + 4 * Len(blks) + 16 * n + F + Before(lens, c)
  BY <1>1 DEF Blb3NameAt
<1> HIDE DEF lens, F
<1>6. \A c \in 1 .. n + 1 : Blb3NameAt(cabs, blks, c) \in Nat
  BY <1>1, <1>2, <1>4, <1>5, SMT
<1>7. Blb3NameAt(cabs, blks, 1) = 88 + 4 * Len(blks) + 16 * n + F
  BY <1>1, <1>2, <1>4, <1>5, SMT
<1>8. ASSUME NEW c \in 1 .. n
      PROVE  Blb3NameAt(cabs, blks, c + 1) = Blb3NameAt(cabs, blks, c) + Len(NameOut(cabs[c]))
  <2>1. c \in 1 .. n + 1 /\ c + 1 \in 1 .. n + 1
    BY <1>1, SMT
  <2>2. /\ Blb3NameAt(cabs, blks, c) = 88 + 4 * Len(blks) + 16 * n + F + Before(lens, c)
        /\ Blb3NameAt(cabs, blks, c + 1) = 88 + 4 * Len(blks) + 16 * n + F + Before(lens, c + 1)
        /\ Before(lens, c + 1) = Before(lens, c) + lens[c] /\ Before(lens, c) \in Nat
        /\ lens[c] = Len(NameOut(cabs[c])) /\ Len(NameOut(cabs[c])) \in Nat
    BY <1>2, <1>3, <1>5, <2>1
  <2> QED BY <1>1, <1>4, <2>2, SMT
<1>9. ASSUME NEW i \in 1 .. n + 1, NEW j \in 1 .. n + 1, i <= j
      PROVE  Blb3NameAt(cabs, blks, i) <= Blb3NameAt(cabs, blks, j)
  <2>1. /\ Blb3NameAt(cabs, blks, i) = 88 + 4 * Len(blks) + 16 * n + F + Before(lens, i)
        /\ Blb3NameAt(cabs, blks, j) = 88 + 4 * Len(blks) + 16 * n + F + Before(lens, j)
        /\ Before(lens, i) <= Before(lens, j) /\ Before(lens, i) \in Nat /\ Before(lens, j) \in Nat
    BY <1>2, <1>5, <1>9
  <2> QED BY <1>1, <1>4, <2>1, SMT
<1>10. Blb3NameAt(cabs, blks, n + 1) = Blb3Len(cabs, blks)
  BY <1>1 DEF Blb3Len
<1> QED BY <1>6, <1>7, <1>8, <1>9, <1>10 DEF F

\* The cab table of blb3 and the names behind it.
LEMMA Blb3CabTableWrites ==
  ASSUME NEW cabs, NEW n, Named(cabs, n), Flagged(cabs, n), n >= 1, NEW blks, Len(blks) \in Nat
  PROVE  LET entry(c) == Blb3Cab(Blb3CabAt(cabs, blks, c), cabs[c], Blb3NameAt(cabs, blks, c))
         IN  /\ DOMAIN Blb3CabTable(cabs, blks)
                = (88 + 4 * Len(blks) .. 87 + 4 * Len(blks) + 16 * n)
                  \cup (Blb3NameAt(cabs, blks, 1) .. Blb3Len(cabs, blks) - 1)
             /\ \A c \in 1 .. n : Holds(Blb3CabTable(cabs, blks), entry(c))
             /\ (\A c \in 1 .. n : Memory(entry(c))) => Memory(Blb3CabTable(cabs, blks))
             /\ \A c \in 1 .. n : Blb3CabFits(Blb3CabAt(cabs, blks, c), cabs[c], Blb3NameAt(cabs, blks, c))
<1> DEFINE entry(c) == Blb3Cab(Blb3CabAt(cabs, blks, c), cabs[c], Blb3NameAt(cabs, blks, c))
           w == [c \in DOMAIN cabs |-> entry(c)]
           d == Len(blks)
           h == [c \in 1 .. n + 1 |-> Blb3CabAt(cabs, blks, c)]
           s == [c \in 1 .. n + 1 |-> Blb3NameAt(cabs, blks, c)]
           l == [c \in 1 .. n |-> Len(NameOut(cabs[c]))]
           F == Len(FlagWords(cabs, blks))
<1>1. /\ \A c \in 1 .. n : w[c] = entry(c)
      /\ Indexed(w, n) /\ n \in Nat /\ d \in Nat /\ F \in Nat
      /\ Blb3CabTable(cabs, blks) = Laid(w)
  <2>1. n \in Nat /\ DOMAIN cabs = 1 .. n
    BY DEF Named, Indexed
  <2> QED BY <2>1, FlagWordsBytes DEF Blb3CabTable, Indexed
<1>2. \A c \in 1 .. n : c \in 1 .. n + 1 /\ c + 1 \in 1 .. n + 1 /\ 1 <= c
  BY <1>1, SMT
<1>3. 1 \in 1 .. n + 1 /\ n + 1 \in 1 .. n + 1
  BY <1>1, SMT
<1>4. /\ s \in [1 .. n + 1 -> Nat]
      /\ s[1] = 88 + 4 * d + 16 * n + F
      /\ s[n + 1] = Blb3Len(cabs, blks)
  BY <1>3, Blb3NamePlaces
<1>5. \A c \in 1 .. n : s[c + 1] = s[c] + l[c]
  BY <1>2, Blb3NamePlaces
<1>6. \A i, j \in 1 .. n + 1 : i <= j => s[i] <= s[j]
  BY Blb3NamePlaces
<1>7. \A c \in 1 .. n : Len(NameOut(cabs[c])) \in Nat /\ l[c] = Len(NameOut(cabs[c]))
  BY NamesOut
<1>8. /\ \A c \in 1 .. n + 1 : h[c] = Blb3CabAt(cabs, blks, c) /\ h[c] = 88 + 4 * d + 16 * (c - 1)
      /\ \A c \in 1 .. n + 1 : s[c] = Blb3NameAt(cabs, blks, c)
  BY DEF Blb3CabAt
<1> HIDE DEF w, s, h, l, d, F
<1>9. /\ h \in [1 .. n + 1 -> Nat] /\ h[1] = 88 + 4 * d /\ h[n + 1] = 88 + 4 * d + 16 * n
      /\ \A c \in 1 .. n : h[c + 1] = h[c] + 16 /\ h[c] + 16 <= h[n + 1]
  <2>1. \A c \in 1 .. n + 1 : h[c] \in Nat
    BY <1>1, <1>8, SMT
  <2>2. h \in [1 .. n + 1 -> Nat]
    BY <2>1 DEF h
  <2>3. h[1] = 88 + 4 * d /\ h[n + 1] = 88 + 4 * d + 16 * n
    BY <1>1, <1>3, <1>8, SMT
  <2>4. \A c \in 1 .. n : h[c + 1] = h[c] + 16 /\ h[c] + 16 <= h[n + 1]
    BY <1>1, <1>2, <1>3, <1>8, SMT
  <2> QED BY <2>2, <2>3, <2>4
<1>10. h[n + 1] <= s[1]
  BY <1>1, <1>4, <1>9, SMT
<1>11. \A c \in 1 .. n : /\ h[c] \in Nat /\ s[c] \in Nat /\ s[c] >= h[c] + 16
                        /\ h[c] <= h[c + 1] /\ s[c] <= s[c + 1]
  <2> TAKE c \in 1 .. n
  <2>1. s[1] <= s[c] /\ s[1] \in Nat /\ s[c] \in Nat /\ h[c] \in Nat /\ h[n + 1] \in Nat
    BY <1>2, <1>3, <1>4, <1>6, <1>9
  <2>2. h[c + 1] = h[c] + 16 /\ h[c] + 16 <= h[n + 1] /\ s[c + 1] = s[c] + l[c] /\ l[c] \in Nat
    BY <1>5, <1>7, <1>9
  <2> QED BY <1>10, <2>1, <2>2, SMT
<1>12. \A c \in 1 .. n : Blb3CabFits(h[c], cabs[c], s[c])
  BY <1>7, <1>11 DEF Blb3CabFits
<1>13. \A c \in 1 .. n : w[c] = Blb3Cab(h[c], cabs[c], s[c])
  BY <1>1, <1>2, <1>8
<1>14. \A c \in 1 .. n : DOMAIN w[c] = (h[c] .. h[c + 1] - 1) \cup (s[c] .. s[c + 1] - 1)
  <2> TAKE c \in 1 .. n
  <2>1. DOMAIN Blb3Cab(h[c], cabs[c], s[c])
          = (h[c] .. h[c] + 15) \cup (s[c] .. s[c] + Len(NameOut(cabs[c])) - 1)
    BY <1>12, Blb3CabWrites
  <2>2. h[c + 1] = h[c] + 16 /\ s[c + 1] = s[c] + Len(NameOut(cabs[c]))
    BY <1>5, <1>7, <1>9
  <2>3. w[c] = Blb3Cab(h[c], cabs[c], s[c])
    BY <1>13
  <2>4. h[c] + 15 = h[c + 1] - 1
    BY <1>11, <2>2, SMT
  <2>5. s[c] + Len(NameOut(cabs[c])) - 1 = s[c + 1] - 1
    BY <1>7, <1>11, <2>2, SMT
  <2> QED BY <2>1, <2>3, <2>4, <2>5
<1>15. Halved(w, n, h, s)
  BY <1>4, <1>9, <1>10, <1>11, <1>14 DEF Halved
<1>16. /\ \A i \in 1 .. n : Holds(Laid(w), w[i])
       /\ DOMAIN Laid(w) = (h[1] .. h[n + 1] - 1) \cup (s[1] .. s[n + 1] - 1)
  BY <1>1, <1>15, HalvedLaid
<1>17. (\A c \in 1 .. n : Memory(w[c])) => Memory(Laid(w))
  BY <1>1, LaidMemory
<1>18. h[n + 1] - 1 = 87 + 4 * d + 16 * n
  BY <1>1, <1>9, SMT
<1>19. DOMAIN Laid(w) = (88 + 4 * Len(blks) .. 87 + 4 * Len(blks) + 16 * n)
                        \cup (Blb3NameAt(cabs, blks, 1) .. Blb3Len(cabs, blks) - 1)
  BY <1>3, <1>4, <1>8, <1>9, <1>16, <1>18 DEF d
<1>20. \A c \in 1 .. n : Blb3CabFits(Blb3CabAt(cabs, blks, c), cabs[c], Blb3NameAt(cabs, blks, c))
  BY <1>2, <1>8, <1>12
<1> QED BY <1>1, <1>16, <1>17, <1>19, <1>20

\* Writes at the places of the fields of blb3's fixed part.
LEMMA FixedLaid ==
  ASSUME NEW w, Indexed(w, 13), DOMAIN w[1] = 0 .. 3, DOMAIN w[2] = 4 .. 7, DOMAIN w[3] = 8 .. 11,
         DOMAIN w[4] = 12 .. 27, DOMAIN w[5] = 28 .. 31, DOMAIN w[6] = 32 .. 35, DOMAIN w[7] = 36 .. 47,
         DOMAIN w[8] = 48 .. 51, DOMAIN w[9] = 52 .. 55, DOMAIN w[10] = 56 .. 59,
         DOMAIN w[11] = 60 .. 67, DOMAIN w[12] = 68 .. 75, DOMAIN w[13] = 76 .. 83
  PROVE  (\A i \in 1 .. 13 : Holds(Laid(w), w[i])) /\ DOMAIN Laid(w) = 0 .. 83
<1> DEFINE from == << 0, 4, 8, 12, 28, 32, 36, 48, 52, 56, 60, 68, 76, 84 >>
<1>n. PICK n : n = 13
  OBVIOUS
<1>3. /\ from \in [1 .. 13 + 1 -> Nat] /\ from[1] = 0 /\ from[2] = 4 /\ from[3] = 8 /\ from[4] = 12
      /\ from[5] = 28 /\ from[6] = 32 /\ from[7] = 36 /\ from[8] = 48 /\ from[9] = 52 /\ from[10] = 56
      /\ from[11] = 60 /\ from[12] = 68 /\ from[13] = 76 /\ from[14] = 84
  BY SMT
<1> HIDE DEF from
<1>i. \A i \in 1 .. 13 : \/ i = 1 \/ i = 2 \/ i = 3 \/ i = 4 \/ i = 5 \/ i = 6 \/ i = 7
                         \/ i = 8 \/ i = 9 \/ i = 10 \/ i = 11 \/ i = 12 \/ i = 13
  BY SMT
<1>10. Adjacent(w, n, from)
  <2> DEFINE P(i) == from[i] <= from[i + 1] /\ DOMAIN w[i] = from[i] .. from[i + 1] - 1
  <2>1. P(1)
    BY <1>3, SMT
  <2>2. P(2)
    BY <1>3, SMT
  <2>3. P(3)
    BY <1>3, SMT
  <2>4. P(4)
    BY <1>3, SMT
  <2>5. P(5)
    BY <1>3, SMT
  <2>6. P(6)
    BY <1>3, SMT
  <2>7. P(7)
    BY <1>3, SMT
  <2>8. P(8)
    BY <1>3, SMT
  <2>9. P(9)
    BY <1>3, SMT
  <2>10. P(10)
    BY <1>3, SMT
  <2>11. P(11)
    BY <1>3, SMT
  <2>12. P(12)
    BY <1>3, SMT
  <2>13. P(13)
    BY <1>3, SMT
  <2> HIDE DEF P
  <2>14. \A i \in 1 .. 13 : P(i)
    BY <1>i, <2>1, <2>2, <2>3, <2>4, <2>5, <2>6, <2>7, <2>8, <2>9, <2>10, <2>11, <2>12, <2>13
  <2> QED BY <1>3, <1>n, <2>14 DEF Adjacent, P
<1>11. (\A i \in 1 .. 13 : Holds(Laid(w), w[i])) /\ DOMAIN Laid(w) = from[1] .. from[14] - 1
  <2>1. n + 1 = 14
    BY <1>n
  <2>2. Indexed(w, n)
    BY <1>n
  <2>3. (\A i \in 1 .. n : Holds(Laid(w), w[i])) /\ DOMAIN Laid(w) = from[1] .. from[n + 1] - 1
    BY <1>10, <2>2, AdjacentLaid
  <2> QED BY <1>n, <2>1, <2>3
<1>12. DOMAIN Laid(w) = 0 .. 83
  BY <1>3, <1>11, SMT
<1> QED BY <1>11, <1>12

InBlb3Fixed(hdr, cabs, blks, d, m) ==
  /\ Agrees(m, BeAt(0, 4, Blb3Magic)) /\ Agrees(m, LeAt(4, 4, Blb3Len(cabs, blks) - 28))
  /\ Agrees(m, LeAt(8, 4, hdr.unk0x8)) /\ Agrees(m, BytesAt(12, hdr.key))
  /\ Agrees(m, LeAt(28, 4, Blb3Len(cabs, blks) + BlockEnd(blks, d)))
  /\ Agrees(m, LeAt(32, 4, blks[d].dec)) /\ Agrees(m, LeAt(36, 12, 0))
  /\ Agrees(m, LeAt(48, 4, Blb3Type)) /\ Agrees(m, LeAt(52, 4, d))
  /\ Agrees(m, LeAt(56, 4, Len(cabs))) /\ Agrees(m, LeAt(60, 8, 24))
  /\ Agrees(m, LeAt(68, 8, 4 * d + 20)) /\ Agrees(m, LeAt(76, 8, FlagOff(cabs, blks)))

SoundBlb3Fixed(hdr, cabs, blks, d) ==
  /\ Memory(BeAt(0, 4, Blb3Magic)) /\ Memory(LeAt(4, 4, Blb3Len(cabs, blks) - 28))
  /\ Memory(LeAt(8, 4, hdr.unk0x8)) /\ Memory(BytesAt(12, hdr.key))
  /\ Memory(LeAt(28, 4, Blb3Len(cabs, blks) + BlockEnd(blks, d)))
  /\ Memory(LeAt(32, 4, blks[d].dec)) /\ Memory(LeAt(36, 12, 0))
  /\ Memory(LeAt(48, 4, Blb3Type)) /\ Memory(LeAt(52, 4, d)) /\ Memory(LeAt(56, 4, Len(cabs)))
  /\ Memory(LeAt(60, 8, 24)) /\ Memory(LeAt(68, 8, 4 * d + 20))
  /\ Memory(LeAt(76, 8, FlagOff(cabs, blks)))

\* The fixed part of a blb3 header.
LEMMA Blb3FixedWrites ==
  ASSUME NEW hdr \in HdrType("blb3"), NEW cabs, NEW blks, NEW d, Indexed(blks, d), Len(blks) = d
  PROVE  /\ DOMAIN Blb3Fixed(hdr, cabs, blks) = 0 .. 83
         /\ \A m : Agrees(m, Blb3Fixed(hdr, cabs, blks)) => InBlb3Fixed(hdr, cabs, blks, d, m)
         /\ SoundBlb3Fixed(hdr, cabs, blks, d) => Memory(Blb3Fixed(hdr, cabs, blks))
<1> DEFINE w == << BeAt(0, 4, Blb3Magic), LeAt(4, 4, Blb3Len(cabs, blks) - 28), LeAt(8, 4, hdr.unk0x8),
                   BytesAt(12, hdr.key), LeAt(28, 4, Blb3Len(cabs, blks) + BlockEnd(blks, d)),
                   LeAt(32, 4, blks[d].dec), LeAt(36, 12, 0), LeAt(48, 4, Blb3Type),
                   LeAt(52, 4, d), LeAt(56, 4, Len(cabs)), LeAt(60, 8, 24),
                   LeAt(68, 8, 4 * d + 20), LeAt(76, 8, FlagOff(cabs, blks)) >>
<1>1. /\ Indexed(w, 13)
      /\ w[1] = BeAt(0, 4, Blb3Magic) /\ w[2] = LeAt(4, 4, Blb3Len(cabs, blks) - 28)
      /\ w[3] = LeAt(8, 4, hdr.unk0x8) /\ w[4] = BytesAt(12, hdr.key)
      /\ w[5] = LeAt(28, 4, Blb3Len(cabs, blks) + BlockEnd(blks, d))
      /\ w[6] = LeAt(32, 4, blks[d].dec) /\ w[7] = LeAt(36, 12, 0)
      /\ w[8] = LeAt(48, 4, Blb3Type) /\ w[9] = LeAt(52, 4, d)
      /\ w[10] = LeAt(56, 4, Len(cabs)) /\ w[11] = LeAt(60, 8, 24)
      /\ w[12] = LeAt(68, 8, 4 * d + 20) /\ w[13] = LeAt(76, 8, FlagOff(cabs, blks))
  BY SMT DEF Indexed
<1>2. Blb3Fixed(hdr, cabs, blks) = Laid(w)
  BY DEF Blb3Fixed
<1> HIDE DEF w
<1>4. Len(hdr.key) = 16
  BY BytesSeq DEF HdrType
<1>5. DOMAIN w[1] = 0 .. 3 /\ DOMAIN w[2] = 4 .. 7 /\ DOMAIN w[3] = 8 .. 11
  BY <1>1, SMT DEF LeAt, BeAt
<1>6. DOMAIN w[4] = 12 .. 27
  BY <1>1, <1>4, SMT DEF BytesAt
<1>7. DOMAIN w[5] = 28 .. 31 /\ DOMAIN w[6] = 32 .. 35 /\ DOMAIN w[7] = 36 .. 47
  BY <1>1, SMT DEF LeAt
<1>8. DOMAIN w[8] = 48 .. 51 /\ DOMAIN w[9] = 52 .. 55 /\ DOMAIN w[10] = 56 .. 59
  BY <1>1, SMT DEF LeAt
<1>9. DOMAIN w[11] = 60 .. 67 /\ DOMAIN w[12] = 68 .. 75 /\ DOMAIN w[13] = 76 .. 83
  BY <1>1, SMT DEF LeAt
<1>i. \A i \in 1 .. 13 : \/ i = 1 \/ i = 2 \/ i = 3 \/ i = 4 \/ i = 5 \/ i = 6 \/ i = 7
                         \/ i = 8 \/ i = 9 \/ i = 10 \/ i = 11 \/ i = 12 \/ i = 13
  BY SMT
<1>11. (\A i \in 1 .. 13 : Holds(Laid(w), w[i])) /\ DOMAIN Laid(w) = 0 .. 83
  BY <1>1, <1>5, <1>6, <1>7, <1>8, <1>9, FixedLaid
<1>13. (\A i \in 1 .. 13 : Memory(w[i])) => Memory(Laid(w))
  BY <1>1, LaidMemory
<1>14. /\ 1 \in 1 .. 13 /\ 2 \in 1 .. 13 /\ 3 \in 1 .. 13 /\ 4 \in 1 .. 13 /\ 5 \in 1 .. 13
       /\ 6 \in 1 .. 13 /\ 7 \in 1 .. 13
        /\ 8 \in 1 .. 13 /\ 9 \in 1 .. 13 /\ 10 \in 1 .. 13 /\ 11 \in 1 .. 13 /\ 12 \in 1 .. 13 /\ 13 \in 1 .. 13
  BY SMT
<1>15. ASSUME NEW m, Agrees(m, Laid(w)) PROVE InBlb3Fixed(hdr, cabs, blks, d, m)
  <2>1. \A i \in 1 .. 13 : Agrees(m, w[i])
    BY <1>11, <1>15, AgreesThrough
  <2>2. /\ Agrees(m, w[1]) /\ Agrees(m, w[2]) /\ Agrees(m, w[3]) /\ Agrees(m, w[4])
        /\ Agrees(m, w[5]) /\ Agrees(m, w[6]) /\ Agrees(m, w[7])
        /\ Agrees(m, w[8]) /\ Agrees(m, w[9]) /\ Agrees(m, w[10]) /\ Agrees(m, w[11]) /\ Agrees(m, w[12]) /\ Agrees(m, w[13])
    BY <1>14, <2>1
  <2> QED BY <1>1, <2>2 DEF InBlb3Fixed
<1>16. ASSUME SoundBlb3Fixed(hdr, cabs, blks, d) PROVE Memory(Laid(w))
  <2>1. /\ Memory(w[1]) /\ Memory(w[2]) /\ Memory(w[3]) /\ Memory(w[4])
        /\ Memory(w[5]) /\ Memory(w[6]) /\ Memory(w[7])
        /\ Memory(w[8]) /\ Memory(w[9]) /\ Memory(w[10]) /\ Memory(w[11]) /\ Memory(w[12]) /\ Memory(w[13])
    BY <1>1, <1>16 DEF SoundBlb3Fixed
  <2>2. \A i \in 1 .. 13 : Memory(w[i])
    BY <1>i, <2>1
  <2> QED BY <1>13, <2>2
<1> QED BY <1>2, <1>11, <1>15, <1>16

\* Writes at the places of the parts of a header of blb3: d blocks, n cabs, F bytes of flags.
InParts(w, d, n, F, L) ==
  /\ Indexed(w, 5) /\ d \in Nat /\ n \in Nat /\ F \in Nat /\ L \in Nat /\ 88 + 4 * d + 16 * n + F <= L
  /\ DOMAIN w[1] = 0 .. 83 /\ DOMAIN w[2] = 84 .. 83 + 4 * d /\ DOMAIN w[3] = 84 + 4 * d .. 87 + 4 * d
  /\ DOMAIN w[4] = 88 + 4 * d + 16 * n .. 87 + 4 * d + 16 * n + F
  /\ DOMAIN w[5] = (88 + 4 * d .. 87 + 4 * d + 16 * n) \cup (88 + 4 * d + 16 * n + F .. L - 1)

\* The five parts of a blb3 header fill it and do not overlap.
LEMMA PartsLaid ==
  ASSUME NEW w, NEW d, NEW n, NEW F, NEW L, InParts(w, d, n, F, L)
  PROVE  (\A i \in 1 .. 5 : Holds(Laid(w), w[i])) /\ DOMAIN Laid(w) = 0 .. L - 1
<1> DEFINE a == 88 + 4 * d
           e == 88 + 4 * d + 16 * n
           lab == [x \in Nat |-> IF x < 84 THEN 1 ELSE IF x < a - 4 THEN 2 ELSE IF x < a THEN 3
                                 ELSE IF x \in e .. e + F - 1 THEN 4 ELSE 5]
<1>i. Indexed(w, 5) /\ d \in Nat /\ n \in Nat /\ F \in Nat /\ L \in Nat
  BY DEF InParts
<1>1. a \in Nat /\ e \in Nat /\ a >= 88 /\ a <= e /\ e + F <= L
  BY SMT DEF InParts
<1>2. /\ DOMAIN w[1] = 0 .. 83 /\ DOMAIN w[2] = 84 .. a - 5 /\ DOMAIN w[3] = a - 4 .. a - 1
      /\ DOMAIN w[4] = e .. e + F - 1 /\ DOMAIN w[5] = (a .. e - 1) \cup (e + F .. L - 1)
  <2>1. /\ 83 + 4 * d = a - 5 /\ 84 + 4 * d = a - 4 /\ 87 + 4 * d = a - 1
        /\ 88 + 4 * d + 16 * n = e /\ 87 + 4 * d + 16 * n + F = e + F - 1
        /\ 87 + 4 * d + 16 * n = e - 1 /\ 88 + 4 * d + 16 * n + F = e + F /\ 88 + 4 * d = a
    BY <1>i, SMT
  <2>2. /\ DOMAIN w[1] = 0 .. 83 /\ DOMAIN w[2] = 84 .. 83 + 4 * d /\ DOMAIN w[3] = 84 + 4 * d .. 87 + 4 * d
        /\ DOMAIN w[4] = 88 + 4 * d + 16 * n .. 87 + 4 * d + 16 * n + F
        /\ DOMAIN w[5] = (88 + 4 * d .. 87 + 4 * d + 16 * n) \cup (88 + 4 * d + 16 * n + F .. L - 1)
    BY DEF InParts
  <2> HIDE DEF a, e
  <2> QED BY <2>1, <2>2
<1> HIDE DEF a, e
<1>3. ASSUME NEW x
      PROVE  /\ x \in DOMAIN w[1] => lab[x] = 1
             /\ x \in DOMAIN w[2] => lab[x] = 2
             /\ x \in DOMAIN w[3] => lab[x] = 3
             /\ x \in DOMAIN w[4] => lab[x] = 4
             /\ x \in DOMAIN w[5] => lab[x] = 5
             /\ x \in 0 .. L - 1 <=> \/ x \in DOMAIN w[1] \/ x \in DOMAIN w[2] \/ x \in DOMAIN w[3]
                                     \/ x \in DOMAIN w[4] \/ x \in DOMAIN w[5]
  <2>1. /\ x \in DOMAIN w[1] <=> x \in 0 .. 83
        /\ x \in DOMAIN w[2] <=> x \in 84 .. a - 5
        /\ x \in DOMAIN w[3] <=> x \in a - 4 .. a - 1
        /\ x \in DOMAIN w[4] <=> x \in e .. e + F - 1
        /\ x \in DOMAIN w[5] <=> x \in a .. e - 1 \/ x \in e + F .. L - 1
    BY <1>2
  <2>2. x \in 0 .. 83 => lab[x] = 1
    BY SMT
  <2>3. x \in 84 .. a - 5 => lab[x] = 2
    BY <1>1, SMT
  <2>4. x \in a - 4 .. a - 1 => lab[x] = 3
    BY <1>1, SMT
  <2>5. x \in e .. e + F - 1 => lab[x] = 4
    BY <1>i, <1>1, SMT
  <2>6. x \in a .. e - 1 \/ x \in e + F .. L - 1 => lab[x] = 5
    BY <1>i, <1>1, SMT
  <2>7. x \in 0 .. L - 1 <=> \/ x \in 0 .. 83 \/ x \in 84 .. a - 5 \/ x \in a - 4 .. a - 1
                             \/ x \in e .. e + F - 1 \/ x \in a .. e - 1 \/ x \in e + F .. L - 1
    BY <1>i, <1>1, SMT
  <2> HIDE DEF lab
  <2> QED BY <2>1, <2>2, <2>3, <2>4, <2>5, <2>6, <2>7
<1>4. \A i \in 1 .. 5 : i = 1 \/ i = 2 \/ i = 3 \/ i = 4 \/ i = 5
  BY SMT
<1>5. 1 \in 1 .. 5 /\ 2 \in 1 .. 5 /\ 3 \in 1 .. 5 /\ 4 \in 1 .. 5 /\ 5 \in 1 .. 5
  BY SMT
<1> HIDE DEF lab
<1>6. \A i \in 1 .. 5 : \A x \in DOMAIN w[i] : lab[x] = i
  <2> TAKE i \in 1 .. 5
  <2> TAKE x \in DOMAIN w[i]
  <2> QED BY <1>3, <1>4
<1>7. Apart(w)
  BY <1>i, <1>6 DEF Apart, Indexed
<1>8. \A x : x \in DOMAIN Laid(w) <=> \E i \in 1 .. 5 : x \in DOMAIN w[i]
  BY <1>i, LaidDomain
<1>10. \A x : x \in DOMAIN Laid(w) <=> x \in 0 .. L - 1
  <2> TAKE x
  <2> QED BY <1>3, <1>4, <1>5, <1>8
<1>11. DOMAIN Laid(w) = 0 .. L - 1
  BY <1>10
<1> QED BY <1>i, <1>7, <1>11, LaidHolds

InBlb3Outer(hdr, cabs, blks, n, d, m) ==
  /\ Agrees(m, Blb3Fixed(hdr, cabs, blks)) /\ Agrees(m, Blb3BlockTable(blks))
  /\ Agrees(m, LeAt(84 + 4 * d, 4, 0))
  /\ Agrees(m, BytesAt(88 + 4 * d + 16 * n, FlagWords(cabs, blks)))
  /\ Agrees(m, Blb3CabTable(cabs, blks))

SoundBlb3Outer(hdr, cabs, blks, n, d) ==
  /\ Memory(Blb3Fixed(hdr, cabs, blks)) /\ Memory(Blb3BlockTable(blks))
  /\ Memory(LeAt(84 + 4 * d, 4, 0))
  /\ Memory(BytesAt(88 + 4 * d + 16 * n, FlagWords(cabs, blks)))
  /\ Memory(Blb3CabTable(cabs, blks))

\* The whole header of blb3.
LEMMA Blb3OuterWrites ==
  ASSUME NEW hdr \in HdrType("blb3"), NEW cabs, NEW n, Named(cabs, n), Flagged(cabs, n), n >= 1,
         NEW blks, NEW d, Indexed(blks, d), Len(blks) = d
  PROVE  /\ DOMAIN Blb3Outer(hdr, cabs, blks) = 0 .. Blb3Len(cabs, blks) - 1
         /\ \A m : Agrees(m, Blb3Outer(hdr, cabs, blks)) => InBlb3Outer(hdr, cabs, blks, n, d, m)
         /\ SoundBlb3Outer(hdr, cabs, blks, n, d) => Memory(Blb3Outer(hdr, cabs, blks))
<1> DEFINE w == << Blb3Fixed(hdr, cabs, blks), Blb3BlockTable(blks), LeAt(84 + 4 * d, 4, 0),
                   BytesAt(88 + 4 * d + 16 * n, FlagWords(cabs, blks)), Blb3CabTable(cabs, blks) >>
           F == Len(FlagWords(cabs, blks))
           L == Blb3Len(cabs, blks)
           N == Blb3NameAt(cabs, blks, 1)
<1>1. d \in Nat /\ n \in Nat /\ Len(cabs) = n /\ Len(blks) \in Nat /\ F \in Nat
  BY FlagWordsBytes DEF Indexed, Named
<1>2. 1 \in 1 .. n + 1 /\ n + 1 \in 1 .. n + 1 /\ 1 <= n + 1
  BY <1>1, SMT
<1>3. L \in Nat /\ N \in Nat /\ N <= L
  <2>1. \A i, j \in 1 .. n + 1 : i <= j => Blb3NameAt(cabs, blks, i) <= Blb3NameAt(cabs, blks, j)
    BY <1>1, Blb3NamePlaces
  <2>2. /\ \A i \in 1 .. n + 1 : Blb3NameAt(cabs, blks, i) \in Nat
        /\ Blb3NameAt(cabs, blks, n + 1) = Blb3Len(cabs, blks)
    BY <1>1, Blb3NamePlaces
  <2> QED BY <1>2, <2>1, <2>2
<1>4. N = 88 + 4 * Len(blks) + 16 * n + F
  BY <1>1, Blb3NamePlaces
<1>5. Blb3Outer(hdr, cabs, blks) = Laid(w)
  BY <1>1 DEF Blb3Outer, Blb3BlockTable, Blb3CabTable, Blb3CabAt
<1>6. DOMAIN Blb3Fixed(hdr, cabs, blks) = 0 .. 83
  BY Blb3FixedWrites
<1>7. DOMAIN Blb3BlockTable(blks) = 84 .. 83 + 4 * d
  BY Blb3BlockTableWrites
<1>8. DOMAIN Blb3CabTable(cabs, blks)
        = (88 + 4 * Len(blks) .. 87 + 4 * Len(blks) + 16 * n) \cup (N .. L - 1)
  BY <1>1, Blb3CabTableWrites
<1>9. DOMAIN LeAt(84 + 4 * d, 4, 0) = 84 + 4 * d .. 84 + 4 * d + 4 - 1
  BY DEF LeAt
<1>10. DOMAIN BytesAt(88 + 4 * d + 16 * n, FlagWords(cabs, blks))
         = 88 + 4 * d + 16 * n .. 88 + 4 * d + 16 * n + F - 1
  BY DEF BytesAt
<1>11. 84 + 4 * d + 4 - 1 = 87 + 4 * d /\ 88 + 4 * d + 16 * n + F - 1 = 87 + 4 * d + 16 * n + F
  <2> HIDE DEF F
  <2> QED BY <1>1, SMT
<1>12. /\ Indexed(w, 5) /\ w[1] = Blb3Fixed(hdr, cabs, blks) /\ w[2] = Blb3BlockTable(blks)
       /\ w[3] = LeAt(84 + 4 * d, 4, 0) /\ w[4] = BytesAt(88 + 4 * d + 16 * n, FlagWords(cabs, blks))
       /\ w[5] = Blb3CabTable(cabs, blks)
  BY SMT DEF Indexed
<1> HIDE DEF w, F, L, N
<1>p. InParts(w, d, n, F, L)
  <2>1. Len(blks) = d /\ N <= L /\ N = 88 + 4 * d + 16 * n + F
    BY <1>3, <1>4
  <2>2. 88 + 4 * d + 16 * n + F <= L
    BY <2>1
  <2>3. DOMAIN w[1] = 0 .. 83 /\ DOMAIN w[2] = 84 .. 83 + 4 * d
    BY <1>6, <1>7, <1>12
  <2>4. DOMAIN w[3] = 84 + 4 * d .. 87 + 4 * d
    BY <1>9, <1>11, <1>12
  <2>5. DOMAIN w[4] = 88 + 4 * d + 16 * n .. 87 + 4 * d + 16 * n + F
    BY <1>10, <1>11, <1>12
  <2>6. DOMAIN w[5] = (88 + 4 * d .. 87 + 4 * d + 16 * n) \cup (88 + 4 * d + 16 * n + F .. L - 1)
    BY <1>8, <1>12, <2>1
  <2> QED BY <1>1, <1>3, <1>12, <2>2, <2>3, <2>4, <2>5, <2>6 DEF InParts
<1>13. (\A i \in 1 .. 5 : Holds(Laid(w), w[i])) /\ DOMAIN Laid(w) = 0 .. L - 1
  BY <1>p, PartsLaid
<1>14. \A i \in 1 .. 5 : i = 1 \/ i = 2 \/ i = 3 \/ i = 4 \/ i = 5
  BY SMT
<1>15. 1 \in 1 .. 5 /\ 2 \in 1 .. 5 /\ 3 \in 1 .. 5 /\ 4 \in 1 .. 5 /\ 5 \in 1 .. 5
  BY SMT
<1>16. (\A i \in 1 .. 5 : Memory(w[i])) => Memory(Laid(w))
  BY <1>12, LaidMemory
<1>17. ASSUME SoundBlb3Outer(hdr, cabs, blks, n, d) PROVE Memory(Laid(w))
  <2>1. Memory(w[1]) /\ Memory(w[2]) /\ Memory(w[3]) /\ Memory(w[4]) /\ Memory(w[5])
    BY <1>12, <1>17 DEF SoundBlb3Outer
  <2> QED BY <1>14, <1>16, <2>1
<1>18. ASSUME NEW m, Agrees(m, Laid(w)) PROVE InBlb3Outer(hdr, cabs, blks, n, d, m)
  <2>1. \A i \in 1 .. 5 : Agrees(m, w[i])
    BY <1>13, <1>18, AgreesThrough
  <2>2. Agrees(m, w[1]) /\ Agrees(m, w[2]) /\ Agrees(m, w[3]) /\ Agrees(m, w[4]) /\ Agrees(m, w[5])
    BY <1>15, <2>1
  <2> QED BY <1>12, <2>2 DEF InBlb3Outer
<1> QED BY <1>5, <1>13, <1>17, <1>18 DEF L

-----------------------------------------------------------------------------
(* Names.                                                                  *)

\* A name that has its end.
Names == {name \in Seq(Byte \ {0}) : Len(name) <= 255}

IsEnd(m, at, k) == (k = NameLimit \/ Get(m, at + k) = 0) /\ \A j \in 0 .. k - 1 : Get(m, at + j) # 0

(* strlen stops at the first zero, or where it stops looking.              *)
LEMMA StrlenEnds ==
  ASSUME NEW m, NEW at
  PROVE  Strlen(m, at) \in 0 .. NameLimit /\ IsEnd(m, at, Strlen(m, at))
<1> DEFINE S == {k \in 0 .. NameLimit : \A j \in 0 .. k - 1 : Get(m, at + j) # 0}
<1>1. NameLimit \in Nat
  BY SMT DEF NameLimit
<1>2. SUFFICES ASSUME \A k \in 0 .. NameLimit : ~IsEnd(m, at, k) PROVE FALSE
  BY DEF Strlen, IsEnd
<1>3. 0 \in S
  BY <1>1, SMT
<1>4. ASSUME NEW k \in 0 .. NameLimit - 1, k \in S PROVE k + 1 \in S
  <2>1. k \in 0 .. NameLimit /\ k # NameLimit /\ k + 1 \in 0 .. NameLimit
        /\ \A j \in 0 .. (k + 1) - 1 : j \in 0 .. k - 1 \/ j = k
    BY <1>1, SMT
  <2>2. \A j \in 0 .. k - 1 : Get(m, at + j) # 0
    BY <1>4
  <2>3. Get(m, at + k) # 0
    BY <1>2, <2>1, <2>2 DEF IsEnd
  <2> QED BY <2>1, <2>2, <2>3
<1>5. 0 .. NameLimit \subseteq S
  <2> HIDE DEF S
  <2> QED BY <1>1, <1>3, <1>4, UpTo
<1>6. NameLimit \in 0 .. NameLimit
  BY <1>1
<1>7. IsEnd(m, at, NameLimit)
  BY <1>5, <1>6 DEF IsEnd
<1> QED BY <1>2, <1>6, <1>7

\* strlen stops at the first 0.
LEMMA StrlenIs ==
  ASSUME NEW m, NEW at, NEW k \in 0 .. NameLimit, IsEnd(m, at, k)
  PROVE  Strlen(m, at) = k
<1> DEFINE s == Strlen(m, at)
<1>1. s \in 0 .. NameLimit /\ IsEnd(m, at, s) /\ NameLimit \in Nat
  BY StrlenEnds, SMT DEF NameLimit
<1> HIDE DEF s
<1>2. ASSUME s < k PROVE FALSE
  <2>1. s \in 0 .. k - 1 /\ s # NameLimit
    BY <1>1, <1>2, SMT
  <2> QED BY <1>1, <2>1 DEF IsEnd
<1>3. ASSUME k < s PROVE FALSE
  <2>1. k \in 0 .. s - 1 /\ k # NameLimit
    BY <1>1, <1>3, SMT
  <2> QED BY <1>1, <2>1 DEF IsEnd
<1>4. s = k
  BY <1>1, <1>2, <1>3, SMT
<1> QED BY <1>4 DEF s

\* Min of two numbers.
LEMMA MinOfTwo ==
  ASSUME NEW a \in Int, NEW b \in Int
  PROVE  Min({a, b}) = IF a <= b THEN a ELSE b
<1>1. \E x \in {a, b} : \A y \in {a, b} : x <= y
  BY SMT
<1>2. Min({a, b}) \in {a, b} /\ \A y \in {a, b} : Min({a, b}) <= y
  BY <1>1 DEF Min
<1>3. \A x \in {a, b} : (\A y \in {a, b} : x <= y) => x = IF a <= b THEN a ELSE b
  BY SMT
<1> QED BY <1>2, <1>3

\* What memcpy reads, byte by byte.
LEMMA ReadIs ==
  ASSUME NEW m, NEW at, NEW n \in Nat
  PROVE  /\ Len(Read(m, at, n)) = n /\ DOMAIN Read(m, at, n) = 1 .. n
         /\ \A k \in 1 .. n : Read(m, at, n)[k] = Get(m, at + (k - 1))
BY SMT DEF Read

(* A name that is written with the zero after it is read again.            *)
LEMMA NameReads ==
  ASSUME NEW m, NEW at \in Nat, NEW name \in Names, Agrees(m, BytesAt(at, name \o << 0 >>))
  PROVE  Strlen(m, at) = Len(name) /\ Name(m, at) = name
<1> DEFINE out == name \o <<0>>
           n == Len(name)
<1>1. name \in Seq(Byte) /\ n \in Nat /\ n <= 255 /\ \A k \in 1 .. n : name[k] # 0
  BY DEF Names
<1>2. 0 \in Byte
  BY SMT DEF Byte
<1>3. out \in Seq(Byte) /\ Len(out) = n + 1 /\ out[n + 1] = 0 /\ \A k \in 1 .. n : out[k] = name[k]
  BY <1>1, <1>2, SMT
<1>4. \A k \in 1 .. n + 1 : Get(m, at + k - 1) = out[k]
  <2>1. Agrees(m, BytesAt(at, out))
    OBVIOUS
  <2> HIDE DEF out
  <2>2. out \in Seq(Byte)
    BY <1>3
  <2>3. \A k \in 1 .. Len(out) : Get(m, at + k - 1) = out[k]
    BY <2>1, <2>2, ReadBytes
  <2> QED BY <1>3, <2>3
<1> HIDE DEF out, n
<1>5. \A j \in 0 .. n - 1 : Get(m, at + j) = name[j + 1] /\ j + 1 \in 1 .. n
  <2> TAKE j \in 0 .. n - 1
  <2>1. j + 1 \in 1 .. n + 1 /\ j + 1 \in 1 .. n /\ at + (j + 1) - 1 = at + j
    BY <1>1, SMT
  <2>2. Get(m, at + (j + 1) - 1) = out[j + 1]
    BY <1>4, <2>1
  <2> QED BY <1>3, <2>1, <2>2
<1>6. Get(m, at + n) = 0
  <2>1. n + 1 \in 1 .. n + 1 /\ at + (n + 1) - 1 = at + n
    BY <1>1, SMT
  <2>2. Get(m, at + (n + 1) - 1) = out[n + 1]
    BY <1>4, <2>1
  <2> QED BY <1>3, <2>1, <2>2
<1>7. n \in 0 .. NameLimit
  BY <1>1, SMT DEF NameLimit
<1>8. \A j \in 0 .. n - 1 : Get(m, at + j) # 0
  BY <1>1, <1>5
<1>9. Strlen(m, at) = n
  <2>1. IsEnd(m, at, n)
    BY <1>6, <1>8 DEF IsEnd
  <2> QED BY <1>7, <2>1, StrlenIs
<1>10. Min({n, 256}) = n
  BY <1>1, MinOfTwo, SMT
<1>11. Name(m, at) = Read(m, at, n)
  BY <1>9, <1>10 DEF Name
<1>12. \A k \in 1 .. n : k - 1 \in 0 .. n - 1 /\ (k - 1) + 1 = k
  BY <1>1, SMT
<1>13. \A k \in 1 .. n : Get(m, at + (k - 1)) = name[k]
  BY <1>5, <1>12
<1>14. Read(m, at, n) = [k \in 1 .. n |-> name[k]]
  <2>1. \A k \in 1 .. n : at + k - 1 = at + (k - 1)
    OBVIOUS
  <2> QED BY <1>13, <2>1 DEF Read
<1>15. name = [k \in 1 .. n |-> name[k]]
  BY <1>1 DEF n
<1> QED BY <1>9, <1>11, <1>14, <1>15 DEF n

(* A name that is found with fewer than 256 characters has its end.        *)
LEMMA NameFound ==
  ASSUME NEW m, NEW at, \A x : Get(m, x) \in Byte, Len(Name(m, at)) <= 255
  PROVE  Name(m, at) \in Names
<1> DEFINE s == Strlen(m, at)
<1>1. s \in 0 .. NameLimit /\ IsEnd(m, at, s)
  BY StrlenEnds
<1>2. s \in Nat /\ s \in Int
  <2> HIDE DEF s
  <2>1. \A k \in 0 .. NameLimit : k \in Nat /\ k \in Int
    BY SMT DEF NameLimit
  <2> QED BY <1>1, <2>1
<1> DEFINE l == Min({s, 256})
<1> HIDE DEF s
<1>3. l \in Nat /\ l <= s
  BY <1>2, MinOfTwo, SMT
<1>4. Name(m, at) = Read(m, at, l)
  BY DEF Name, s
<1> HIDE DEF l
<1>5. /\ Len(Read(m, at, l)) = l /\ DOMAIN Read(m, at, l) = 1 .. l
      /\ \A k \in 1 .. l : Read(m, at, l)[k] = Get(m, at + (k - 1))
  BY <1>3, ReadIs
<1>6. \A k \in 1 .. l : k - 1 \in 0 .. s - 1
  BY <1>2, <1>3, SMT
<1>7. \A k \in 1 .. l : Get(m, at + (k - 1)) \in Byte \ {0}
  BY <1>1, <1>6 DEF IsEnd
<1>8. Read(m, at, l) \in [1 .. l -> Byte \ {0}]
  <2>1. Read(m, at, l) = [k \in 1 .. l |-> Get(m, at + k - 1)]
    BY DEF Read
  <2>2. \A k \in 1 .. l : at + k - 1 = at + (k - 1)
    OBVIOUS
  <2> QED BY <1>7, <2>1, <2>2
<1>9. Read(m, at, l) \in Seq(Byte \ {0})
  BY <1>3, <1>8, BytesSeq
<1> QED BY <1>4, <1>9 DEF Names

\* What pack_encr and pack_blb3 write of a name that has its end.
LEMMA NameOutEnds ==
  ASSUME NEW cab, cab.meta.name \in Names
  PROVE  NameOut(cab) = cab.meta.name \o <<0>> /\ Len(NameOut(cab)) = Len(cab.meta.name) + 1
<1>1. cab.meta.name \in Seq(Byte \ {0}) /\ Len(cab.meta.name) < 256
  BY SMT DEF Names
<1>2. NameOut(cab) = cab.meta.name \o <<0>>
  BY <1>1 DEF NameOut
<1> QED BY <1>1, <1>2

-----------------------------------------------------------------------------
(* What is written into the header of mhy0 and mhy1 is read again, and what *)
(* was read there, written again, is what is there.                        *)

\* Agreeing with one written byte.
LEMMA GetOne ==
  ASSUME NEW m, NEW at \in Nat, NEW b
  PROVE  Agrees(m, BytesAt(at, <<b>>)) <=> Get(m, at) = b
<1>1. DOMAIN BytesAt(at, <<b>>) = {at} /\ BytesAt(at, <<b>>)[at] = b
  BY SMT DEF BytesAt
<1> QED BY <1>1 DEF Agrees

\* Agreeing with two.
LEMMA GetTwo ==
  ASSUME NEW m, NEW at \in Nat, NEW b, NEW e
  PROVE  Agrees(m, BytesAt(at, <<b, e>>)) <=> Get(m, at) = b /\ Get(m, at + 1) = e
<1>1. DOMAIN BytesAt(at, <<b, e>>) = {at, at + 1}
  BY SMT DEF BytesAt
<1>2. BytesAt(at, <<b, e>>)[at] = b /\ BytesAt(at, <<b, e>>)[at + 1] = e
  BY SMT DEF BytesAt
<1> QED BY <1>1, <1>2 DEF Agrees

\* Five bytes one by one.
LEMMA FiveBytes ==
  ASSUME NEW s \in [1 .. 5 -> Byte]
  PROVE  /\ s = << s[1], s[2], s[3], s[4], s[5] >>
         /\ s[1] \in Byte /\ s[2] \in Byte /\ s[3] \in Byte /\ s[4] \in Byte /\ s[5] \in Byte
BY SMT

\* A tuple of five bytes is a function on 1 .. 5.
LEMMA FiveBytesSeq ==
  ASSUME NEW a \in Byte, NEW b \in Byte, NEW c \in Byte, NEW d \in Byte, NEW e \in Byte
  PROVE  /\ << a, b, c, d, e >> \in [1 .. 5 -> Byte]
         /\ << a, b, c, d, e >>[1] = a /\ << a, b, c, d, e >>[2] = b /\ << a, b, c, d, e >>[3] = c
         /\ << a, b, c, d, e >>[4] = d /\ << a, b, c, d, e >>[5] = e
BY SMT

\* A name of 260 bytes fills its field.
LEMMA MhyNames ==
  ASSUME NEW cab, cab.meta.name \in [1 .. 260 -> Byte]
  PROVE  FullName(cab) /\ cab.meta.name \in Seq(Byte) /\ Len(cab.meta.name) = 260
<1>1. PICK n \in Nat : n = 260
  BY SMT
<1>2. cab.meta.name \in [1 .. n -> Byte]
  BY <1>1
<1>3. cab.meta.name \in Seq(Byte) /\ Len(cab.meta.name) = n
  BY <1>2, BytesSeq
<1> QED BY <1>1, <1>3, SMT DEF FullName

\* An mhy cab entry is read as it was written.
LEMMA MhyCabReads ==
  ASSUME NEW m, NEW at \in Nat, NEW cab \in MhyCabType, Agrees(m, MhyCab(at, cab))
  PROVE  MhyReadCab(m, at) = cab
<1> DEFINE meta == cab.meta
           extra == cab.meta.extra
<1>1. /\ meta.name \in [1 .. 260 -> Byte] /\ extra \in [1 .. 5 -> Byte]
      /\ cab.blk_off \in Small /\ cab.blk_sz \in Small
      /\ cab = [meta |-> cab.meta, blk_off |-> cab.blk_off, blk_sz |-> cab.blk_sz]
      /\ meta = [name |-> meta.name, flag |-> meta.flag, extra |-> extra]
  BY DEF MhyCabType, MhyMeta
<1>2. FullName(cab) /\ meta.name \in Seq(Byte) /\ Len(meta.name) = 260
  BY <1>1, MhyNames
<1>3. /\ Agrees(m, BytesAt(at, cab.meta.name)) /\ Agrees(m, BytesAt(at + 261, <<cab.meta.flag>>))
      /\ Agrees(m, shuffleInt(at + 262, cab.blk_off)) /\ Agrees(m, shuffleUint(at + 268, cab.blk_sz))
      /\ Agrees(m, BytesAt(at + 263, <<extra[1]>>)) /\ Agrees(m, BytesAt(at + 265, <<extra[2]>>))
      /\ Agrees(m, BytesAt(at + 268, <<extra[3]>>))
      /\ Agrees(m, BytesAt(at + 272, <<extra[4], extra[5]>>))
  <2>1. InMhyCab(at, cab, m)
    BY <1>2, MhyCabWrites
  <2> QED BY <2>1 DEF InMhyCab
<1>4. /\ at + 261 \in Nat /\ at + 262 \in Nat /\ at + 263 \in Nat /\ at + 265 \in Nat
      /\ at + 268 \in Nat /\ at + 272 \in Nat /\ (at + 272) + 1 = at + 273
  BY SMT
<1>5. cab.blk_off \in Int32 /\ cab.blk_sz \in Int32
  BY <1>1, SmallNumbers
<1>6. Read(m, at, 260) = meta.name
  <2>1. Read(m, at, Len(meta.name)) = meta.name
    <3>1. Agrees(m, BytesAt(at, cab.meta.name))
      BY <1>3
    <3>2. meta.name \in Seq(Byte)
      BY <1>2
    <3> QED BY <3>1, <3>2, ReadBytes
  <2> QED BY <1>2, <2>1
<1>7. unshuffleInt(m, at + 262) = cab.blk_off /\ unshuffleUint(m, at + 268) = cab.blk_sz
  BY <1>3, <1>4, <1>5, ReadShuffled
<1>8. /\ Get(m, at + 261) = meta.flag /\ Get(m, at + 263) = extra[1] /\ Get(m, at + 265) = extra[2]
      /\ Get(m, at + 268) = extra[3]
  BY <1>3, <1>4, GetOne, GetTwo, SMT
<1>9. Get(m, at + 272) = extra[4] /\ Get(m, at + 273) = extra[5]
  <2>1. \A a \in Nat : \A b, e : Agrees(m, BytesAt(a, <<b, e>>)) => Get(m, a) = b /\ Get(m, a + 1) = e
    BY GetTwo
  <2>2. Agrees(m, BytesAt(at + 272, <<extra[4], extra[5]>>))
    BY <1>3
  <2> QED BY <1>4, <2>1, <2>2, SMT
<1>10. extra = << extra[1], extra[2], extra[3], extra[4], extra[5] >>
  BY <1>1, FiveBytes
<1>11. MhyReadCab(m, at)
         = [meta |-> [name |-> Read(m, at, 260), flag |-> Get(m, at + 261),
                      extra |-> << Get(m, at + 263), Get(m, at + 265), Get(m, at + 268),
                                   Get(m, at + 272), Get(m, at + 273) >>],
            blk_off |-> unshuffleInt(m, at + 262), blk_sz |-> unshuffleUint(m, at + 268)]
  BY DEF MhyReadCab
<1> HIDE DEF extra, meta
<1> QED BY <1>1, <1>6, <1>7, <1>8, <1>9, <1>10, <1>11 DEF meta

\* Any bytes there are read as a cab.
LEMMA MhyCabAgain ==
  ASSUME NEW m, NEW at \in Nat, \A x : Get(m, x) \in Byte
  PROVE  /\ MhyReadCab(m, at).meta \in MhyMeta
         /\ MhyReadCab(m, at).blk_off \in Int32 /\ MhyReadCab(m, at).blk_sz \in Int32
         /\ Agrees(m, MhyCab(at, MhyReadCab(m, at)))
<1> DEFINE cab == MhyReadCab(m, at)
           extra == << Get(m, at + 263), Get(m, at + 265), Get(m, at + 268),
                       Get(m, at + 272), Get(m, at + 273) >>
<1>1. /\ cab.meta = [name |-> Read(m, at, 260), flag |-> Get(m, at + 261), extra |-> extra]
      /\ cab.meta.name = Read(m, at, 260) /\ cab.meta.flag = Get(m, at + 261) /\ cab.meta.extra = extra
      /\ cab.blk_off = unshuffleInt(m, at + 262) /\ cab.blk_sz = unshuffleUint(m, at + 268)
  BY DEF MhyReadCab
<1>2. /\ at + 261 \in Nat /\ at + 262 \in Nat /\ at + 263 \in Nat /\ at + 265 \in Nat
      /\ at + 268 \in Nat /\ at + 272 \in Nat /\ (at + 272) + 1 = at + 273
  BY SMT
<1>3. /\ extra \in [1 .. 5 -> Byte]
      /\ extra[1] = Get(m, at + 263) /\ extra[2] = Get(m, at + 265) /\ extra[3] = Get(m, at + 268)
      /\ extra[4] = Get(m, at + 272) /\ extra[5] = Get(m, at + 273)
  BY FiveBytesSeq
<1>4. Read(m, at, 260) \in [1 .. 260 -> Byte]
  BY DEF Read
<1>5. /\ unshuffleInt(m, at + 262) \in Int32
      /\ Agrees(m, shuffleInt(at + 262, unshuffleInt(m, at + 262)))
  BY <1>2, Rewrite
<1>6. /\ unshuffleUint(m, at + 268) \in Int32
      /\ Agrees(m, shuffleUint(at + 268, unshuffleUint(m, at + 268)))
  BY <1>2, Rewrite
<1>7. Agrees(m, BytesAt(at, Read(m, at, 260)))
  <2>1. 260 \in Nat
    BY SMT
  <2> QED BY <2>1, Rewrite
<1> HIDE DEF cab, extra
<1>8. FullName(cab)
  BY <1>1, <1>4, MhyNames
<1>9. /\ Agrees(m, BytesAt(at, cab.meta.name)) /\ Agrees(m, BytesAt(at + 261, <<cab.meta.flag>>))
      /\ Agrees(m, shuffleInt(at + 262, cab.blk_off)) /\ Agrees(m, shuffleUint(at + 268, cab.blk_sz))
  BY <1>1, <1>2, <1>5, <1>6, <1>7, GetOne, SMT
<1>10. /\ Agrees(m, BytesAt(at + 263, <<cab.meta.extra[1]>>))
       /\ Agrees(m, BytesAt(at + 265, <<cab.meta.extra[2]>>))
       /\ Agrees(m, BytesAt(at + 268, <<cab.meta.extra[3]>>))
  BY <1>1, <1>2, <1>3, GetOne, GetTwo, SMT
<1>11. Agrees(m, BytesAt(at + 272, <<cab.meta.extra[4], cab.meta.extra[5]>>))
  BY <1>1, <1>2, <1>3, GetOne, GetTwo, SMT
<1>12. Agrees(m, MhyCab(at, cab))
  <2>1. InMhyCab(at, cab, m)
    BY <1>9, <1>10, <1>11 DEF InMhyCab
  <2> QED BY <1>8, <2>1, MhyCabWrites
<1>13. cab.meta \in MhyMeta
  BY <1>1, <1>3, <1>4 DEF MhyMeta
<1> QED BY <1>1, <1>5, <1>6, <1>12, <1>13 DEF cab

\* So is an mhy block entry, with the five bytes beside its numbers.
LEMMA MhyBlockReads ==
  ASSUME NEW m, NEW at \in Nat, NEW blk \in BlkType, NEW extra \in [1 .. 5 -> Byte],
         Agrees(m, MhyBlock(at, blk, extra))
  PROVE  MhyReadBlock(m, at) = blk /\ MhyReadExtra(m, at) = extra
<1>1. blk.cmp \in Int32 /\ blk.dec \in Int32 /\ blk = [cmp |-> blk.cmp, dec |-> blk.dec]
  BY SmallNumbers DEF BlkType
<1>2. /\ Agrees(m, shuffleInt(at, blk.cmp)) /\ Agrees(m, shuffleUint(at + 6, blk.dec))
      /\ Agrees(m, BytesAt(at + 1, <<extra[1]>>)) /\ Agrees(m, BytesAt(at + 3, <<extra[2]>>))
      /\ Agrees(m, BytesAt(at + 6, <<extra[3]>>)) /\ Agrees(m, BytesAt(at + 10, <<extra[4], extra[5]>>))
  <2>1. InMhyBlock(at, blk, extra, m)
    BY MhyBlockWrites
  <2> QED BY <2>1 DEF InMhyBlock
<1>3. at + 1 \in Nat /\ at + 3 \in Nat /\ at + 6 \in Nat /\ at + 10 \in Nat /\ (at + 10) + 1 = at + 11
  BY SMT
<1>4. unshuffleInt(m, at) = blk.cmp /\ unshuffleUint(m, at + 6) = blk.dec
  BY <1>1, <1>2, <1>3, ReadShuffled
<1>5. /\ Get(m, at + 1) = extra[1] /\ Get(m, at + 3) = extra[2] /\ Get(m, at + 6) = extra[3]
      /\ Get(m, at + 10) = extra[4] /\ Get(m, at + 11) = extra[5]
  BY <1>2, <1>3, GetOne, GetTwo, SMT
<1>6. extra = << extra[1], extra[2], extra[3], extra[4], extra[5] >>
  BY FiveBytes
<1>7. MhyReadBlock(m, at) = blk
  BY <1>1, <1>4 DEF MhyReadBlock
<1>8. MhyReadExtra(m, at) = extra
  BY <1>5, <1>6 DEF MhyReadExtra
<1> QED BY <1>7, <1>8

\* And one that is read is written again as it was, whatever its bytes.
LEMMA MhyBlockAgain ==
  ASSUME NEW m, NEW at \in Nat, \A x : Get(m, x) \in Byte
  PROVE  /\ MhyReadExtra(m, at) \in [1 .. 5 -> Byte]
         /\ Agrees(m, MhyBlock(at, MhyReadBlock(m, at), MhyReadExtra(m, at)))
<1> DEFINE blk == MhyReadBlock(m, at)
           extra == MhyReadExtra(m, at)
<1>1. blk.cmp = unshuffleInt(m, at) /\ blk.dec = unshuffleUint(m, at + 6)
  BY DEF MhyReadBlock
<1>2. at + 1 \in Nat /\ at + 3 \in Nat /\ at + 6 \in Nat /\ at + 10 \in Nat /\ (at + 10) + 1 = at + 11
  BY SMT
<1>3. /\ extra \in [1 .. 5 -> Byte]
      /\ extra[1] = Get(m, at + 1) /\ extra[2] = Get(m, at + 3) /\ extra[3] = Get(m, at + 6)
      /\ extra[4] = Get(m, at + 10) /\ extra[5] = Get(m, at + 11)
  BY FiveBytesSeq DEF MhyReadExtra
<1> HIDE DEF blk, extra
<1>4. Agrees(m, shuffleInt(at, blk.cmp)) /\ Agrees(m, shuffleUint(at + 6, blk.dec))
  BY <1>1, <1>2, Rewrite
<1>5. /\ Agrees(m, BytesAt(at + 1, <<extra[1]>>)) /\ Agrees(m, BytesAt(at + 3, <<extra[2]>>))
      /\ Agrees(m, BytesAt(at + 6, <<extra[3]>>)) /\ Agrees(m, BytesAt(at + 10, <<extra[4], extra[5]>>))
  BY <1>2, <1>3, GetOne, GetTwo, SMT
<1>6. Agrees(m, MhyBlock(at, blk, extra))
  <2>1. InMhyBlock(at, blk, extra, m)
    BY <1>4, <1>5 DEF InMhyBlock
  <2> QED BY <2>1, MhyBlockWrites
<1> QED BY <1>3, <1>6 DEF blk, extra

-----------------------------------------------------------------------------
(* The compressed header of mhy0 and mhy1 as a whole.                       *)

\* What a table of n entries is, for the lemmas about tables.
LEMMA Tables ==
  ASSUME NEW n \in Nat, NEW S, NEW w \in [1 .. n -> S]
  PROVE  /\ Indexed(w, n) /\ Len(w) = n /\ w \in Seq(S) /\ DOMAIN w = 1 .. n
         /\ w = [i \in 1 .. n |-> w[i]] /\ \A i \in 1 .. n : w[i] \in S
<1>1. w \in Seq(S) /\ Len(w) = n
  BY BytesSeq
<1>2. DOMAIN w = 1 .. n /\ w = [i \in 1 .. n |-> w[i]] /\ \A i \in 1 .. n : w[i] \in S
  OBVIOUS
<1> QED BY <1>1, <1>2 DEF Indexed

\* A function on 1 .. 4 is the tuple of its values.
LEMMA FourBytes ==
  ASSUME NEW s \in [1 .. 4 -> Byte]
  PROVE  /\ s = << s[1], s[2], s[3], s[4] >>
         /\ s[1] \in Byte /\ s[2] \in Byte /\ s[3] \in Byte /\ s[4] \in Byte
BY SMT

\* The name of an mhy cab fills its field.
LEMMA MhyMetaFull ==
  ASSUME NEW cab, cab.meta \in MhyMeta
  PROVE  FullName(cab)
BY MhyNames DEF MhyMeta

Counts(n, d) == n \in 1 .. 256 /\ d \in 1 .. 16384

\* The counts are small enough to be stored.
LEMMA CountsSmall ==
  ASSUME NEW n, NEW d, Counts(n, d)
  PROVE  /\ n \in Nat /\ d \in Nat /\ n \in Int32 /\ d \in Int32 /\ n >= 1 /\ d >= 1
         /\ n <= 256 /\ d <= 16384
BY SMT DEF Counts, Int32

MhyPlaced(n) ==
  /\ \A c \in 1 .. n : MhyCabAt(c) \in Nat
  /\ MhyCntAt(n) \in Nat /\ MhyCntAt(n) + 1 \in Nat /\ MhyCntAt(n) + 3 \in Nat
  /\ \A b \in Nat : b >= 1 => MhyBlockAt(n, b) \in Nat

\* Where the parts of an mhy inner header start (MhyPlaced).
LEMMA MhyPlaces ==
  ASSUME NEW n \in Nat
  PROVE  MhyPlaced(n)
BY SMT DEF MhyCabAt, MhyCntAt, MhyBlockAt, MhyPlaced

MhyGiven(cabs, blks, keys, n, d) ==
  /\ Counts(n, d) /\ cabs \in [1 .. n -> MhyCabType] /\ blks \in [1 .. d -> BlkType]
  /\ keys \in [1 .. d -> KeyType]

MhyWritten(m, cabs, blks, beside, keys) ==
  beside \in [1 .. 4 -> Byte] /\ Agrees(m, MhyInner(cabs, blks, beside, keys))

(* What the packer put there is what is read.                              *)
LEMMA MhyInnerReads ==
  ASSUME NEW cabs, NEW blks, NEW keys, NEW n, NEW d, MhyGiven(cabs, blks, keys, n, d),
         NEW beside, NEW m, MhyWritten(m, cabs, blks, beside, keys)
  PROVE  /\ unshuffleInt(m, 0) = n /\ unshuffleInt(m, MhyCntAt(n)) = d /\ MhyBeside(m, n) = beside
         /\ \A c \in 1 .. n : MhyReadCab(m, MhyCabAt(c)) = cabs[c]
         /\ \A b \in 1 .. d : /\ MhyReadBlock(m, MhyBlockAt(n, b)) = blks[b]
                              /\ MhyReadExtra(m, MhyBlockAt(n, b)) = keys[b].extra
<1>0. /\ Counts(n, d) /\ cabs \in [1 .. n -> MhyCabType] /\ blks \in [1 .. d -> BlkType]
      /\ keys \in [1 .. d -> KeyType] /\ beside \in [1 .. 4 -> Byte]
      /\ Agrees(m, MhyInner(cabs, blks, beside, keys))
  BY DEF MhyGiven, MhyWritten
<1>1. /\ n \in Nat /\ d \in Nat /\ n \in Int32 /\ d \in Int32 /\ MhyPlaced(n)
      /\ \A b \in 1 .. d : b \in Nat /\ b >= 1
  BY <1>0, CountsSmall, MhyPlaces
<1>2. /\ Indexed(cabs, n) /\ Len(cabs) = n /\ Indexed(blks, d) /\ Len(blks) = d
      /\ \A c \in 1 .. n : cabs[c] \in MhyCabType
      /\ \A b \in 1 .. d : blks[b] \in BlkType /\ keys[b] \in KeyType
  BY <1>0, <1>1, Tables
<1>3. ASSUME NEW c \in 1 .. n PROVE FullName(cabs[c])
  <2>1. cabs[c].meta \in MhyMeta
    BY <1>2 DEF MhyCabType
  <2> QED BY <2>1, MhyMetaFull
<1>4. InMhyInner(cabs, blks, beside, keys, n, d, m)
  BY <1>0, <1>2, <1>3, MhyInnerWrites
<1>5. unshuffleInt(m, 0) = n
  <2>1. Agrees(m, shuffleInt(0, n)) /\ 0 \in Nat
    BY <1>4 DEF InMhyInner
  <2> QED BY <1>1, <2>1, ReadShuffled
<1>6. unshuffleInt(m, MhyCntAt(n)) = d
  <2>1. Agrees(m, shuffleInt(MhyCntAt(n), d))
    BY <1>4 DEF InMhyInner
  <2> QED BY <1>1, <2>1, ReadShuffled DEF MhyPlaced
<1>7. MhyBeside(m, n) = beside
  <2>1. Agrees(m, BytesAt(1, <<beside[1]>>)) /\ Agrees(m, BytesAt(3, <<beside[2]>>))
    BY <1>4 DEF InMhyInner
  <2>2. /\ Agrees(m, BytesAt(MhyCntAt(n) + 1, <<beside[3]>>))
        /\ Agrees(m, BytesAt(MhyCntAt(n) + 3, <<beside[4]>>))
    BY <1>4 DEF InMhyInner
  <2>3. 1 \in Nat /\ 3 \in Nat
    OBVIOUS
  <2>4. Get(m, 1) = beside[1] /\ Get(m, 3) = beside[2]
    BY <2>1, <2>3, GetOne
  <2>5. Get(m, MhyCntAt(n) + 1) = beside[3] /\ Get(m, MhyCntAt(n) + 3) = beside[4]
    BY <1>1, <2>2, GetOne DEF MhyPlaced
  <2>6. beside = << beside[1], beside[2], beside[3], beside[4] >>
    BY <1>0, FourBytes
  <2> QED BY <2>4, <2>5, <2>6 DEF MhyBeside
<1>8. ASSUME NEW c \in 1 .. n PROVE MhyReadCab(m, MhyCabAt(c)) = cabs[c]
  <2>1. Agrees(m, MhyCabTable(cabs))
    BY <1>4 DEF InMhyInner
  <2>2. Holds(MhyCabTable(cabs), MhyCab(MhyCabAt(c), cabs[c]))
    BY <1>2, <1>3, MhyCabTableWrites
  <2>3. Agrees(m, MhyCab(MhyCabAt(c), cabs[c]))
    BY <2>1, <2>2, AgreesThrough
  <2> QED BY <1>1, <1>2, <2>3, MhyCabReads DEF MhyPlaced
<1>9. ASSUME NEW b \in 1 .. d
      PROVE  /\ MhyReadBlock(m, MhyBlockAt(n, b)) = blks[b]
             /\ MhyReadExtra(m, MhyBlockAt(n, b)) = keys[b].extra
  <2>1. Agrees(m, MhyBlockTable(n, blks, keys))
    BY <1>4 DEF InMhyInner
  <2>2. Holds(MhyBlockTable(n, blks, keys), MhyBlock(MhyBlockAt(n, b), blks[b], keys[b].extra))
    BY <1>1, <1>2, MhyBlockTableWrites
  <2>3. Agrees(m, MhyBlock(MhyBlockAt(n, b), blks[b], keys[b].extra))
    BY <2>1, <2>2, AgreesThrough
  <2>4. MhyBlockAt(n, b) \in Nat /\ blks[b] \in BlkType /\ keys[b].extra \in [1 .. 5 -> Byte]
    BY <1>1, <1>2 DEF MhyPlaced, KeyType
  <2> QED BY <2>3, <2>4, MhyBlockReads
<1> QED BY <1>5, <1>6, <1>7, <1>8, <1>9

(* What was read there, written again, is what is there.                   *)
LEMMA MhyInnerAgain ==
  ASSUME NEW m, \A x : Get(m, x) \in Byte, NEW n \in Nat, NEW d \in Nat,
         n = unshuffleInt(m, 0), d = unshuffleInt(m, MhyCntAt(n)),
         NEW cabs, Indexed(cabs, n), Len(cabs) = n, NEW blks, Indexed(blks, d), Len(blks) = d,
         NEW keys,
         \A c \in 1 .. n : cabs[c] = MhyReadCab(m, MhyCabAt(c)),
         \A b \in 1 .. d : /\ blks[b] = MhyReadBlock(m, MhyBlockAt(n, b))
                           /\ keys[b].extra = MhyReadExtra(m, MhyBlockAt(n, b))
  PROVE  Agrees(m, MhyInner(cabs, blks, MhyBeside(m, n), keys))
<1> DEFINE beside == MhyBeside(m, n)
<1>1. MhyPlaced(n) /\ \A b \in 1 .. d : b \in Nat /\ b >= 1
  BY MhyPlaces
<1>2. ASSUME NEW c \in 1 .. n
      PROVE  FullName(cabs[c]) /\ Agrees(m, MhyCab(MhyCabAt(c), cabs[c]))
  <2>1. MhyReadCab(m, MhyCabAt(c)).meta \in MhyMeta
    BY <1>1, MhyCabAgain DEF MhyPlaced
  <2>2. Agrees(m, MhyCab(MhyCabAt(c), MhyReadCab(m, MhyCabAt(c))))
    BY <1>1, MhyCabAgain DEF MhyPlaced
  <2> QED BY <2>1, <2>2, MhyNames DEF MhyMeta
<1>3. Agrees(m, MhyCabTable(cabs))
  BY <1>2, MhyCabTableWrites
<1>4. Agrees(m, MhyBlockTable(n, blks, keys))
  <2>1. ASSUME NEW b \in 1 .. d
        PROVE  Agrees(m, MhyBlock(MhyBlockAt(n, b), blks[b], keys[b].extra))
    BY <1>1, MhyBlockAgain DEF MhyPlaced
  <2> QED BY <2>1, MhyBlockTableWrites
<1>5. Agrees(m, shuffleInt(0, n)) /\ Agrees(m, shuffleInt(MhyCntAt(n), d))
  <2>1. 0 \in Nat /\ MhyCntAt(n) \in Nat
    BY <1>1 DEF MhyPlaced
  <2> QED BY <2>1, Rewrite
<1>6. /\ beside[1] = Get(m, 1) /\ beside[2] = Get(m, 3)
      /\ beside[3] = Get(m, MhyCntAt(n) + 1) /\ beside[4] = Get(m, MhyCntAt(n) + 3)
  BY DEF MhyBeside
<1> HIDE DEF beside
<1>7. /\ Agrees(m, BytesAt(1, <<beside[1]>>)) /\ Agrees(m, BytesAt(3, <<beside[2]>>))
      /\ Agrees(m, BytesAt(MhyCntAt(n) + 1, <<beside[3]>>))
      /\ Agrees(m, BytesAt(MhyCntAt(n) + 3, <<beside[4]>>))
  <2>1. 1 \in Nat /\ 3 \in Nat /\ MhyCntAt(n) + 1 \in Nat /\ MhyCntAt(n) + 3 \in Nat
    BY <1>1 DEF MhyPlaced
  <2> QED BY <1>6, <2>1, GetOne
<1>8. InMhyInner(cabs, blks, beside, keys, n, d, m)
  BY <1>3, <1>4, <1>5, <1>7 DEF InMhyInner
<1>9. Agrees(m, MhyInner(cabs, blks, beside, keys))
  BY <1>2, <1>8, MhyInnerWrites
<1> QED BY <1>9 DEF beside

-----------------------------------------------------------------------------
(* The bytes of unknown meaning are cut in pieces and put together.         *)

\* A sequence is a function on its indices.
LEMMA SeqFunction ==
  ASSUME NEW S, NEW s \in Seq(S)
  PROVE  s \in [1 .. Len(s) -> S] /\ s = [x \in 1 .. Len(s) |-> s[x]]
<1>1. DOMAIN s = 1 .. Len(s) /\ \A x \in 1 .. Len(s) : s[x] \in S
  BY SMT
<1>2. s = [x \in DOMAIN s |-> s[x]]
  BY SMT
<1> QED BY <1>1, <1>2

\* What a concatenation holds at each index.
LEMMA JoinSeq ==
  ASSUME NEW s \in Seq(Byte), NEW t \in Seq(Byte)
  PROVE  /\ s \o t \in Seq(Byte) /\ Len(s \o t) = Len(s) + Len(t)
         /\ \A x \in 1 .. Len(s) : (s \o t)[x] = s[x]
         /\ \A x \in 1 .. Len(t) : (s \o t)[Len(s) + x] = t[x]
BY SMT

CutOf(e, n, i, j, k) ==
  n \in Nat /\ e \in [1 .. n -> Byte] /\ i \in 1 .. n /\ j \in i .. n /\ k = j - i + 1

IsCut(t, e, i, k) ==
  /\ t \in Seq(Byte) /\ Len(t) = k /\ t \in [1 .. k -> Byte]
  /\ \A x \in 1 .. k : t[x] = e[i + (x - 1)]

\* A SubSeq is a cut of the sequence.
LEMMA Cut ==
  ASSUME NEW e, NEW n, NEW i, NEW j, NEW k, CutOf(e, n, i, j, k)
  PROVE  IsCut(SubSeq(e, i, j), e, i, k)
<1>1. /\ n \in Nat /\ e \in [1 .. n -> Byte] /\ i \in 1 .. n /\ j \in i .. n /\ k = j - i + 1
      /\ e \in Seq(Byte) /\ Len(e) = n
  BY BytesSeq DEF CutOf
<1>2. SubSeq(e, i, j) \in Seq(Byte) /\ Len(SubSeq(e, i, j)) = k /\ k \in Nat
  BY <1>1, SMT
<1>3. \A x \in 1 .. k : SubSeq(e, i, j)[x] = e[i + (x - 1)]
  BY <1>1, SMT
<1> QED BY <1>2, <1>3, SeqFunction DEF IsCut

(* Two neighbouring pieces put together are one.                           *)
Neighbours(s, t, e, i, k, l) ==
  i \in Nat /\ k \in Nat /\ l \in Nat /\ IsCut(s, e, i, k) /\ IsCut(t, e, i + k, l)

\* Two cuts that meet join to one.
LEMMA JoinCuts ==
  ASSUME NEW s, NEW t, NEW e, NEW i, NEW k, NEW l, Neighbours(s, t, e, i, k, l)
  PROVE  IsCut(s \o t, e, i, k + l)
<1> DEFINE u == s \o t
<1>1. /\ i \in Nat /\ k \in Nat /\ l \in Nat
      /\ s \in Seq(Byte) /\ Len(s) = k /\ \A x \in 1 .. k : s[x] = e[i + (x - 1)]
      /\ t \in Seq(Byte) /\ Len(t) = l /\ \A x \in 1 .. l : t[x] = e[i + k + (x - 1)]
  BY DEF Neighbours, IsCut
<1>2. /\ u \in Seq(Byte) /\ Len(u) = k + l
      /\ \A x \in 1 .. k : u[x] = s[x]
      /\ \A x \in 1 .. l : u[k + x] = t[x]
  BY <1>1, JoinSeq
<1> HIDE DEF u
<1>3. \A x \in 1 .. k + l : u[x] = e[i + (x - 1)]
  <2>1. ASSUME NEW x \in 1 .. k + l, x > k PROVE u[x] = e[i + (x - 1)]
    <3>1. x - k \in 1 .. l /\ i + k + ((x - k) - 1) = i + (x - 1) /\ k + (x - k) = x
      BY <1>1, <2>1, SMT
    <3>2. u[k + (x - k)] = t[x - k]
      BY <1>2, <3>1
    <3>3. t[x - k] = e[i + k + ((x - k) - 1)]
      BY <1>1, <3>1
    <3> QED BY <3>1, <3>2, <3>3
  <2>2. \A x \in 1 .. k + l : x > k \/ x \in 1 .. k
    BY <1>1, SMT
  <2> QED BY <1>1, <1>2, <2>1, <2>2
<1>4. u \in [1 .. k + l -> Byte]
  BY <1>2, SeqFunction
<1> QED BY <1>2, <1>3, <1>4 DEF u, IsCut

\* A cut of everything is everything.
LEMMA WholeCut ==
  ASSUME NEW n, n \in Nat, NEW e \in [1 .. n -> Byte], NEW t, IsCut(t, e, 1, n)
  PROVE  t = e
<1>1. \A x \in 1 .. n : 1 + (x - 1) = x
  BY SMT
<1>2. t \in [1 .. n -> Byte] /\ \A x \in 1 .. n : t[x] = e[x]
  BY <1>1 DEF IsCut
<1> QED BY <1>2

IsAt(m, at, n, seq) ==
  at \in Nat /\ n \in Nat /\ seq \in [1 .. n -> Byte] /\ Agrees(m, BytesAt(at, seq))

\* memcpy of bytes that are there.
LEMMA BytesRead ==
  ASSUME NEW m, NEW at, NEW n, NEW seq, IsAt(m, at, n, seq)
  PROVE  Read(m, at, n) = seq /\ \A k \in 1 .. n : Get(m, at + k - 1) = seq[k]
<1>1. /\ at \in Nat /\ n \in Nat /\ seq \in [1 .. n -> Byte] /\ Agrees(m, BytesAt(at, seq))
      /\ seq \in Seq(Byte) /\ Len(seq) = n
  BY BytesSeq DEF IsAt
<1>2. Read(m, at, Len(seq)) = seq /\ \A k \in 1 .. Len(seq) : Get(m, at + k - 1) = seq[k]
  BY <1>1, ReadBytes
<1> QED BY <1>1, <1>2

Three(e, i, a, b, c) ==
  /\ a = e[i] /\ b = e[i + 1] /\ c = e[i + 2]
  /\ i \in Nat /\ e[i] \in Byte /\ e[i + 1] \in Byte /\ e[i + 2] \in Byte

\* Three bytes in place are a cut.
LEMMA ThreeFound ==
  ASSUME NEW e, NEW i, NEW a, NEW b, NEW c, Three(e, i, a, b, c)
  PROVE  IsCut(<<a, b, c>>, e, i, 3)
<1>1. /\ a \in Byte /\ b \in Byte /\ c \in Byte /\ i \in Nat
      /\ a = e[i] /\ b = e[i + 1] /\ c = e[i + 2]
  BY DEF Three
<1>2. << a, b, c >> \in Seq(Byte) /\ Len(<< a, b, c >>) = 3 /\ << a, b, c >> \in [1 .. 3 -> Byte]
  BY <1>1, SMT
<1>3. \A x \in 1 .. 3 : x = 1 \/ x = 2 \/ x = 3
  BY SMT
<1>4. i + (1 - 1) = i /\ i + (2 - 1) = i + 1 /\ i + (3 - 1) = i + 2
  BY <1>1, SMT
<1> QED BY <1>1, <1>2, <1>3, <1>4 DEF IsCut

-----------------------------------------------------------------------------
(* mhy0 and mhy1: extract_* reads what pack_* was given.                    *)

\* What an mhy reader finds in an inner header it agrees with: what was written.
LEMMA MhyReadIs ==
  ASSUME NEW cabs, NEW blks, NEW keys, NEW n, NEW d, MhyGiven(cabs, blks, keys, n, d),
         NEW beside, NEW m, MhyWritten(m, cabs, blks, beside, keys),
         NEW h, h.cab_cnt = n, NEW heads, \A b \in 1 .. d : heads[b] = keys[b].head,
         NEW opens, NEW sz
  PROVE  MhyRead(m, h, heads, opens, sz)
           = [opens |-> opens, hdr |-> h, cabs |-> cabs, blks |-> blks, keys |-> keys,
              data_off |-> 8 + sz, next |-> 8 + sz + Sum(Cmps(blks))]
<1>1. /\ unshuffleInt(m, MhyCntAt(n)) = d
      /\ \A c \in 1 .. n : MhyReadCab(m, MhyCabAt(c)) = cabs[c]
      /\ \A b \in 1 .. d : /\ MhyReadBlock(m, MhyBlockAt(n, b)) = blks[b]
                           /\ MhyReadExtra(m, MhyBlockAt(n, b)) = keys[b].extra
  BY MhyInnerReads
<1>0. /\ cabs \in [1 .. n -> MhyCabType] /\ blks \in [1 .. d -> BlkType]
      /\ keys \in [1 .. d -> KeyType]
  BY DEF MhyGiven
<1>2. [c \in 1 .. n |-> MhyReadCab(m, 6 + 275 * (c - 1))] = cabs
  BY <1>0, <1>1 DEF MhyCabAt
<1>3. [b \in 1 .. d |-> MhyReadBlock(m, MhyBlockAt(n, b))] = blks
  BY <1>0, <1>1
<1>4. [b \in 1 .. d |-> [head |-> heads[b], extra |-> MhyReadExtra(m, MhyBlockAt(n, b))]] = keys
  <2>1. \A b \in 1 .. d : keys[b] \in KeyType
    BY <1>0
  <2>2. \A b \in 1 .. d :
          keys[b] = [head |-> heads[b], extra |-> MhyReadExtra(m, MhyBlockAt(n, b))]
    BY <1>1, <2>1 DEF KeyType
  <2> QED BY <1>0, <2>2
<1> QED BY <1>1, <1>2, <1>3, <1>4 DEF MhyRead

MhyReads(r, hdr, cabs, keys, blks, n, len) ==
  /\ r.opens /\ r.hdr = [hdr EXCEPT !.cab_cnt = n] /\ r.cabs = cabs /\ r.blks = blks
  /\ r.keys = keys /\ r.data_off = len /\ r.next = len + Sum(Cmps(blks))

Mhy0Opened(m, hdr, len) ==
  /\ Be(m, 0) = Mhy0Magic /\ Le(m, 4) = HeaderSize + 39 /\ Read(m, 8, 32) = hdr.key
  /\ Get(m, 40) = hdr.extra[1] /\ Get(m, 44) = hdr.extra[2] /\ Get(m, 45) = hdr.extra[3]
  /\ unshuffleUint(m, 40) = len

Room(n) == HeaderSize \in Nat /\ HeaderSize + n <= SizeLimit

\* The outer header of mhy0 opens to the header it was made from.
LEMMA Mhy0OuterReads ==
  ASSUME NEW hdr \in HdrType("mhy0"), NEW len \in Small, Room(47)
  PROVE  Mhy0Opened(Mhy0Outer(hdr, len), hdr, len)
<1> DEFINE m == Mhy0Outer(hdr, len)
<1>1. Agrees(m, m)
  BY DEF Agrees, Get
<1>2. InMhy0Outer(hdr, len, m)
  BY <1>1, Mhy0OuterWrites
<1> HIDE DEF m
<1>3. hdr.key \in [1 .. 32 -> Byte] /\ hdr.extra \in [1 .. 7 -> Byte]
  BY DEF HdrType
<1>4. Be(m, 0) = Mhy0Magic
  <2>1. Mhy0Magic \in Int32 /\ 0 \in Nat
    BY SMT DEF Mhy0Magic, Int32
  <2> QED BY <1>2, <2>1, ReadBe DEF InMhy0Outer
<1>5. Le(m, 4) = HeaderSize + 39
  <2>1. HeaderSize + 39 \in Int32 /\ 4 \in Nat /\ 4 >= 4
    BY SMT DEF Room, SizeLimit, Int32
  <2>2. Agrees(m, LeAt(4, 4, HeaderSize + 39))
    BY <1>2 DEF InMhy0Outer
  <2> QED BY <2>1, <2>2, ReadLe
<1>6. Read(m, 8, 32) = hdr.key
  <2>1. IsAt(m, 8, 32, hdr.key)
    BY <1>2, <1>3 DEF InMhy0Outer, IsAt
  <2> QED BY <2>1, BytesRead
<1>7. Get(m, 40) = hdr.extra[1]
  <2>1. Agrees(m, BytesAt(40, <<hdr.extra[1]>>)) /\ 40 \in Nat
    BY <1>2 DEF InMhy0Outer
  <2> QED BY <2>1, GetOne
<1>8. Get(m, 44) = hdr.extra[2] /\ Get(m, 45) = hdr.extra[3]
  <2> DEFINE t == SubSeq(hdr.extra, 2, 3)
  <2>1. Agrees(m, BytesAt(44, t)) /\ 44 \in Nat /\ 2 \in Nat
    BY <1>2 DEF InMhy0Outer
  <2>2. IsCut(t, hdr.extra, 2, 2)
    <3>1. CutOf(hdr.extra, 7, 2, 3, 2)
      BY <1>3, SMT DEF CutOf
    <3> QED BY <3>1, Cut
  <2> HIDE DEF t
  <2>3. IsAt(m, 44, 2, t)
    BY <2>1, <2>2 DEF IsAt, IsCut
  <2>4. \A k \in 1 .. 2 : Get(m, 44 + k - 1) = t[k]
    BY <2>3, BytesRead
  <2> QED BY <2>2, <2>4, SMT DEF IsCut
<1>9. unshuffleUint(m, 40) = len
  <2>1. Agrees(m, shuffleUint(40, len)) /\ 40 \in Nat /\ len \in Int32
    BY <1>2, SmallNumbers DEF InMhy0Outer
  <2> QED BY <2>1, ReadShuffled
<1> QED BY <1>4, <1>5, <1>6, <1>7, <1>8, <1>9 DEF Mhy0Opened, m

\* A memory agrees with itself.
LEMMA AgreesItself ==
  ASSUME NEW m
  PROVE  Agrees(m, m)
BY DEF Agrees, Get

\* How long an mhy inner header is.
LEMMA MhyLens ==
  ASSUME NEW cabs, NEW blks, NEW keys, NEW n, NEW d, MhyGiven(cabs, blks, keys, n, d)
  PROVE  /\ MhyInnerLen(cabs, blks) = 275 * n + 13 * d + 12 /\ MhyInnerLen(cabs, blks) \in Small
         /\ Len(cabs) = n /\ Len(blks) = d /\ DOMAIN cabs = 1 .. n /\ DOMAIN blks = 1 .. d
         /\ Indexed(cabs, n) /\ Indexed(blks, d) /\ n \in Nat /\ d \in Nat
<1>1. /\ n \in Nat /\ d \in Nat /\ n <= 256 /\ d <= 16384
      /\ cabs \in [1 .. n -> MhyCabType] /\ blks \in [1 .. d -> BlkType]
  BY CountsSmall DEF MhyGiven
<1>2. /\ Len(cabs) = n /\ Len(blks) = d /\ DOMAIN cabs = 1 .. n /\ DOMAIN blks = 1 .. d
      /\ Indexed(cabs, n) /\ Indexed(blks, d)
  BY <1>1, Tables
<1>3. 275 * n + 13 * d + 12 \in Small
  BY <1>1, SMT DEF Small, SizeLimit
<1> QED BY <1>1, <1>2, <1>3 DEF MhyInnerLen

\* An mhy0 header is its three fields.
LEMMA Mhy0HdrAgain ==
  ASSUME NEW hdr \in HdrType("mhy0"), NEW n
  PROVE  [cab_cnt |-> n, key |-> hdr.key, extra |-> hdr.extra] = [hdr EXCEPT !.cab_cnt = n]
<1>1. hdr \in [cab_cnt : Nat, key : [1 .. 32 -> Byte], extra : [1 .. 7 -> Byte]]
  BY DEF HdrType
<1> QED BY <1>1

\* extract_mhy0 reads what pack_mhy0 wrote.
LEMMA Mhy0Reads ==
  ASSUME NEW hdr \in HdrType("mhy0"), NEW cabs, NEW blks, NEW keys, NEW n, NEW d,
         MhyGiven(cabs, blks, keys, n, d), Room(47)
  PROVE  MhyReads(Mhy0Read(Mhy0Pack(hdr, cabs, keys, blks)), hdr, cabs, keys, blks, n,
                  HeaderSize + 47)
<1> DEFINE a      == Mhy0Pack(hdr, cabs, keys, blks)
           len    == MhyInnerLen(cabs, blks)
           beside == SubSeq(hdr.extra, 4, 7)
<1>1. /\ a.outer = Mhy0Outer(hdr, len) /\ a.inner = MhyInner(cabs, blks, beside, keys)
      /\ a.inner_len = len /\ a.blocks = [b \in DOMAIN blks |-> BytesAt(0, keys[b].head)]
  BY DEF Mhy0Pack
<1>2. len \in Small /\ DOMAIN blks = 1 .. d
  BY MhyLens
<1>3. /\ hdr.key \in [1 .. 32 -> Byte] /\ hdr.extra \in [1 .. 7 -> Byte]
      /\ hdr = [cab_cnt |-> hdr.cab_cnt, key |-> hdr.key, extra |-> hdr.extra]
  BY DEF HdrType
<1>4. IsCut(beside, hdr.extra, 4, 4)
  <2>1. CutOf(hdr.extra, 7, 4, 7, 4)
    BY <1>3, SMT DEF CutOf
  <2> QED BY <2>1, Cut
<1> HIDE DEF beside, len
<1>5. MhyWritten(a.inner, cabs, blks, beside, keys)
  BY <1>1, <1>4, AgreesItself DEF MhyWritten, IsCut
<1>6. Mhy0Opened(a.outer, hdr, len)
  BY <1>1, <1>2, Mhy0OuterReads
<1> HIDE DEF a
<1>7. unshuffleInt(a.inner, 0) = n /\ MhyBeside(a.inner, n) = beside
  BY <1>5, MhyInnerReads
<1> DEFINE extra == << Get(a.outer, 40), Get(a.outer, 44), Get(a.outer, 45) >>
                    \o MhyBeside(a.inner, n)
           h     == [cab_cnt |-> n, key |-> Read(a.outer, 8, 32), extra |-> extra]
           heads == [b \in DOMAIN a.blocks |-> Read(a.blocks[b], 0, 12)]
           opens == /\ Be(a.outer, 0) = Mhy0Magic
                    /\ Le(a.outer, 4) - 39 = HeaderSize /\ unshuffleUint(a.outer, 40) = a.inner_len
<1>8. Mhy0Read(a) = MhyRead(a.inner, h, heads, opens, Le(a.outer, 4))
  BY <1>7 DEF Mhy0Read
<1>9. opens
  <2>1. (HeaderSize + 39) - 39 = HeaderSize
    BY SMT DEF Room
  <2> QED BY <1>1, <1>6, <2>1 DEF Mhy0Opened
<1>10. extra = hdr.extra
  <2>1. Three(hdr.extra, 1, Get(a.outer, 40), Get(a.outer, 44), Get(a.outer, 45))
    <3>1. 1 \in Nat /\ 1 + 1 = 2 /\ 1 + 2 = 3 /\ 1 \in 1 .. 7 /\ 2 \in 1 .. 7 /\ 3 \in 1 .. 7
      BY SMT
    <3> QED BY <1>3, <1>6, <3>1 DEF Mhy0Opened, Three
  <2>2. IsCut(<< Get(a.outer, 40), Get(a.outer, 44), Get(a.outer, 45) >>, hdr.extra, 1, 3)
    BY <2>1, ThreeFound
  <2>3. Neighbours(<< Get(a.outer, 40), Get(a.outer, 44), Get(a.outer, 45) >>, beside,
                   hdr.extra, 1, 3, 4)
    <3>1. 1 + 3 = 4
      BY SMT
    <3> QED BY <1>4, <2>2, <3>1 DEF Neighbours
  <2>4. IsCut(extra, hdr.extra, 1, 7)
    <3>1. 3 + 4 = 7
      BY SMT
    <3> QED BY <1>7, <2>3, <3>1, JoinCuts
  <2> QED BY <1>3, <2>4, WholeCut
<1>11. h = [hdr EXCEPT !.cab_cnt = n]
  BY <1>6, <1>10, Mhy0HdrAgain DEF Mhy0Opened
<1>12. \A b \in 1 .. d : heads[b] = keys[b].head
  <2>1. ASSUME NEW b \in 1 .. d PROVE Read(a.blocks[b], 0, 12) = keys[b].head
    <3>1. keys[b].head \in [1 .. 12 -> Byte]
      BY DEF MhyGiven, KeyType
    <3>2. a.blocks[b] = BytesAt(0, keys[b].head)
      BY <1>1, <1>2
    <3>3. IsAt(a.blocks[b], 0, 12, keys[b].head)
      BY <3>1, <3>2, AgreesItself DEF IsAt
    <3> QED BY <3>3, BytesRead
  <2>2. DOMAIN a.blocks = 1 .. d
    BY <1>1, <1>2
  <2> QED BY <2>1, <2>2
<1> HIDE DEF extra, heads, opens
<1>13. MhyRead(a.inner, h, heads, opens, Le(a.outer, 4))
         = [opens |-> opens, hdr |-> h, cabs |-> cabs, blks |-> blks, keys |-> keys,
            data_off |-> 8 + Le(a.outer, 4), next |-> 8 + Le(a.outer, 4) + Sum(Cmps(blks))]
  <2>1. h.cab_cnt = n
    OBVIOUS
  <2> HIDE DEF h
  <2> QED BY <1>5, <1>12, <2>1, MhyReadIs
<1>14. 8 + Le(a.outer, 4) = HeaderSize + 47
  <2>1. Le(a.outer, 4) = HeaderSize + 39
    BY <1>6 DEF Mhy0Opened
  <2> QED BY <2>1, SMT DEF Room
<1> HIDE DEF h
<1>15. MhyReads(Mhy0Read(a), hdr, cabs, keys, blks, n, HeaderSize + 47)
  <2>1. PICK r : r = Mhy0Read(a)
    OBVIOUS
  <2>2. r = [opens |-> opens, hdr |-> h, cabs |-> cabs, blks |-> blks, keys |-> keys,
             data_off |-> HeaderSize + 47, next |-> HeaderSize + 47 + Sum(Cmps(blks))]
    BY <1>8, <1>13, <1>14, <2>1
  <2>3. r.opens /\ r.hdr = [hdr EXCEPT !.cab_cnt = n]
    BY <1>9, <1>11, <2>2
  <2>4. /\ r.cabs = cabs /\ r.blks = blks /\ r.keys = keys /\ r.data_off = HeaderSize + 47
        /\ r.next = HeaderSize + 47 + Sum(Cmps(blks))
    BY <2>2
  <2> QED BY <2>1, <2>3, <2>4 DEF MhyReads
<1> QED BY <1>15 DEF a

Mhy1Opened(m, hdr, len) ==
  /\ Be(m, 0) = Mhy1Magic /\ Le(m, 4) = HeaderSize + 55 /\ Read(m, 8, 4) = hdr.key
  /\ Read(m, 12, 16) = NewEc /\ Read(m, 28, 16) = hdr.rc4_key
  /\ IsCut(Read(m, 44, 12), hdr.extra, 1, 12)
  /\ Get(m, 56) = hdr.extra[13] /\ Get(m, 60) = hdr.extra[14] /\ Get(m, 61) = hdr.extra[15]
  /\ unshuffleUint(m, 56) = len

\* The first 16 bytes of an mhy1 block are found where they were put.
LEMMA NewEcFound ==
  ASSUME NEW m, NEW at \in Nat, Agrees(m, BytesAt(at, NewEc))
  PROVE  Read(m, at, 16) = NewEc
<1>1. NewEc \in [1 .. 16 -> Byte]
  BY NewEcBytes, SeqFunction
<1>2. 16 \in Nat
  OBVIOUS
<1>3. IsAt(m, at, 16, NewEc)
  BY <1>1, <1>2 DEF IsAt
<1> QED BY <1>3, BytesRead

\* The outer header of mhy1 opens to the header it was made from.
LEMMA Mhy1OuterReads ==
  ASSUME NEW hdr \in HdrType("mhy1"), NEW len \in Small, Room(63)
  PROVE  Mhy1Opened(Mhy1Outer(hdr, len), hdr, len)
<1> DEFINE m == Mhy1Outer(hdr, len)
<1>1. Agrees(m, m)
  BY AgreesItself
<1>2. InMhy1Outer(hdr, len, m)
  BY <1>1, Mhy1OuterWrites
<1> HIDE DEF m
<1>3. /\ hdr.key \in [1 .. 4 -> Byte] /\ hdr.rc4_key \in [1 .. 16 -> Byte]
      /\ hdr.extra \in [1 .. 19 -> Byte]
  BY DEF HdrType
<1>4. Be(m, 0) = Mhy1Magic
  <2>1. Mhy1Magic \in Int32 /\ 0 \in Nat
    BY SMT DEF Mhy1Magic, Int32
  <2> QED BY <1>2, <2>1, ReadBe DEF InMhy1Outer
<1>5. Le(m, 4) = HeaderSize + 55
  <2>1. HeaderSize + 55 \in Int32 /\ 4 \in Nat /\ 4 >= 4
    BY SMT DEF Room, SizeLimit, Int32
  <2>2. Agrees(m, LeAt(4, 4, HeaderSize + 55))
    BY <1>2 DEF InMhy1Outer
  <2> QED BY <2>1, <2>2, ReadLe
<1>6. Read(m, 8, 4) = hdr.key
  <2>1. IsAt(m, 8, 4, hdr.key)
    BY <1>2, <1>3 DEF InMhy1Outer, IsAt
  <2> QED BY <2>1, BytesRead
<1>7. Read(m, 28, 16) = hdr.rc4_key
  <2>1. IsAt(m, 28, 16, hdr.rc4_key)
    BY <1>2, <1>3 DEF InMhy1Outer, IsAt
  <2> QED BY <2>1, BytesRead
<1>8. Read(m, 12, 16) = NewEc
  <2>1. Agrees(m, BytesAt(12, NewEc)) /\ 12 \in Nat
    BY <1>2 DEF InMhy1Outer
  <2> QED BY <2>1, NewEcFound
<1>9. IsCut(Read(m, 44, 12), hdr.extra, 1, 12)
  <2>1. CutOf(hdr.extra, 19, 1, 12, 12)
    BY <1>3, SMT DEF CutOf
  <2>2. IsCut(SubSeq(hdr.extra, 1, 12), hdr.extra, 1, 12)
    BY <2>1, Cut
  <2>3. Agrees(m, BytesAt(44, SubSeq(hdr.extra, 1, 12))) /\ 44 \in Nat /\ 12 \in Nat
    BY <1>2 DEF InMhy1Outer
  <2>4. Read(m, 44, 12) = SubSeq(hdr.extra, 1, 12)
    <3>1. IsAt(m, 44, 12, SubSeq(hdr.extra, 1, 12))
      BY <2>2, <2>3 DEF IsAt, IsCut
    <3> QED BY <3>1, BytesRead
  <2> QED BY <2>2, <2>4
<1>10. Get(m, 56) = hdr.extra[13]
  <2>1. Agrees(m, BytesAt(56, <<hdr.extra[13]>>)) /\ 56 \in Nat
    BY <1>2 DEF InMhy1Outer
  <2> QED BY <2>1, GetOne
<1>11. Get(m, 60) = hdr.extra[14] /\ Get(m, 61) = hdr.extra[15]
  <2> DEFINE t == SubSeq(hdr.extra, 14, 15)
  <2>1. Agrees(m, BytesAt(60, t)) /\ 60 \in Nat /\ 2 \in Nat
    BY <1>2 DEF InMhy1Outer
  <2>2. CutOf(hdr.extra, 19, 14, 15, 2)
    BY <1>3, SMT DEF CutOf
  <2>3. IsCut(t, hdr.extra, 14, 2)
    BY <2>2, Cut
  <2> HIDE DEF t
  <2>4. \A x \in 1 .. 2 : Get(m, 60 + x - 1) = t[x]
    <3>1. IsAt(m, 60, 2, t)
      BY <2>1, <2>3 DEF IsAt, IsCut
    <3> QED BY <3>1, BytesRead
  <2> QED BY <2>3, <2>4, SMT DEF IsCut
<1>12. unshuffleUint(m, 56) = len
  <2>1. Agrees(m, shuffleUint(56, len)) /\ 56 \in Nat /\ len \in Int32
    BY <1>2, SmallNumbers DEF InMhy1Outer
  <2> QED BY <2>1, ReadShuffled
<1> QED BY <1>4, <1>5, <1>6, <1>7, <1>8, <1>9, <1>10, <1>11, <1>12 DEF Mhy1Opened, m

\* The 12 bytes of an mhy1 block's head are found around the 16 fixed ones.
LEMMA Mhy1HeadReads ==
  ASSUME NEW head \in [1 .. 12 -> Byte]
  PROVE  /\ Read(Mhy1Head(head), 0, 4) \o Read(Mhy1Head(head), 20, 8) = head
         /\ Read(Mhy1Head(head), 4, 16) = NewEc
<1> DEFINE m == Mhy1Head(head)
           s == SubSeq(head, 1, 4)
           t == SubSeq(head, 5, 12)
<1>1. InMhy1Head(head, m)
  BY AgreesItself, Mhy1HeadWrites
<1>2. IsCut(s, head, 1, 4) /\ IsCut(t, head, 5, 8)
  <2>1. CutOf(head, 12, 1, 4, 4) /\ CutOf(head, 12, 5, 12, 8)
    BY SMT DEF CutOf
  <2> QED BY <2>1, Cut
<1>3. Agrees(m, BytesAt(0, s)) /\ Agrees(m, BytesAt(20, t)) /\ Agrees(m, BytesAt(4, NewEc))
  BY <1>1 DEF InMhy1Head
<1> HIDE DEF m, s, t
<1>4. 0 \in Nat /\ 20 \in Nat /\ 4 \in Nat /\ 8 \in Nat /\ 1 \in Nat /\ 12 \in Nat
      /\ 1 + 4 = 5 /\ 4 + 8 = 12
  BY SMT
<1>5. Read(m, 0, 4) = s /\ Read(m, 20, 8) = t
  <2>1. IsAt(m, 0, 4, s) /\ IsAt(m, 20, 8, t)
    BY <1>2, <1>3, <1>4 DEF IsAt, IsCut
  <2> QED BY <2>1, BytesRead
<1>6. Neighbours(s, t, head, 1, 4, 8)
  BY <1>2, <1>4 DEF Neighbours
<1>7. IsCut(s \o t, head, 1, 12)
  BY <1>4, <1>6, JoinCuts
<1>8. s \o t = head
  BY <1>4, <1>7, WholeCut
<1>9. Read(m, 4, 16) = NewEc
  BY <1>3, <1>4, NewEcFound
<1> QED BY <1>5, <1>8, <1>9 DEF m

\* An mhy1 header is its four fields.
LEMMA Mhy1HdrAgain ==
  ASSUME NEW hdr \in HdrType("mhy1"), NEW n
  PROVE  [cab_cnt |-> n, key |-> hdr.key, rc4_key |-> hdr.rc4_key, extra |-> hdr.extra]
           = [hdr EXCEPT !.cab_cnt = n]
<1>1. hdr \in [cab_cnt : Nat, key : [1 .. 4 -> Byte], rc4_key : [1 .. 16 -> Byte],
               extra : [1 .. 19 -> Byte]]
  BY DEF HdrType
<1> QED BY <1>1

\* extract_mhy1 reads what pack_mhy1 wrote.
LEMMA Mhy1Reads ==
  ASSUME NEW hdr \in HdrType("mhy1"), NEW cabs, NEW blks, NEW keys, NEW n, NEW d,
         MhyGiven(cabs, blks, keys, n, d), Room(63)
  PROVE  MhyReads(Mhy1Read(Mhy1Pack(hdr, cabs, keys, blks)), hdr, cabs, keys, blks, n,
                  HeaderSize + 63)
<1> DEFINE a      == Mhy1Pack(hdr, cabs, keys, blks)
           len    == MhyInnerLen(cabs, blks)
           beside == SubSeq(hdr.extra, 16, 19)
<1>1. /\ a.outer = Mhy1Outer(hdr, len) /\ a.inner = MhyInner(cabs, blks, beside, keys)
      /\ a.inner_len = len /\ a.blocks = [b \in DOMAIN blks |-> Mhy1Head(keys[b].head)]
  BY DEF Mhy1Pack
<1>2. len \in Small /\ DOMAIN blks = 1 .. d
  BY MhyLens
<1>3. hdr.extra \in [1 .. 19 -> Byte]
  BY DEF HdrType
<1>4. IsCut(beside, hdr.extra, 16, 4)
  <2>1. CutOf(hdr.extra, 19, 16, 19, 4)
    BY <1>3, SMT DEF CutOf
  <2> QED BY <2>1, Cut
<1> HIDE DEF beside, len
<1>5. MhyWritten(a.inner, cabs, blks, beside, keys)
  BY <1>1, <1>4, AgreesItself DEF MhyWritten, IsCut
<1>6. Mhy1Opened(a.outer, hdr, len)
  BY <1>1, <1>2, Mhy1OuterReads
<1> HIDE DEF a
<1>7. unshuffleInt(a.inner, 0) = n /\ MhyBeside(a.inner, n) = beside
  BY <1>5, MhyInnerReads
<1> DEFINE three == << Get(a.outer, 56), Get(a.outer, 60), Get(a.outer, 61) >>
           extra == (Read(a.outer, 44, 12) \o three) \o MhyBeside(a.inner, n)
           h     == [cab_cnt |-> n, key |-> Read(a.outer, 8, 4), rc4_key |-> Read(a.outer, 28, 16),
                     extra |-> extra]
           heads == [b \in DOMAIN a.blocks |-> Read(a.blocks[b], 0, 4) \o Read(a.blocks[b], 20, 8)]
           opens == /\ Be(a.outer, 0) = Mhy1Magic
                    /\ Le(a.outer, 4) - 55 = HeaderSize /\ unshuffleUint(a.outer, 56) = a.inner_len
<1>8. Mhy1Read(a) = MhyRead(a.inner, h, heads, opens, Le(a.outer, 4))
  BY <1>7 DEF Mhy1Read
<1>9. opens
  <2>1. (HeaderSize + 55) - 55 = HeaderSize
    BY SMT DEF Room
  <2> QED BY <1>1, <1>6, <2>1 DEF Mhy1Opened
<1>10. extra = hdr.extra
  <2>0. /\ 1 \in Nat /\ 13 + 1 = 14 /\ 13 + 2 = 15 /\ 13 \in 1 .. 19 /\ 14 \in 1 .. 19 /\ 15 \in 1 .. 19
        /\ 13 \in Nat /\ 12 \in Nat /\ 3 \in Nat /\ 15 \in Nat /\ 4 \in Nat /\ 19 \in Nat
        /\ 1 + 12 = 13 /\ 12 + 3 = 15 /\ 1 + 15 = 16 /\ 15 + 4 = 19
    BY SMT
  <2>1. Three(hdr.extra, 13, Get(a.outer, 56), Get(a.outer, 60), Get(a.outer, 61))
    BY <1>3, <1>6, <2>0 DEF Mhy1Opened, Three
  <2>2. IsCut(three, hdr.extra, 13, 3)
    BY <2>1, ThreeFound
  <2> HIDE DEF three
  <2>3. Neighbours(Read(a.outer, 44, 12), three, hdr.extra, 1, 12, 3)
    BY <1>6, <2>0, <2>2 DEF Neighbours, Mhy1Opened
  <2>4. IsCut(Read(a.outer, 44, 12) \o three, hdr.extra, 1, 15)
    BY <2>0, <2>3, JoinCuts
  <2>5. Neighbours(Read(a.outer, 44, 12) \o three, beside, hdr.extra, 1, 15, 4)
    BY <1>4, <2>0, <2>4 DEF Neighbours
  <2>6. IsCut(extra, hdr.extra, 1, 19)
    BY <1>7, <2>0, <2>5, JoinCuts
  <2> QED BY <1>3, <2>0, <2>6, WholeCut
<1>11. h = [hdr EXCEPT !.cab_cnt = n]
  BY <1>6, <1>10, Mhy1HdrAgain DEF Mhy1Opened
<1>12. \A b \in 1 .. d : heads[b] = keys[b].head
  <2>1. ASSUME NEW b \in 1 .. d
        PROVE  Read(a.blocks[b], 0, 4) \o Read(a.blocks[b], 20, 8) = keys[b].head
    <3>1. keys[b].head \in [1 .. 12 -> Byte]
      BY DEF MhyGiven, KeyType
    <3>2. a.blocks[b] = Mhy1Head(keys[b].head)
      BY <1>1, <1>2
    <3> QED BY <3>1, <3>2, Mhy1HeadReads
  <2>2. DOMAIN a.blocks = 1 .. d
    BY <1>1, <1>2
  <2> QED BY <2>1, <2>2
<1> HIDE DEF extra, heads, opens
<1>13. MhyRead(a.inner, h, heads, opens, Le(a.outer, 4))
         = [opens |-> opens, hdr |-> h, cabs |-> cabs, blks |-> blks, keys |-> keys,
            data_off |-> 8 + Le(a.outer, 4), next |-> 8 + Le(a.outer, 4) + Sum(Cmps(blks))]
  <2>1. h.cab_cnt = n
    OBVIOUS
  <2> HIDE DEF h
  <2> QED BY <1>5, <1>12, <2>1, MhyReadIs
<1>14. 8 + Le(a.outer, 4) = HeaderSize + 63
  <2>1. Le(a.outer, 4) = HeaderSize + 55
    BY <1>6 DEF Mhy1Opened
  <2> QED BY <2>1, SMT DEF Room
<1> HIDE DEF h
<1>15. MhyReads(Mhy1Read(a), hdr, cabs, keys, blks, n, HeaderSize + 63)
  <2>1. PICK r : r = Mhy1Read(a)
    OBVIOUS
  <2>2. r = [opens |-> opens, hdr |-> h, cabs |-> cabs, blks |-> blks, keys |-> keys,
             data_off |-> HeaderSize + 63, next |-> HeaderSize + 63 + Sum(Cmps(blks))]
    BY <1>8, <1>13, <1>14, <2>1
  <2>3. r.opens /\ r.hdr = [hdr EXCEPT !.cab_cnt = n]
    BY <1>9, <1>11, <2>2
  <2>4. /\ r.cabs = cabs /\ r.blks = blks /\ r.keys = keys /\ r.data_off = HeaderSize + 63
        /\ r.next = HeaderSize + 63 + Sum(Cmps(blks))
    BY <2>2
  <2> QED BY <2>1, <2>3, <2>4 DEF MhyReads
<1> QED BY <1>15 DEF a

-----------------------------------------------------------------------------
(* Every byte that is packed into mhy0 and mhy1 is one.                     *)

\* Bytes that are copied are bytes.
LEMMA BytesMemory ==
  ASSUME NEW at \in Nat, NEW n \in Nat, NEW seq \in [1 .. n -> Byte]
  PROVE  Memory(BytesAt(at, seq))
<1>1. seq \in Seq(Byte)
  BY BytesSeq
<1> QED BY <1>1, WritesBytes

\* One byte.
LEMMA ByteMemory ==
  ASSUME NEW at \in Nat, NEW b \in Byte
  PROVE  Memory(BytesAt(at, <<b>>))
<1>1. <<b>> \in Seq(Byte)
  OBVIOUS
<1> QED BY <1>1, WritesBytes

\* Two bytes.
LEMMA TwoMemory ==
  ASSUME NEW at \in Nat, NEW b \in Byte, NEW c \in Byte
  PROVE  Memory(BytesAt(at, <<b, c>>))
<1>1. <<b, c>> \in Seq(Byte)
  OBVIOUS
<1> QED BY <1>1, WritesBytes

\* Every way of storing a number stores bytes.
LEMMA NumberMemory ==
  ASSUME NEW at \in Nat, NEW v \in Int
  PROVE  /\ Memory(LeAt(at, 4, v)) /\ Memory(BeAt(at, 4, v)) /\ Memory(BeAt(at, 2, v))
         /\ Memory(LeAt(at, 8, v)) /\ Memory(BeAt(at, 8, v)) /\ Memory(LeAt(at, 12, v))
         /\ Memory(shuffleInt(at, v)) /\ Memory(shuffleUint(at, v))
<1>1. 4 \in 0 .. 12 /\ 2 \in 0 .. 12 /\ 8 \in 0 .. 12 /\ 12 \in 0 .. 12
  BY SMT
<1> QED BY <1>1, WritesBytes

\* An mhy cab entry is bytes.
LEMMA MhyCabMemory ==
  ASSUME NEW at \in Nat, NEW cab \in MhyCabType
  PROVE  Memory(MhyCab(at, cab))
<1> DEFINE extra == cab.meta.extra
<1>1. /\ cab.meta.name \in [1 .. 260 -> Byte] /\ cab.meta.flag \in Byte /\ extra \in [1 .. 5 -> Byte]
      /\ cab.blk_off \in Small /\ cab.blk_sz \in Small /\ cab.meta \in MhyMeta
  BY DEF MhyCabType, MhyMeta
<1>2. FullName(cab) /\ cab.meta.name \in Seq(Byte)
  BY <1>1, MhyNames
<1>3. /\ at + 261 \in Nat /\ at + 262 \in Nat /\ at + 263 \in Nat /\ at + 265 \in Nat
      /\ at + 268 \in Nat /\ at + 272 \in Nat
  BY SMT
<1>4. /\ extra[1] \in Byte /\ extra[2] \in Byte /\ extra[3] \in Byte /\ extra[4] \in Byte
      /\ extra[5] \in Byte
  BY <1>1, FiveBytes
<1>5. cab.blk_off \in Int /\ cab.blk_sz \in Int
  BY <1>1, SmallNumbers
<1> HIDE DEF extra
<1>6. Memory(BytesAt(at, cab.meta.name)) /\ Memory(BytesAt(at + 261, <<cab.meta.flag>>))
  BY <1>1, <1>2, <1>3, WritesBytes, ByteMemory
<1>7. Memory(shuffleInt(at + 262, cab.blk_off)) /\ Memory(shuffleUint(at + 268, cab.blk_sz))
  BY <1>3, <1>5, NumberMemory
<1>8. /\ Memory(BytesAt(at + 263, <<extra[1]>>)) /\ Memory(BytesAt(at + 265, <<extra[2]>>))
      /\ Memory(BytesAt(at + 268, <<extra[3]>>)) /\ Memory(BytesAt(at + 272, <<extra[4], extra[5]>>))
  BY <1>3, <1>4, ByteMemory, TwoMemory
<1>9. SoundMhyCab(at, cab)
  BY <1>6, <1>7, <1>8 DEF SoundMhyCab, extra
<1> QED BY <1>2, <1>9, MhyCabWrites

\* An mhy block entry is bytes.
LEMMA MhyBlockMemory ==
  ASSUME NEW at \in Nat, NEW blk \in BlkType, NEW extra \in [1 .. 5 -> Byte]
  PROVE  Memory(MhyBlock(at, blk, extra))
<1>1. blk.cmp \in Int /\ blk.dec \in Int
  BY SmallNumbers DEF BlkType
<1>2. at + 1 \in Nat /\ at + 3 \in Nat /\ at + 6 \in Nat /\ at + 10 \in Nat
  BY SMT
<1>3. /\ extra[1] \in Byte /\ extra[2] \in Byte /\ extra[3] \in Byte /\ extra[4] \in Byte
      /\ extra[5] \in Byte
  BY FiveBytes
<1>4. /\ Memory(BytesAt(at + 1, <<extra[1]>>)) /\ Memory(BytesAt(at + 3, <<extra[2]>>))
      /\ Memory(BytesAt(at + 6, <<extra[3]>>)) /\ Memory(BytesAt(at + 10, <<extra[4], extra[5]>>))
  BY <1>2, <1>3, ByteMemory, TwoMemory
<1>5. Memory(shuffleInt(at, blk.cmp)) /\ Memory(shuffleUint(at + 6, blk.dec))
  BY <1>1, <1>2, NumberMemory
<1>6. SoundMhyBlock(at, blk, extra)
  BY <1>4, <1>5 DEF SoundMhyBlock
<1> QED BY <1>6, MhyBlockWrites

\* An mhy inner header is bytes, and which offsets it sets.
LEMMA MhyInnerMemory ==
  ASSUME NEW cabs, NEW blks, NEW keys, NEW n, NEW d, MhyGiven(cabs, blks, keys, n, d),
         NEW beside \in [1 .. 4 -> Byte]
  PROVE  /\ Memory(MhyInner(cabs, blks, beside, keys))
         /\ DOMAIN MhyInner(cabs, blks, beside, keys) = MhyInnerBytes(n, d)
<1>1. /\ Len(cabs) = n /\ Len(blks) = d /\ Indexed(cabs, n) /\ Indexed(blks, d)
      /\ n \in Nat /\ d \in Nat /\ MhyPlaced(n)
  BY MhyLens, MhyPlaces
<1>2. /\ \A c \in 1 .. n : cabs[c] \in MhyCabType
      /\ \A b \in 1 .. d : blks[b] \in BlkType /\ keys[b].extra \in [1 .. 5 -> Byte] /\ b \in Nat /\ b >= 1
  BY <1>1 DEF MhyGiven, KeyType
<1>3. ASSUME NEW c \in 1 .. n
      PROVE  FullName(cabs[c]) /\ Memory(MhyCab(MhyCabAt(c), cabs[c]))
  <2>1. cabs[c].meta \in MhyMeta /\ MhyCabAt(c) \in Nat
    BY <1>1, <1>2 DEF MhyCabType, MhyPlaced
  <2> QED BY <1>2, <2>1, MhyMetaFull, MhyCabMemory
<1>4. Memory(MhyCabTable(cabs))
  BY <1>1, <1>3, MhyCabTableWrites
<1>5. Memory(MhyBlockTable(n, blks, keys))
  <2>1. ASSUME NEW b \in 1 .. d
        PROVE  Memory(MhyBlock(MhyBlockAt(n, b), blks[b], keys[b].extra))
    BY <1>1, <1>2, MhyBlockMemory DEF MhyPlaced
  <2> QED BY <1>1, <2>1, MhyBlockTableWrites
<1>6. /\ beside[1] \in Byte /\ beside[2] \in Byte /\ beside[3] \in Byte /\ beside[4] \in Byte
      /\ 0 \in Nat /\ 1 \in Nat /\ 3 \in Nat /\ MhyCntAt(n) \in Nat
      /\ MhyCntAt(n) + 1 \in Nat /\ MhyCntAt(n) + 3 \in Nat /\ n \in Int /\ d \in Int
  BY <1>1, FourBytes DEF MhyPlaced
<1>7. /\ Memory(BytesAt(1, <<beside[1]>>)) /\ Memory(BytesAt(3, <<beside[2]>>))
      /\ Memory(BytesAt(MhyCntAt(n) + 1, <<beside[3]>>))
      /\ Memory(BytesAt(MhyCntAt(n) + 3, <<beside[4]>>))
  BY <1>6, ByteMemory
<1>8. Memory(shuffleInt(0, n)) /\ Memory(shuffleInt(MhyCntAt(n), d))
  BY <1>6, NumberMemory
<1>9. SoundMhyInner(cabs, blks, beside, keys, n, d)
  BY <1>4, <1>5, <1>7, <1>8 DEF SoundMhyInner
<1> QED BY <1>1, <1>3, <1>9, MhyInnerWrites

\* The outer header of mhy0 is 47 bytes.
LEMMA Mhy0OuterMemory ==
  ASSUME NEW hdr \in HdrType("mhy0"), NEW len \in Small, Room(47)
  PROVE  Memory(Mhy0Outer(hdr, len)) /\ DOMAIN Mhy0Outer(hdr, len) = 0 .. 46
<1>1. hdr.key \in [1 .. 32 -> Byte] /\ hdr.extra \in [1 .. 7 -> Byte] /\ 1 \in 1 .. 7 /\ 32 \in Nat
  BY SMT DEF HdrType
<1>2. hdr.extra[1] \in Byte /\ HeaderSize + 39 \in Int /\ len \in Int /\ Mhy0Magic \in Int
  BY <1>1, SMT DEF Room, Small, Mhy0Magic
<1>3. SubSeq(hdr.extra, 2, 3) \in Seq(Byte)
  <2>1. CutOf(hdr.extra, 7, 2, 3, 2)
    BY <1>1, SMT DEF CutOf
  <2> QED BY <2>1, Cut DEF IsCut
<1>4. 0 \in Nat /\ 4 \in Nat /\ 8 \in Nat /\ 40 \in Nat /\ 44 \in Nat
  BY SMT
<1>5. Memory(BeAt(0, 4, Mhy0Magic)) /\ Memory(LeAt(4, 4, HeaderSize + 39)) /\ Memory(shuffleUint(40, len))
  BY <1>2, <1>4, NumberMemory
<1>6. Memory(BytesAt(8, hdr.key)) /\ Memory(BytesAt(40, <<hdr.extra[1]>>))
  BY <1>1, <1>2, <1>4, BytesMemory, ByteMemory
<1>7. Memory(BytesAt(44, SubSeq(hdr.extra, 2, 3)))
  BY <1>3, <1>4, WritesBytes
<1>8. SoundMhy0Outer(hdr, len)
  BY <1>5, <1>6, <1>7 DEF SoundMhy0Outer
<1> QED BY <1>8, Mhy0OuterWrites

\* The fixed bytes of an mhy1 block are bytes.
LEMMA NewEcMemory ==
  ASSUME NEW at \in Nat
  PROVE  Memory(BytesAt(at, NewEc))
BY NewEcBytes, WritesBytes

\* The outer header of mhy1 is 63 bytes.
LEMMA Mhy1OuterMemory ==
  ASSUME NEW hdr \in HdrType("mhy1"), NEW len \in Small, Room(63)
  PROVE  Memory(Mhy1Outer(hdr, len)) /\ DOMAIN Mhy1Outer(hdr, len) = 0 .. 62
<1>1. /\ hdr.key \in [1 .. 4 -> Byte] /\ hdr.rc4_key \in [1 .. 16 -> Byte]
      /\ hdr.extra \in [1 .. 19 -> Byte] /\ 13 \in 1 .. 19 /\ 4 \in Nat /\ 16 \in Nat
  BY SMT DEF HdrType
<1>2. hdr.extra[13] \in Byte /\ HeaderSize + 55 \in Int /\ len \in Int /\ Mhy1Magic \in Int
  BY <1>1, SMT DEF Room, Small, Mhy1Magic
<1>3. SubSeq(hdr.extra, 1, 12) \in Seq(Byte) /\ SubSeq(hdr.extra, 14, 15) \in Seq(Byte)
  <2>1. CutOf(hdr.extra, 19, 1, 12, 12) /\ CutOf(hdr.extra, 19, 14, 15, 2)
    BY <1>1, SMT DEF CutOf
  <2> QED BY <2>1, Cut DEF IsCut
<1>4. /\ 0 \in Nat /\ 4 \in Nat /\ 8 \in Nat /\ 12 \in Nat /\ 28 \in Nat /\ 44 \in Nat /\ 56 \in Nat
      /\ 60 \in Nat
  BY SMT
<1>5. Memory(BeAt(0, 4, Mhy1Magic)) /\ Memory(LeAt(4, 4, HeaderSize + 55)) /\ Memory(shuffleUint(56, len))
  BY <1>2, <1>4, NumberMemory
<1>6. /\ Memory(BytesAt(8, hdr.key)) /\ Memory(BytesAt(28, hdr.rc4_key))
      /\ Memory(BytesAt(56, <<hdr.extra[13]>>)) /\ Memory(BytesAt(12, NewEc))
  BY <1>1, <1>2, <1>4, BytesMemory, ByteMemory, NewEcMemory
<1>7. /\ Memory(BytesAt(44, SubSeq(hdr.extra, 1, 12)))
      /\ Memory(BytesAt(60, SubSeq(hdr.extra, 14, 15)))
  BY <1>3, <1>4, WritesBytes
<1>8. SoundMhy1Outer(hdr, len)
  BY <1>5, <1>6, <1>7 DEF SoundMhy1Outer
<1> QED BY <1>8, Mhy1OuterWrites

\* The head of an mhy1 block is 28 bytes.
LEMMA Mhy1HeadMemory ==
  ASSUME NEW head \in [1 .. 12 -> Byte]
  PROVE  Memory(Mhy1Head(head)) /\ DOMAIN Mhy1Head(head) = 0 .. 27
<1>1. SubSeq(head, 1, 4) \in Seq(Byte) /\ SubSeq(head, 5, 12) \in Seq(Byte)
  <2>1. CutOf(head, 12, 1, 4, 4) /\ CutOf(head, 12, 5, 12, 8)
    BY SMT DEF CutOf
  <2> QED BY <2>1, Cut DEF IsCut
<1>2. 0 \in Nat /\ 4 \in Nat /\ 20 \in Nat
  BY SMT
<1>3. SoundMhy1Head(head)
  BY <1>1, <1>2, WritesBytes, NewEcMemory DEF SoundMhy1Head
<1> QED BY <1>3, Mhy1HeadWrites

-----------------------------------------------------------------------------
(* encr: extract_encr reads what pack_encr was given.                       *)

\* Sums of bounded lengths are bounded.
LEMMA BeforeBound ==
  ASSUME NEW seq \in Seq(Nat), NEW B \in Nat, \A k \in 1 .. Len(seq) : seq[k] <= B
  PROVE  \A k \in 0 .. Len(seq) : Before(seq, k + 1) <= B * k
<1> DEFINE n == Len(seq)
           G == {k \in 0 .. n : Before(seq, k + 1) <= B * k}
<1>1. /\ n \in Nat /\ \A k \in 1 .. n + 1 : Before(seq, k) \in Nat
      /\ Before(seq, 1) = 0 /\ \A k \in 1 .. n : Before(seq, k + 1) = Before(seq, k) + seq[k]
  BY BeforeFacts
<1>2. \A k \in 1 .. n : seq[k] \in Nat /\ seq[k] <= B
  BY <1>1
<1> HIDE DEF n
<1>3. 0 \in G
  BY <1>1, SMT
<1>4. ASSUME NEW k \in 0 .. n - 1, k \in G PROVE k + 1 \in G
  <2>1. k + 1 \in 1 .. n /\ k + 1 \in 0 .. n /\ k + 1 \in 1 .. n + 1
    BY <1>1, SMT
  <2>2. Before(seq, (k + 1) + 1) = Before(seq, k + 1) + seq[k + 1]
    BY <1>1, <2>1
  <2>3. Before(seq, k + 1) <= B * k /\ Before(seq, k + 1) \in Nat
    BY <1>1, <1>4, <2>1
  <2>4. seq[k + 1] \in Nat /\ seq[k + 1] <= B
    BY <1>2, <2>1
  <2>5. B * (k + 1) = B * k + B /\ B * k \in Nat
    BY <1>1, SMT
  <2>6. Before(seq, (k + 1) + 1) <= B * (k + 1)
    BY <2>2, <2>3, <2>4, <2>5, SMT
  <2> QED BY <2>1, <2>6
<1> HIDE DEF G
<1>5. 0 .. n \subseteq G
  BY <1>1, <1>3, <1>4, UpTo
<1> QED BY <1>5 DEF G, n

EncrMeta    == [name : Names, flag : [1 .. 4 -> Byte]]
EncrCabType == [meta : EncrMeta, blk_off : Small, blk_sz : Small]

EncrGiven(cabs, blks, n, d) ==
  Counts(n, d) /\ cabs \in [1 .. n -> EncrCabType] /\ blks \in [1 .. d -> BlkType]

\* What the lemmas on names want of the cabs.
LEMMA EncrNamed ==
  ASSUME NEW cabs, NEW blks, NEW n, NEW d, EncrGiven(cabs, blks, n, d)
  PROVE  /\ Named(cabs, n) /\ Indexed(blks, d) /\ Len(blks) = d /\ n \in Nat /\ d \in Nat
         /\ DOMAIN cabs = 1 .. n /\ Len(cabs) = n
         /\ \A c \in 1 .. n : cabs[c] \in EncrCabType /\ cabs[c].meta.name \in Names
         /\ \A b \in 1 .. d : blks[b] \in BlkType
<1>1. n \in Nat /\ d \in Nat /\ cabs \in [1 .. n -> EncrCabType] /\ blks \in [1 .. d -> BlkType]
  BY CountsSmall DEF EncrGiven
<1>2. /\ Indexed(cabs, n) /\ Len(cabs) = n /\ Indexed(blks, d) /\ Len(blks) = d
      /\ DOMAIN cabs = 1 .. n /\ \A c \in 1 .. n : cabs[c] \in EncrCabType
      /\ \A b \in 1 .. d : blks[b] \in BlkType
  BY <1>1, Tables
<1>3. \A c \in 1 .. n : cabs[c].meta.name \in Names /\ cabs[c].blk_off \in Small
  BY <1>2 DEF EncrCabType, EncrMeta
<1>4. \A name \in Names : name \in Seq(Byte)
  BY DEF Names
<1>5. Named(cabs, n)
  BY <1>2, <1>3, <1>4, SmallNumbers DEF Named
<1> QED BY <1>1, <1>2, <1>3, <1>5

\* Every name takes up to 256 bytes with its end.
LEMMA NameLensBound ==
  ASSUME NEW cabs, NEW n, Named(cabs, n), \A c \in 1 .. n : cabs[c].meta.name \in Names,
         NEW B \in Nat, \A c \in 1 .. n : Len(cabs[c].meta.name) + 1 <= B
  PROVE  Before(NameLens(cabs), n + 1) \in Nat /\ Before(NameLens(cabs), n + 1) <= B * n
<1>1. /\ NameLens(cabs) \in Seq(Nat) /\ Len(NameLens(cabs)) = n
      /\ \A c \in 1 .. n : NameLens(cabs)[c] = Len(cabs[c].meta.name) + 1
  BY NamesOut
<1>2. n \in Nat
  BY DEF Named, Indexed
<1>3. \A k \in 0 .. n : Before(NameLens(cabs), k + 1) <= B * k
  BY <1>1, BeforeBound
<1>4. \A k \in 1 .. n + 1 : Before(NameLens(cabs), k) \in Nat
  BY <1>1, BeforeFacts
<1>5. n \in 0 .. n /\ n + 1 \in 1 .. n + 1
  BY <1>2, SMT
<1> QED BY <1>3, <1>4, <1>5

\* An encr inner header of the counts and names allowed has a length that can be stored.
LEMMA EncrInnerSmall ==
  ASSUME NEW cabs, NEW blks, NEW n, NEW d, EncrGiven(cabs, blks, n, d)
  PROVE  EncrInnerLen(cabs, blks) \in Small
<1>1. /\ Named(cabs, n) /\ Len(blks) = d /\ Len(cabs) = n
      /\ \A c \in 1 .. n : cabs[c].meta.name \in Names
  BY EncrNamed
<1>2. n \in Nat /\ d \in Nat /\ n <= 256 /\ d <= 16384
  BY CountsSmall DEF EncrGiven
<1>3. \A c \in 1 .. n : Len(cabs[c].meta.name) + 1 <= 256
  <2>1. \A name \in Names : Len(name) + 1 <= 256
    BY SMT DEF Names
  <2> QED BY <1>1, <2>1
<1>4. PICK B \in Nat : B = 256
  BY SMT
<1>5. Before(NameLens(cabs), n + 1) \in Nat /\ Before(NameLens(cabs), n + 1) <= B * n
  BY <1>1, <1>3, <1>4, NameLensBound
<1>6. EncrInnerLen(cabs, blks) = 8 + 10 * d + 20 * ((n + 1) - 1) + Before(NameLens(cabs), n + 1)
  BY <1>1 DEF EncrInnerLen, EncrCabAt
<1> QED BY <1>2, <1>4, <1>5, <1>6, SMT DEF Small, SizeLimit

(* The walk over the cab table, wherever each step of it leads.             *)
Walked(m, n, d, place) ==
  /\ n \in Nat /\ place = [c \in 0 .. n |-> place[c]] /\ place[0] = 8 + 10 * d
  /\ \A c \in 1 .. n : place[c] = place[c - 1] + Strlen(m, place[c - 1] + 20) + 21

\* The walk over the names of encr ends up where each entry is, by the steps it takes.
LEMMA EncrWalks ==
  ASSUME NEW m, NEW n, NEW d, NEW place, Walked(m, n, d, place)
  PROVE  \A c \in 0 .. n : EncrWalk(m, d, n)[c] = place[c]
<1> DEFINE R(u) == u = [c \in 0 .. n |-> IF c = 0 THEN 8 + 10 * d
                                         ELSE u[c - 1] + Strlen(m, u[c - 1] + 20) + 21]
           walk == EncrWalk(m, d, n)
           G == {c \in 0 .. n : walk[c] = place[c]}
<1>0. /\ n \in Nat /\ place = [c \in 0 .. n |-> place[c]] /\ place[0] = 8 + 10 * d
      /\ \A c \in 1 .. n : place[c] = place[c - 1] + Strlen(m, place[c - 1] + 20) + 21
  BY DEF Walked
<1>1. R(place)
  <2>1. \A c \in 0 .. n : c = 0 \/ c \in 1 .. n
    BY <1>0, SMT
  <2>2. \A c \in 0 .. n : place[c] = IF c = 0 THEN 8 + 10 * d
                                     ELSE place[c - 1] + Strlen(m, place[c - 1] + 20) + 21
    BY <1>0, <2>1, Zenon
  <2> QED BY <1>0, <2>2, Zenon
<1>2. walk = CHOOSE u : R(u)
  BY DEF EncrWalk
<1> HIDE DEF walk
<1>3. R(walk)
  <2> HIDE DEF R
  <2> QED BY <1>1, <1>2
<1>4. \A c \in 0 .. n : walk[c] = IF c = 0 THEN 8 + 10 * d
                                  ELSE walk[c - 1] + Strlen(m, walk[c - 1] + 20) + 21
  BY <1>3, Zenon
<1>5. 0 \in G
  <2>1. 0 \in 0 .. n
    BY <1>0, SMT
  <2> QED BY <1>0, <1>4, <2>1, Zenon
<1>6. ASSUME NEW c \in 0 .. n - 1, c \in G PROVE c + 1 \in G
  <2>1. c + 1 \in 0 .. n /\ c + 1 \in 1 .. n /\ c + 1 # 0 /\ (c + 1) - 1 = c
    BY <1>0, SMT
  <2>2. walk[c] = place[c]
    BY <1>6
  <2>3. walk[c + 1] = walk[c] + Strlen(m, walk[c] + 20) + 21
    BY <1>4, <2>1, Zenon
  <2>4. place[c + 1] = place[c] + Strlen(m, place[c] + 20) + 21
    BY <1>0, <2>1, Zenon
  <2> QED BY <2>1, <2>2, <2>3, <2>4
<1> HIDE DEF G
<1>7. 0 .. n \subseteq G
  BY <1>0, <1>5, <1>6, UpTo
<1> QED BY <1>7 DEF G, walk

\* The name and the numbers of an encr cab entry are read as they were written,
\* its flags the other way round.
LEMMA EncrCabReads ==
  ASSUME NEW m, NEW at \in Nat, NEW cab \in EncrCabType, Agrees(m, EncrCab(at, cab))
  PROVE  /\ Strlen(m, at + 20) = Len(cab.meta.name)
         /\ EncrReadCab(m, at).meta.name = cab.meta.name
         /\ EncrReadCab(m, at).meta.flag = Turned(cab.meta.flag)
         /\ EncrReadCab(m, at).blk_off = cab.blk_off /\ EncrReadCab(m, at).blk_sz = cab.blk_sz
<1>1. cab.meta.name \in Names /\ cab.blk_off \in Int32 /\ cab.blk_sz \in Int32
  BY SmallNumbers DEF EncrCabType, EncrMeta
<1>2. NameOut(cab) = cab.meta.name \o <<0>> /\ Len(NameOut(cab)) = Len(cab.meta.name) + 1
  BY <1>1, NameOutEnds
<1>3. Len(cab.meta.name) \in Nat
  BY <1>1 DEF Names
<1>4. Len(NameOut(cab)) \in Nat
  BY <1>2, <1>3, SMT
<1>5. InEncrCab(at, cab, m)
  BY <1>4, EncrCabWrites
<1>6. /\ Agrees(m, BeAt(at, 8, cab.blk_off)) /\ Agrees(m, BeAt(at + 8, 8, cab.blk_sz))
      /\ Agrees(m, BytesAt(at + 20, cab.meta.name \o <<0>>))
  BY <1>2, <1>5 DEF InEncrCab
<1>7. at + 8 \in Nat /\ at + 20 \in Nat
  BY SMT
<1>8. Be64(m, at) = cab.blk_off /\ Be64(m, at + 8) = cab.blk_sz
  BY <1>1, <1>6, <1>7, ReadBe64
<1>9. Strlen(m, at + 20) = Len(cab.meta.name) /\ Name(m, at + 20) = cab.meta.name
  BY <1>1, <1>6, <1>7, NameReads
<1>10. /\ EncrReadCab(m, at).meta.name = Name(m, at + 20)
       /\ EncrReadCab(m, at).meta.flag = Read(m, at + 16, 4)
       /\ EncrReadCab(m, at).blk_off = Be64(m, at) /\ EncrReadCab(m, at).blk_sz = Be64(m, at + 8)
  BY DEF EncrReadCab
<1>11. Read(m, at + 16, 4) = Turned(cab.meta.flag)
  <2> DEFINE f == Turned(cab.meta.flag)
  <2>1. cab.meta.flag \in [1 .. 4 -> Byte]
    BY DEF EncrCabType, EncrMeta
  <2>2. f \in Seq(Byte) /\ Len(f) = 4
    BY <2>1, FourBytes DEF Turned
  <2>3. Agrees(m, BytesAt(at + 16, f))
    BY <1>5 DEF InEncrCab, EncrFlags
  <2>4. at + 16 \in Nat
    BY SMT
  <2> HIDE DEF f
  <2>5. Read(m, at + 16, Len(f)) = f
    BY <2>2, <2>3, <2>4, ReadBytes
  <2> QED BY <2>2, <2>5 DEF f
<1> QED BY <1>8, <1>9, <1>10, <1>11

\* An encr block entry is read as it was written.
LEMMA EncrBlockReads ==
  ASSUME NEW m, NEW at \in Nat, NEW blk \in BlkType, Agrees(m, EncrBlock(at, blk))
  PROVE  EncrReadBlock(m, at) = blk
<1>1. blk.cmp \in Int32 /\ blk.dec \in Int32 /\ blk = [cmp |-> blk.cmp, dec |-> blk.dec]
  BY SmallNumbers DEF BlkType
<1>2. Agrees(m, BeAt(at, 4, blk.dec)) /\ Agrees(m, BeAt(at + 4, 4, blk.cmp))
  BY EncrBlockWrites DEF InEncrBlock
<1>3. at + 4 \in Nat
  BY SMT
<1>4. Be(m, at) = blk.dec /\ Be(m, at + 4) = blk.cmp
  BY <1>1, <1>2, <1>3, ReadBe
<1> QED BY <1>1, <1>4 DEF EncrReadBlock

\* Walking the inner header of encr finds every entry.
LEMMA EncrInnerReads ==
  ASSUME NEW cabs, NEW blks, NEW n, NEW d, EncrGiven(cabs, blks, n, d), NEW m,
         Agrees(m, EncrInner(cabs, blks))
  PROVE  /\ Be(m, 0) = d /\ Be(m, 4 + 10 * d) = n
         /\ \A c \in 1 .. n :
              LET read == EncrReadCab(m, EncrWalk(m, d, n)[c - 1])
              IN  /\ read.meta.name = cabs[c].meta.name
                  /\ read.meta.flag = Turned(cabs[c].meta.flag)
                  /\ read.blk_off = cabs[c].blk_off /\ read.blk_sz = cabs[c].blk_sz
         /\ \A b \in 1 .. d : EncrReadBlock(m, 4 + 10 * (b - 1)) = blks[b]
<1>1. /\ Named(cabs, n) /\ Indexed(blks, d) /\ Len(blks) = d /\ Len(blks) \in Nat
      /\ \A c \in 1 .. n : cabs[c] \in EncrCabType /\ cabs[c].meta.name \in Names
      /\ \A b \in 1 .. d : blks[b] \in BlkType
  BY EncrNamed
<1>2. n \in Int32 /\ d \in Int32 /\ n \in Nat /\ d \in Nat
  BY CountsSmall DEF EncrGiven
<1>3. InEncrInner(cabs, blks, n, d, m)
  BY <1>1, EncrInnerWrites
<1>4. Be(m, 0) = d /\ Be(m, 4 + 10 * d) = n
  <2>1. /\ Agrees(m, BeAt(0, 4, d)) /\ Agrees(m, BeAt(4 + 10 * d, 4, n))
    BY <1>3 DEF InEncrInner
  <2>2. 0 \in Nat /\ 4 + 10 * d \in Nat
    BY <1>2, SMT
  <2> QED BY <1>2, <2>1, <2>2, ReadBe
<1>5. ASSUME NEW b \in 1 .. d PROVE EncrReadBlock(m, 4 + 10 * (b - 1)) = blks[b]
  <2>1. Agrees(m, EncrBlockTable(blks))
    BY <1>3 DEF InEncrInner
  <2>2. Holds(EncrBlockTable(blks), EncrBlock(EncrBlockAt(b), blks[b]))
    BY <1>1, EncrBlockTableWrites
  <2>3. Agrees(m, EncrBlock(EncrBlockAt(b), blks[b]))
    BY <2>1, <2>2, AgreesThrough
  <2>4. EncrBlockAt(b) \in Nat
    BY <1>2, SMT DEF EncrBlockAt
  <2>5. EncrReadBlock(m, EncrBlockAt(b)) = blks[b]
    BY <1>1, <2>3, <2>4, EncrBlockReads
  <2> QED BY <2>5 DEF EncrBlockAt
<1> DEFINE at(c) == EncrCabAt(cabs, blks, c)
<1>6. /\ \A c \in 1 .. n + 1 : at(c) \in Nat
      /\ at(1) = 8 + 10 * d
      /\ \A c \in 1 .. n : at(c + 1) = at(c) + 20 + Len(NameOut(cabs[c]))
  BY <1>1, EncrCabPlaces
<1>7. ASSUME NEW c \in 1 .. n
      PROVE  /\ Strlen(m, at(c) + 20) = Len(cabs[c].meta.name)
             /\ EncrReadCab(m, at(c)).meta.name = cabs[c].meta.name
             /\ EncrReadCab(m, at(c)).meta.flag = Turned(cabs[c].meta.flag)
             /\ EncrReadCab(m, at(c)).blk_off = cabs[c].blk_off
             /\ EncrReadCab(m, at(c)).blk_sz = cabs[c].blk_sz
  <2>1. Agrees(m, EncrCabTable(cabs, blks))
    BY <1>3 DEF InEncrInner
  <2>2. Holds(EncrCabTable(cabs, blks), EncrCab(at(c), cabs[c]))
    BY <1>1, EncrCabTableWrites
  <2>3. Agrees(m, EncrCab(at(c), cabs[c]))
    BY <2>1, <2>2, AgreesThrough
  <2>4. c \in 1 .. n + 1
    BY <1>2, SMT
  <2>5. at(c) \in Nat
    BY <1>6, <2>4
  <2> HIDE DEF at
  <2> QED BY <1>1, <2>3, <2>5, EncrCabReads
<1> DEFINE place == [c \in 0 .. n |-> at(c + 1)]
<1> HIDE DEF at
<1>8. \A c \in 1 .. n : place[c] = place[c - 1] + Strlen(m, place[c - 1] + 20) + 21
  <2> TAKE c \in 1 .. n
  <2>1. c \in 0 .. n /\ c - 1 \in 0 .. n /\ (c - 1) + 1 = c /\ c \in 1 .. n + 1
    BY <1>2, SMT
  <2>2. place[c] = at(c + 1) /\ place[c - 1] = at(c)
    BY <2>1
  <2>3. Len(NameOut(cabs[c])) = Len(cabs[c].meta.name) + 1 /\ Len(cabs[c].meta.name) \in Nat
    <3>1. cabs[c].meta.name \in Names /\ \A name \in Names : Len(name) \in Nat
      BY <1>1, SMT DEF Names
    <3> QED BY <3>1, NameOutEnds
  <2>4. at(c) \in Nat /\ at(c + 1) = at(c) + 20 + Len(NameOut(cabs[c]))
    BY <1>6, <2>1
  <2>5. Strlen(m, at(c) + 20) = Len(cabs[c].meta.name)
    BY <1>7
  <2>6. \A x, y \in Nat : (x + 20) + (y + 1) = (x + y) + 21
    BY SMT
  <2>7. at(c + 1) = (at(c) + Len(cabs[c].meta.name)) + 21
    BY <2>3, <2>4, <2>6
  <2> HIDE DEF place
  <2> QED BY <2>2, <2>5, <2>7
<1>9. place[0] = 8 + 10 * d /\ place = [c \in 0 .. n |-> place[c]]
  <2>1. 0 \in 0 .. n /\ 0 + 1 = 1
    BY <1>2, SMT
  <2>2. place[0] = at(1)
    BY <2>1
  <2> QED BY <1>6, <2>2
<1>10. \A c \in 0 .. n : place[c] = at(c + 1)
  OBVIOUS
<1> HIDE DEF place
<1>11. \A c \in 0 .. n : EncrWalk(m, d, n)[c] = place[c]
  <2>1. Walked(m, n, d, place)
    BY <1>2, <1>8, <1>9 DEF Walked
  <2> QED BY <2>1, EncrWalks
<1>12. \A c \in 1 .. n : EncrWalk(m, d, n)[c - 1] = at(c)
  <2>1. \A c \in 1 .. n : c - 1 \in 0 .. n /\ (c - 1) + 1 = c
    BY <1>2, SMT
  <2> QED BY <1>10, <1>11, <2>1
<1> QED BY <1>4, <1>5, <1>7, <1>12

EncrReads(r, hdr, cabs, blks, n, len) ==
  /\ r.opens /\ r.hdr = [hdr EXCEPT !.cab_cnt = n] /\ DOMAIN r.cabs = 1 .. n
  /\ \A c \in 1 .. n : /\ r.cabs[c].meta.name = cabs[c].meta.name
                       /\ r.cabs[c].meta.flag = Turned(cabs[c].meta.flag)
                       /\ r.cabs[c].blk_off = cabs[c].blk_off /\ r.cabs[c].blk_sz = cabs[c].blk_sz
  /\ r.blks = blks /\ r.data_off = len /\ r.next = len + Sum(Cmps(blks))

EncrOpened(m, hdr, cabs, blks) ==
  /\ Read(m, 0, 5) = EncrMagic /\ Be(m, 13) = HeaderSize /\ Be(m, 17) = EncrInnerLen(cabs, blks)
  /\ Be(m, 21) = hdr.flags /\ Be64(m, 5) = HeaderSize + Sum(Cmps(blks)) + 25

\* The magic of encr is five bytes.
LEMMA EncrMagicBytes == EncrMagic \in [1 .. 5 -> Byte]
BY SMT DEF EncrMagic, Byte

\* The data that follow a header fit into an archive.
DataFits(blks, n) ==
  /\ HeaderSize \in Nat /\ Sum(Cmps(blks)) \in Nat
  /\ HeaderSize + n + Sum(Cmps(blks)) <= SizeLimit

\* The outer header of encr opens to what it was made from.
LEMMA EncrOuterReads ==
  ASSUME NEW hdr \in HdrType("encr"), NEW cabs, NEW blks, NEW n, NEW d,
         EncrGiven(cabs, blks, n, d), DataFits(blks, 25)
  PROVE  EncrOpened(EncrOuter(hdr, cabs, blks), hdr, cabs, blks)
<1> DEFINE m == EncrOuter(hdr, cabs, blks)
<1>1. InEncrOuter(hdr, cabs, blks, m)
  BY AgreesItself, EncrOuterWrites
<1> HIDE DEF m
<1>2. hdr.flags \in Int32
  BY DEF HdrType
<1>3. EncrInnerLen(cabs, blks) \in Int32
  BY EncrInnerSmall, SmallNumbers
<1>4. HeaderSize \in Int32 /\ HeaderSize + Sum(Cmps(blks)) + 25 \in Int32
  BY SMT DEF DataFits, SizeLimit, Int32
<1>5. /\ Agrees(m, BytesAt(0, EncrMagic)) /\ Agrees(m, BeAt(5, 8, HeaderSize + Sum(Cmps(blks)) + 25))
      /\ Agrees(m, BeAt(13, 4, HeaderSize)) /\ Agrees(m, BeAt(17, 4, EncrInnerLen(cabs, blks)))
      /\ Agrees(m, BeAt(21, 4, hdr.flags))
  BY <1>1 DEF InEncrOuter
<1>6. 0 \in Nat /\ 5 \in Nat /\ 13 \in Nat /\ 17 \in Nat /\ 21 \in Nat
  BY SMT
<1>7. Be(m, 13) = HeaderSize
  BY <1>4, <1>5, <1>6, ReadBe
<1>8. Be(m, 17) = EncrInnerLen(cabs, blks)
  BY <1>3, <1>5, <1>6, ReadBe
<1>9. Be(m, 21) = hdr.flags
  BY <1>2, <1>5, <1>6, ReadBe
<1>10. Be64(m, 5) = HeaderSize + Sum(Cmps(blks)) + 25
  BY <1>4, <1>5, <1>6, ReadBe64
<1>11. Read(m, 0, 5) = EncrMagic
  <2>1. IsAt(m, 0, 5, EncrMagic)
    BY <1>5, <1>6, EncrMagicBytes DEF IsAt
  <2> QED BY <2>1, BytesRead
<1> QED BY <1>7, <1>8, <1>9, <1>10, <1>11 DEF EncrOpened, m

\* An encr header is its two fields.
LEMMA EncrHdrAgain ==
  ASSUME NEW hdr \in HdrType("encr"), NEW n
  PROVE  [cab_cnt |-> n, flags |-> hdr.flags] = [hdr EXCEPT !.cab_cnt = n]
<1>1. hdr \in [cab_cnt : Nat, flags : Int32]
  BY DEF HdrType
<1> QED BY <1>1

\* extract_encr reads what pack_encr wrote.
LEMMA EncrPackReads ==
  ASSUME NEW hdr \in HdrType("encr"), Lz4Type(hdr.flags), NEW cabs, NEW keys, NEW blks, NEW n, NEW d,
         EncrGiven(cabs, blks, n, d), DataFits(blks, 25)
  PROVE  EncrReads(EncrRead(EncrPack(hdr, cabs, keys, blks)), hdr, cabs, blks, n, HeaderSize + 25)
<1> DEFINE a == EncrPack(hdr, cabs, keys, blks)
           m == a.inner
           walk == EncrWalk(m, d, n)
<1>1. /\ a.outer = EncrOuter(hdr, cabs, blks) /\ a.inner = EncrInner(cabs, blks)
      /\ a.inner_len = EncrInnerLen(cabs, blks)
  BY DEF EncrPack
<1>2. EncrOpened(a.outer, hdr, cabs, blks)
  BY <1>1, EncrOuterReads
<1>3. Agrees(m, EncrInner(cabs, blks))
  BY <1>1, AgreesItself
<1> HIDE DEF a, m
<1>4. Be(m, 0) = d /\ Be(m, 4 + 10 * d) = n
  BY <1>3, EncrInnerReads
<1>5. /\ \A c \in 1 .. n :
              LET read == EncrReadCab(m, walk[c - 1])
              IN  /\ read.meta.name = cabs[c].meta.name
                  /\ read.meta.flag = Turned(cabs[c].meta.flag)
                  /\ read.blk_off = cabs[c].blk_off /\ read.blk_sz = cabs[c].blk_sz
      /\ \A b \in 1 .. d : EncrReadBlock(m, 4 + 10 * (b - 1)) = blks[b]
  BY <1>3, EncrInnerReads
<1> DEFINE r == EncrRead(a)
<1> HIDE DEF walk
<1>6. /\ r.opens <=> /\ Read(a.outer, 0, 5) = EncrMagic
                     /\ Be(a.outer, 13) = HeaderSize /\ Be(a.outer, 17) = a.inner_len
                     /\ Lz4Type(Be(a.outer, 21))
      /\ r.hdr = [cab_cnt |-> n, flags |-> Be(a.outer, 21)]
      /\ r.cabs = [c \in 1 .. n |-> EncrReadCab(m, walk[c - 1])]
      /\ r.blks = [b \in 1 .. d |-> EncrReadBlock(m, 4 + 10 * (b - 1))]
      /\ r.data_off = Be(a.outer, 13) + 25 /\ r.next = Be64(a.outer, 5)
  BY <1>4, Zenon DEF EncrRead, m, walk
<1> HIDE DEF r
<1>7. r.opens
  BY <1>1, <1>2, <1>6 DEF EncrOpened
<1>8. r.hdr = [hdr EXCEPT !.cab_cnt = n]
  BY <1>2, <1>6, EncrHdrAgain DEF EncrOpened
<1>9. /\ DOMAIN r.cabs = 1 .. n
      /\ \A c \in 1 .. n : /\ r.cabs[c].meta.name = cabs[c].meta.name
                           /\ r.cabs[c].meta.flag = Turned(cabs[c].meta.flag)
                           /\ r.cabs[c].blk_off = cabs[c].blk_off /\ r.cabs[c].blk_sz = cabs[c].blk_sz
  BY <1>5, <1>6
<1>10. r.blks = blks
  <2>1. blks = [b \in 1 .. d |-> blks[b]]
    BY DEF EncrGiven
  <2> QED BY <1>5, <1>6, <2>1
<1>11. r.data_off = HeaderSize + 25 /\ r.next = (HeaderSize + 25) + Sum(Cmps(blks))
  BY <1>2, <1>6, SMT DEF EncrOpened, DataFits
<1> QED BY <1>7, <1>8, <1>9, <1>10, <1>11 DEF EncrReads, r, a

\* What a name is written as.
LEMMA NameOutBytes ==
  ASSUME NEW cab, cab.meta.name \in Names
  PROVE  NameOut(cab) \in Seq(Byte)
<1>1. cab.meta.name \in Seq(Byte)
  BY DEF Names
<1>2. <<0>> \in Seq(Byte)
  BY SMT DEF Byte
<1>3. cab.meta.name \o <<0>> \in Seq(Byte)
  BY <1>1, <1>2, JoinSeq
<1> QED BY <1>3, NameOutEnds

\* An encr cab entry is bytes.
LEMMA EncrCabMemory ==
  ASSUME NEW at \in Nat, NEW cab \in EncrCabType
  PROVE  Memory(EncrCab(at, cab))
<1>1. /\ cab.meta.name \in Names /\ cab.meta.flag \in [1 .. 4 -> Byte]
      /\ cab.blk_off \in Int /\ cab.blk_sz \in Int
  BY SmallNumbers DEF EncrCabType, EncrMeta
<1>2. NameOut(cab) \in Seq(Byte) /\ Len(NameOut(cab)) \in Nat
  BY <1>1, NameOutBytes
<1>3. at + 8 \in Nat /\ at + 16 \in Nat /\ at + 20 \in Nat
  BY SMT
<1>4. Memory(EncrFlags(at + 16, cab.meta.flag))
  <2> DEFINE f == cab.meta.flag
  <2>1. f[1] \in Byte /\ f[2] \in Byte /\ f[3] \in Byte /\ f[4] \in Byte
    BY <1>1, FourBytes
  <2> HIDE DEF f
  <2>2. << f[4], f[3], f[2], f[1] >> \in Seq(Byte)
    BY <2>1
  <2>3. Memory(BytesAt(at + 16, << f[4], f[3], f[2], f[1] >>))
    BY <1>3, <2>2, WritesBytes
  <2> QED BY <2>3 DEF EncrFlags, Turned, f
<1>5. Memory(BeAt(at, 8, cab.blk_off)) /\ Memory(BeAt(at + 8, 8, cab.blk_sz))
  BY <1>1, <1>3, NumberMemory
<1>6. Memory(BytesAt(at + 20, NameOut(cab)))
  BY <1>2, <1>3, WritesBytes
<1>7. SoundEncrCab(at, cab)
  BY <1>4, <1>5, <1>6 DEF SoundEncrCab
<1> QED BY <1>2, <1>7, EncrCabWrites

\* An encr block entry is bytes.
LEMMA EncrBlockMemory ==
  ASSUME NEW at \in Nat, NEW blk \in BlkType
  PROVE  Memory(EncrBlock(at, blk))
<1>1. blk.cmp \in Int /\ blk.dec \in Int /\ at + 4 \in Nat /\ at + 8 \in Nat /\ 3 \in Int
  BY SmallNumbers, SMT DEF BlkType
<1>2. SoundEncrBlock(at, blk)
  BY <1>1, NumberMemory DEF SoundEncrBlock
<1> QED BY <1>2, EncrBlockWrites

\* Both headers of encr are bytes.
LEMMA EncrMemory ==
  ASSUME NEW hdr \in HdrType("encr"), NEW cabs, NEW blks, NEW n, NEW d,
         EncrGiven(cabs, blks, n, d), DataFits(blks, 25)
  PROVE  /\ Memory(EncrOuter(hdr, cabs, blks)) /\ Memory(EncrInner(cabs, blks))
         /\ DOMAIN EncrInner(cabs, blks) = 0 .. EncrInnerLen(cabs, blks) - 1
<1>1. /\ Named(cabs, n) /\ Indexed(blks, d) /\ Len(blks) = d /\ Len(blks) \in Nat
      /\ \A c \in 1 .. n : cabs[c] \in EncrCabType /\ \A b \in 1 .. d : blks[b] \in BlkType
      /\ n \in Nat /\ d \in Nat
  BY EncrNamed
<1>2. Memory(EncrOuter(hdr, cabs, blks))
  <2>1. hdr.flags \in Int
    BY DEF HdrType, Int32
  <2>2. EncrInnerLen(cabs, blks) \in Int
    BY EncrInnerSmall, SmallNumbers
  <2>3. HeaderSize \in Int /\ HeaderSize + Sum(Cmps(blks)) + 25 \in Int
    BY SMT DEF DataFits
  <2>4. 0 \in Nat /\ 5 \in Nat /\ 13 \in Nat /\ 17 \in Nat /\ 21 \in Nat
    BY SMT
  <2>5. Memory(BytesAt(0, EncrMagic))
    BY <2>4, EncrMagicBytes, BytesMemory
  <2>6. SoundEncrOuter(hdr, cabs, blks)
    BY <2>1, <2>2, <2>3, <2>4, <2>5, NumberMemory DEF SoundEncrOuter
  <2> QED BY <2>6, EncrOuterWrites
<1>3. Memory(EncrBlockTable(blks))
  <2>1. ASSUME NEW b \in 1 .. d PROVE Memory(EncrBlock(EncrBlockAt(b), blks[b]))
    <3>1. EncrBlockAt(b) \in Nat
      BY <1>1, SMT DEF EncrBlockAt
    <3>2. blks[b] \in BlkType
      BY DEF EncrGiven
    <3> QED BY <3>1, <3>2, EncrBlockMemory
  <2> QED BY <1>1, <2>1, EncrBlockTableWrites
<1>4. Memory(EncrCabTable(cabs, blks))
  <2>1. ASSUME NEW c \in 1 .. n PROVE Memory(EncrCab(EncrCabAt(cabs, blks, c), cabs[c]))
    <3>1. c \in 1 .. n + 1
      BY <1>1, SMT
    <3>2. EncrCabAt(cabs, blks, c) \in Nat
      BY <1>1, <3>1, EncrCabPlaces
    <3> QED BY <1>1, <3>2, EncrCabMemory
  <2> QED BY <1>1, <2>1, EncrCabTableWrites
<1>5. Memory(BeAt(0, 4, d)) /\ Memory(BeAt(4 + 10 * d, 4, n))
  <2>1. 0 \in Nat /\ 4 + 10 * d \in Nat /\ n \in Int /\ d \in Int
    BY <1>1, SMT
  <2> QED BY <2>1, NumberMemory
<1>6. SoundEncrInner(cabs, blks, n, d)
  BY <1>3, <1>4, <1>5 DEF SoundEncrInner
<1> QED BY <1>1, <1>2, <1>6, EncrInnerWrites

(* With names of usual length the header of encr fits into its buffer.      *)
LEMMA EncrRoom ==
  ASSUME NEW cabs, NEW blks, NEW n, NEW d, EncrGiven(cabs, blks, n, d),
         \A c \in 1 .. n : Len(cabs[c].meta.name) <= 240
  PROVE  EncrInnerLen(cabs, blks) <= 10 * d + 278 * n
<1>1. /\ Named(cabs, n) /\ Len(blks) = d /\ Len(cabs) = n
      /\ \A c \in 1 .. n : cabs[c].meta.name \in Names
  BY EncrNamed
<1>2. n \in Nat /\ d \in Nat /\ n >= 1
  BY CountsSmall DEF EncrGiven
<1>3. \A c \in 1 .. n : Len(cabs[c].meta.name) + 1 <= 241
  <2>1. \A name \in Names : Len(name) <= 240 => Len(name) + 1 <= 241
    BY SMT DEF Names
  <2> QED BY <1>1, <2>1
<1>4. PICK B \in Nat : B = 241
  BY SMT
<1>5. Before(NameLens(cabs), n + 1) \in Nat /\ Before(NameLens(cabs), n + 1) <= B * n
  BY <1>1, <1>3, <1>4, NameLensBound
<1>6. EncrInnerLen(cabs, blks) = 8 + 10 * d + 20 * ((n + 1) - 1) + Before(NameLens(cabs), n + 1)
  BY <1>1 DEF EncrInnerLen, EncrCabAt
<1> QED BY <1>2, <1>4, <1>5, <1>6, SMT

-----------------------------------------------------------------------------
(* blb3: extract_blb3 reads what pack_blb3 was given.                       *)

Blb3Meta    == [name : Names, flag : {0, 1}]
Blb3CabType == [meta : Blb3Meta, blk_off : Small, blk_sz : Small]

Blb3Given(cabs, blks, n, d) ==
  /\ Counts(n, d) /\ cabs \in [1 .. n -> Blb3CabType] /\ blks \in [1 .. d -> BlkType]
  /\ \A b \in 1 .. d : b # d => blks[b].dec = BlockSize
  /\ Sum(Cmps(blks)) \in Nat /\ Blb3Len(cabs, blks) + Sum(Cmps(blks)) <= SizeLimit

\* Cabs of blb3 have names and flags that can be written.
LEMMA Blb3CabsNamed ==
  ASSUME NEW n \in Nat, NEW cabs \in [1 .. n -> Blb3CabType]
  PROVE  Named(cabs, n) /\ Flagged(cabs, n) /\ \A c \in 1 .. n : cabs[c].meta.name \in Names
<1>1. Indexed(cabs, n) /\ Len(cabs) = n /\ \A c \in 1 .. n : cabs[c] \in Blb3CabType
  BY Tables
<1>2. \A c \in 1 .. n : /\ cabs[c].meta.name \in Names /\ cabs[c].blk_off \in Small
                        /\ cabs[c].meta.flag \in {0, 1}
  BY <1>1 DEF Blb3CabType, Blb3Meta
<1>3. \A name \in Names : name \in Seq(Byte)
  BY DEF Names
<1>4. Named(cabs, n)
  BY <1>1, <1>2, <1>3, SmallNumbers DEF Named
<1>5. Flagged(cabs, n)
  BY <1>1, <1>2 DEF Flagged
<1> QED BY <1>2, <1>4, <1>5

\* What is given to pack_blb3, in the terms of the lemmas on its tables.
LEMMA Blb3Named ==
  ASSUME NEW cabs, NEW blks, NEW n, NEW d, Blb3Given(cabs, blks, n, d)
  PROVE  /\ Named(cabs, n) /\ Flagged(cabs, n) /\ Indexed(blks, d) /\ Len(blks) = d /\ Len(cabs) = n
         /\ n \in Nat /\ d \in Nat /\ n >= 1 /\ d >= 1 /\ n <= 256 /\ d <= 16384
         /\ DOMAIN cabs = 1 .. n
         /\ \A c \in 1 .. n : cabs[c] \in Blb3CabType /\ cabs[c].meta.name \in Names
         /\ \A b \in 1 .. d : blks[b] \in BlkType
<1>0. /\ n \in Nat /\ d \in Nat /\ n >= 1 /\ d >= 1 /\ n <= 256 /\ d <= 16384
  BY CountsSmall DEF Blb3Given
<1>1. n \in Nat /\ d \in Nat /\ cabs \in [1 .. n -> Blb3CabType] /\ blks \in [1 .. d -> BlkType]
  BY <1>0 DEF Blb3Given
<1>2. /\ Indexed(cabs, n) /\ Len(cabs) = n /\ Indexed(blks, d) /\ Len(blks) = d
      /\ DOMAIN cabs = 1 .. n /\ \A c \in 1 .. n : cabs[c] \in Blb3CabType
      /\ \A b \in 1 .. d : blks[b] \in BlkType
  BY <1>1, Tables
<1>3. Named(cabs, n) /\ Flagged(cabs, n) /\ \A c \in 1 .. n : cabs[c].meta.name \in Names
  BY <1>1, Blb3CabsNamed
<1> QED BY <1>0, <1>2, <1>3

(* Where a block ends.                                                     *)
LEMMA BlockEnds ==
  ASSUME NEW blks, NEW d, d \in Nat, blks \in [1 .. d -> BlkType]
  PROVE  /\ Cmps(blks) \in Seq(Nat) /\ Len(Cmps(blks)) = d
         /\ \A b \in 1 .. d : BlockEnd(blks, b) \in Nat /\ BlockEnd(blks, b) <= Sum(Cmps(blks))
         /\ Sum(Cmps(blks)) \in Nat
         /\ (d >= 1 => BlockEnd(blks, 1) = blks[1].cmp /\ BlockEnd(blks, d) = Sum(Cmps(blks)))
         /\ \A b \in 2 .. d : BlockEnd(blks, b) = BlockEnd(blks, b - 1) + blks[b].cmp
<1>1. Cmps(blks) \in [1 .. d -> Nat] /\ \A b \in 1 .. d : Cmps(blks)[b] = blks[b].cmp /\ blks[b].cmp \in Nat
  <2>1. DOMAIN blks = 1 .. d /\ \A b \in 1 .. d : blks[b].cmp \in Small
    BY DEF BlkType
  <2> QED BY <2>1, SmallNumbers DEF Cmps
<1>2. Cmps(blks) \in Seq(Nat) /\ Len(Cmps(blks)) = d
  BY <1>1, BytesSeq
<1>3. /\ \A k \in 1 .. d + 1 : Before(Cmps(blks), k) \in Nat
      /\ Before(Cmps(blks), 1) = 0 /\ Before(Cmps(blks), d + 1) = Sum(Cmps(blks))
      /\ \A k \in 1 .. d : Before(Cmps(blks), k + 1) = Before(Cmps(blks), k) + Cmps(blks)[k]
      /\ \A k, l \in 1 .. d + 1 : k <= l => Before(Cmps(blks), k) <= Before(Cmps(blks), l)
  BY <1>2, BeforeFacts
<1>4. \A b \in 1 .. d : b + 1 \in 1 .. d + 1 /\ b + 1 <= d + 1 /\ d + 1 \in 1 .. d + 1
  BY SMT
<1>5. \A b \in 1 .. d : BlockEnd(blks, b) \in Nat /\ BlockEnd(blks, b) <= Sum(Cmps(blks))
  BY <1>3, <1>4 DEF BlockEnd
<1>6. Sum(Cmps(blks)) \in Nat
  <2>1. d + 1 \in 1 .. d + 1
    BY SMT
  <2> QED BY <1>3, <2>1
<1>7. d >= 1 => BlockEnd(blks, 1) = blks[1].cmp /\ BlockEnd(blks, d) = Sum(Cmps(blks))
  <2>1. d >= 1 => 1 \in 1 .. d
    BY SMT
  <2>2. \A x \in Nat : 0 + x = x
    BY SMT
  <2> QED BY <1>1, <1>3, <2>1, <2>2 DEF BlockEnd
<1>8. \A b \in 2 .. d : BlockEnd(blks, b) = BlockEnd(blks, b - 1) + blks[b].cmp
  <2>1. \A b \in 2 .. d : b \in 1 .. d /\ (b - 1) + 1 = b
    BY SMT
  <2> QED BY <1>1, <1>3, <2>1 DEF BlockEnd
<1> QED BY <1>2, <1>5, <1>6, <1>7, <1>8

(* Names come in order, from behind the flag words to the end.              *)
NamesFit(cabs, blks, n, d) ==
  /\ Named(cabs, n) /\ Flagged(cabs, n) /\ n >= 1 /\ d \in Nat /\ Len(blks) = d

NamesFrom(cabs, blks, n, from) ==
  /\ Blb3NameAt(cabs, blks, 1) = from + Len(FlagWords(cabs, blks))
  /\ \A i, j \in 1 .. n + 1 : i <= j => Blb3NameAt(cabs, blks, i) <= Blb3NameAt(cabs, blks, j)
  /\ Blb3NameAt(cabs, blks, n + 1) = Blb3Len(cabs, blks)
  /\ \A c \in 1 .. n + 1 : Blb3NameAt(cabs, blks, c) \in Nat

\* The names of blb3 follow each other without gaps.
LEMMA Blb3NameOrder ==
  ASSUME NEW cabs, NEW blks, NEW n, NEW d, NamesFit(cabs, blks, n, d)
  PROVE  NamesFrom(cabs, blks, n, 88 + 4 * d + 16 * n)
<1>1. Named(cabs, n) /\ Flagged(cabs, n) /\ n >= 1 /\ Len(blks) \in Nat /\ Len(blks) = d
  BY DEF NamesFit
<1>2. Blb3NameAt(cabs, blks, 1) = 88 + 4 * Len(blks) + 16 * n + Len(FlagWords(cabs, blks))
  BY <1>1, Blb3NamePlaces
<1>3. \A i, j \in 1 .. n + 1 : i <= j => Blb3NameAt(cabs, blks, i) <= Blb3NameAt(cabs, blks, j)
  BY <1>1, Blb3NamePlaces
<1>4. Blb3NameAt(cabs, blks, n + 1) = Blb3Len(cabs, blks)
  BY <1>1, Blb3NamePlaces
<1>5. \A c \in 1 .. n + 1 : Blb3NameAt(cabs, blks, c) \in Nat
  BY <1>1, Blb3NamePlaces
<1> QED BY <1>1, <1>2, <1>3, <1>4, <1>5 DEF NamesFrom

\* Every offset and length a blb3 header stores can be stored.
LEMMA Blb3Lens ==
  ASSUME NEW cabs, NEW blks, NEW n, NEW d, Blb3Given(cabs, blks, n, d)
  PROVE  /\ Blb3Len(cabs, blks) \in Small /\ Blb3Len(cabs, blks) - 28 \in Small
         /\ Blb3Len(cabs, blks) + BlockEnd(blks, d) \in Small
         /\ \A b \in 1 .. d : BlockEnd(blks, b) \in Small
         /\ FlagOff(cabs, blks) \in Int32 /\ 4 * d + 20 \in Small /\ n \in Small /\ d \in Small
         /\ \A c \in 1 .. n : /\ Blb3CabAt(cabs, blks, c) \in Nat /\ Blb3CabAt(cabs, blks, c) + 8 \in Nat
                              /\ Blb3CabAt(cabs, blks, c) + 4 \in Nat
                              /\ Blb3NameAt(cabs, blks, c) \in Nat
                              /\ Blb3NameAt(cabs, blks, c) - (Blb3CabAt(cabs, blks, c) + 8) \in Small
         /\ blks[d] \in BlkType /\ Sum(Cmps(blks)) \in Nat
<1>1. /\ Named(cabs, n) /\ Flagged(cabs, n) /\ Len(blks) = d /\ Len(cabs) = n
      /\ n \in Nat /\ d \in Nat /\ n >= 1 /\ d >= 1 /\ n <= 256 /\ d <= 16384
      /\ blks \in [1 .. d -> BlkType] /\ Len(blks) \in Nat
  <2>1. /\ Named(cabs, n) /\ Flagged(cabs, n) /\ Len(blks) = d /\ Len(cabs) = n
        /\ n \in Nat /\ d \in Nat /\ n >= 1 /\ d >= 1 /\ n <= 256 /\ d <= 16384
    BY Blb3Named
  <2> QED BY <2>1 DEF Blb3Given
<1>2. /\ Blb3NameAt(cabs, blks, 1) = 88 + 4 * d + 16 * n + Len(FlagWords(cabs, blks))
      /\ \A i, j \in 1 .. n + 1 : i <= j => Blb3NameAt(cabs, blks, i) <= Blb3NameAt(cabs, blks, j)
      /\ Blb3NameAt(cabs, blks, n + 1) = Blb3Len(cabs, blks)
      /\ \A c \in 1 .. n + 1 : Blb3NameAt(cabs, blks, c) \in Nat
  <2>1. NamesFit(cabs, blks, n, d)
    BY <1>1 DEF NamesFit
  <2>2. NamesFrom(cabs, blks, n, 88 + 4 * d + 16 * n)
    BY <2>1, Blb3NameOrder
  <2> QED BY <2>2 DEF NamesFrom
<1>3. Len(FlagWords(cabs, blks)) \in Nat
  BY <1>1, FlagWordsBytes
<1>4. \A c \in 1 .. n + 1 : /\ Blb3NameAt(cabs, blks, c) \in Nat
                            /\ 88 + 4 * d + 16 * n <= Blb3NameAt(cabs, blks, c)
                            /\ Blb3NameAt(cabs, blks, c) <= Blb3Len(cabs, blks)
  <2>1. ASSUME NEW c \in 1 .. n + 1
        PROVE  /\ 88 + 4 * d + 16 * n <= Blb3NameAt(cabs, blks, c)
               /\ Blb3NameAt(cabs, blks, c) <= Blb3Len(cabs, blks)
    <3>1. 1 \in 1 .. n + 1 /\ n + 1 \in 1 .. n + 1 /\ 1 <= c /\ c <= n + 1
      BY <1>1, SMT
    <3>2. /\ Blb3NameAt(cabs, blks, 1) <= Blb3NameAt(cabs, blks, c)
          /\ Blb3NameAt(cabs, blks, c) <= Blb3Len(cabs, blks)
      BY <1>2, <3>1
    <3>3. Blb3NameAt(cabs, blks, c) \in Nat
      BY <1>2
    <3> QED BY <1>1, <1>2, <1>3, <3>2, <3>3, SMT
  <2> QED BY <1>2, <2>1
<1>5. /\ \A b \in 1 .. d : BlockEnd(blks, b) \in Nat /\ BlockEnd(blks, b) <= Sum(Cmps(blks))
      /\ Sum(Cmps(blks)) \in Nat /\ Blb3Len(cabs, blks) + Sum(Cmps(blks)) <= SizeLimit
  BY <1>1, BlockEnds DEF Blb3Given
<1>6. Blb3Len(cabs, blks) \in Nat /\ Blb3Len(cabs, blks) >= 88
  <2>1. n + 1 \in 1 .. n + 1
    BY <1>1, SMT
  <2>2. Blb3Len(cabs, blks) \in Nat /\ 88 + 4 * d + 16 * n <= Blb3Len(cabs, blks)
    BY <1>2, <1>4, <2>1
  <2> QED BY <1>1, <2>2, SMT
<1>7. Blb3Len(cabs, blks) \in Small /\ Blb3Len(cabs, blks) - 28 \in Small
  BY <1>5, <1>6, SMT DEF Small, SizeLimit
<1>8. \A b \in 1 .. d : /\ BlockEnd(blks, b) \in Small
                        /\ Blb3Len(cabs, blks) + BlockEnd(blks, b) \in Small
  <2> TAKE b \in 1 .. d
  <2>1. BlockEnd(blks, b) \in Nat /\ BlockEnd(blks, b) <= Sum(Cmps(blks))
    BY <1>5
  <2> QED BY <1>5, <1>6, <2>1, SMT DEF Small, SizeLimit
<1>9. d \in 1 .. d /\ n \in Small /\ d \in Small /\ 4 * d + 20 \in Small
  BY <1>1, SMT DEF Small, SizeLimit
<1>10. FlagOff(cabs, blks) \in Int32
  <2>1. 4 * d + 16 * n + 12 \in Int32 /\ -24 \in Int32 /\ -20 \in Int32
    BY <1>1, SMT DEF Int32
  <2> QED BY <1>1, <2>1 DEF FlagOff
<1>11. ASSUME NEW c \in 1 .. n
       PROVE  /\ Blb3CabAt(cabs, blks, c) \in Nat /\ Blb3CabAt(cabs, blks, c) + 8 \in Nat
              /\ Blb3CabAt(cabs, blks, c) + 4 \in Nat
              /\ Blb3NameAt(cabs, blks, c) \in Nat
              /\ Blb3NameAt(cabs, blks, c) - (Blb3CabAt(cabs, blks, c) + 8) \in Small
  <2>1. Blb3CabAt(cabs, blks, c) = 88 + 4 * d + 16 * (c - 1)
    BY <1>1 DEF Blb3CabAt
  <2>2. /\ Blb3NameAt(cabs, blks, c) \in Nat /\ 88 + 4 * d + 16 * n <= Blb3NameAt(cabs, blks, c)
        /\ Blb3NameAt(cabs, blks, c) <= Blb3Len(cabs, blks)
    <3>1. c \in 1 .. n + 1
      BY <1>1, SMT
    <3> QED BY <1>4, <3>1
  <2>3. Blb3Len(cabs, blks) <= SizeLimit
    BY <1>7 DEF Small
  <2> QED BY <1>1, <1>6, <2>1, <2>2, <2>3, SMT DEF Small, SizeLimit
<1> QED BY <1>1, <1>5, <1>7, <1>8, <1>9, <1>10, <1>11

(* The fields of fixed place.                                              *)
LeThere(m, at, n, v) == at \in Nat /\ n \in {4, 8} /\ v \in Int32 /\ Agrees(m, LeAt(at, n, v))

\* A little-endian number that is there is read.
LEMMA LeFound ==
  ASSUME NEW m, NEW at, NEW n, NEW v, LeThere(m, at, n, v)
  PROVE  Le(m, at) = v
<1>1. at \in Nat /\ n \in Nat /\ n >= 4 /\ v \in Int32 /\ Agrees(m, LeAt(at, n, v))
  BY SMT DEF LeThere
<1> QED BY <1>1, ReadLe

Blb3Opened(m, hdr, cabs, blks, n, d) ==
  /\ Be(m, 0) = Blb3Magic /\ Le(m, 4) = Blb3Len(cabs, blks) - 28 /\ Le(m, 8) = hdr.unk0x8
  /\ Read(m, 12, 16) = hdr.key /\ Le(m, 28) = Blb3Len(cabs, blks) + BlockEnd(blks, d)
  /\ Le(m, 32) = blks[d].dec /\ Get(m, 48) = 3 /\ Get(m, 49) = 17 /\ Le(m, 52) = d /\ Le(m, 56) = n
  /\ Le(m, 60) = 24 /\ Le(m, 68) = 4 * d + 20 /\ Le(m, 76) = FlagOff(cabs, blks)

\* The fixed part of a blb3 header is read as it was written.
LEMMA Blb3FixedReads ==
  ASSUME NEW hdr \in HdrType("blb3"), NEW cabs, NEW blks, NEW n, NEW d,
         Blb3Given(cabs, blks, n, d), NEW m, Agrees(m, Blb3Fixed(hdr, cabs, blks))
  PROVE  Blb3Opened(m, hdr, cabs, blks, n, d)
<1> DEFINE len == Blb3Len(cabs, blks)
<1>1. Indexed(blks, d) /\ Len(blks) = d /\ Len(cabs) = n
  BY Blb3Named
<1>2. InBlb3Fixed(hdr, cabs, blks, d, m)
  BY <1>1, Blb3FixedWrites
<1>3. /\ Agrees(m, BeAt(0, 4, Blb3Magic)) /\ Agrees(m, LeAt(4, 4, len - 28))
      /\ Agrees(m, LeAt(8, 4, hdr.unk0x8)) /\ Agrees(m, BytesAt(12, hdr.key))
      /\ Agrees(m, LeAt(28, 4, len + BlockEnd(blks, d))) /\ Agrees(m, LeAt(32, 4, blks[d].dec))
  BY <1>2, Zenon DEF InBlb3Fixed
<1>4. /\ Agrees(m, LeAt(48, 4, Blb3Type)) /\ Agrees(m, LeAt(52, 4, d))
      /\ Agrees(m, LeAt(56, 4, n)) /\ Agrees(m, LeAt(60, 8, 24))
      /\ Agrees(m, LeAt(68, 8, 4 * d + 20)) /\ Agrees(m, LeAt(76, 8, FlagOff(cabs, blks)))
  BY <1>1, <1>2, Zenon DEF InBlb3Fixed
<1>5. /\ len - 28 \in Small /\ len + BlockEnd(blks, d) \in Small /\ blks[d] \in BlkType
      /\ d \in Small /\ n \in Small /\ 4 * d + 20 \in Small /\ FlagOff(cabs, blks) \in Int32
  BY Blb3Lens
<1>6. hdr.unk0x8 \in Int32 /\ hdr.key \in [1 .. 16 -> Byte]
  BY DEF HdrType
<1> HIDE DEF len
<1>7. /\ len - 28 \in Int32 /\ len + BlockEnd(blks, d) \in Int32 /\ blks[d].dec \in Int32
      /\ d \in Int32 /\ n \in Int32 /\ 4 * d + 20 \in Int32
  BY <1>5, SmallNumbers DEF BlkType
<1>8. 24 \in Int32 /\ Blb3Magic \in Int32
  BY SMT DEF Int32, Blb3Magic
<1>9. /\ LeThere(m, 4, 4, len - 28) /\ LeThere(m, 8, 4, hdr.unk0x8)
      /\ LeThere(m, 28, 4, len + BlockEnd(blks, d)) /\ LeThere(m, 32, 4, blks[d].dec)
      /\ LeThere(m, 52, 4, d) /\ LeThere(m, 56, 4, n) /\ LeThere(m, 60, 8, 24)
      /\ LeThere(m, 68, 8, 4 * d + 20) /\ LeThere(m, 76, 8, FlagOff(cabs, blks))
  BY <1>3, <1>4, <1>5, <1>6, <1>7, <1>8 DEF LeThere
<1>10. /\ Le(m, 4) = len - 28 /\ Le(m, 8) = hdr.unk0x8 /\ Le(m, 28) = len + BlockEnd(blks, d)
       /\ Le(m, 32) = blks[d].dec /\ Le(m, 52) = d /\ Le(m, 56) = n /\ Le(m, 60) = 24
       /\ Le(m, 68) = 4 * d + 20 /\ Le(m, 76) = FlagOff(cabs, blks)
  BY <1>9, LeFound
<1>11. Be(m, 0) = Blb3Magic
  <2>1. 0 \in Nat
    BY SMT
  <2> QED BY <1>3, <1>8, <2>1, ReadBe
<1>12. Read(m, 12, 16) = hdr.key
  <2>1. IsAt(m, 12, 16, hdr.key)
    BY <1>3, <1>6 DEF IsAt
  <2> QED BY <2>1, BytesRead
<1>13. Get(m, 48) = 3 /\ Get(m, 49) = 17
  <2>1. DOMAIN LeAt(48, 4, Blb3Type) = 48 .. 51
    BY SMT DEF LeAt
  <2>2. /\ Get(m, 48) = LeAt(48, 4, Blb3Type)[48]
        /\ Get(m, 49) = LeAt(48, 4, Blb3Type)[49]
    <3>1. 48 \in 48 .. 51 /\ 49 \in 48 .. 51
      BY SMT
    <3> QED BY <1>4, <2>1, <3>1, Zenon DEF Agrees
  <2>3. /\ LeAt(48, 4, Blb3Type)[48] = Digit(Blb3Type, 0)
        /\ LeAt(48, 4, Blb3Type)[49] = Digit(Blb3Type, 1)
    BY SMT DEF LeAt
  <2>4. Blb3Type \in Int /\ Blb3Type % 256 = 3 /\ (Blb3Type \div 256) % 256 = 17
    BY SMT DEF Blb3Type
  <2>5. Digit(Blb3Type, 0) = 3 /\ Digit(Blb3Type, 1) = 17
    BY <2>4, Digits DEF IsDigits
  <2> QED BY <2>2, <2>3, <2>5
<1> QED BY <1>10, <1>11, <1>12, <1>13 DEF Blb3Opened, len

(* The block table.                                                        *)
LEMMA Blb3BlockReads ==
  ASSUME NEW cabs, NEW blks, NEW n, NEW d, Blb3Given(cabs, blks, n, d), NEW m,
         Agrees(m, Blb3BlockTable(blks)), Le(m, 32) = blks[d].dec, Get(m, 49) = 17
  PROVE  \A b \in 1 .. d : Blb3ReadBlock(m, 84 + 4 * (b - 1), b, d) = blks[b]
<1>1. Indexed(blks, d) /\ d \in Nat /\ d >= 1 /\ \A b \in 1 .. d : blks[b] \in BlkType
  BY Blb3Named
<1>2. blks \in [1 .. d -> BlkType] /\ \A b \in 1 .. d : b # d => blks[b].dec = BlockSize
  BY DEF Blb3Given
<1>3. /\ BlockEnd(blks, 1) = blks[1].cmp
      /\ \A b \in 2 .. d : BlockEnd(blks, b) = BlockEnd(blks, b - 1) + blks[b].cmp
  BY <1>1, <1>2, BlockEnds
<1>4. \A b \in 1 .. d : Le(m, 84 + 4 * (b - 1)) = BlockEnd(blks, b) /\ BlockEnd(blks, b) \in Nat
  <2> TAKE b \in 1 .. d
  <2>1. Agrees(m, LeAt(Blb3BlockAt(b), 4, BlockEnd(blks, b)))
    <3>1. Holds(Blb3BlockTable(blks), LeAt(Blb3BlockAt(b), 4, BlockEnd(blks, b)))
      BY <1>1, Blb3BlockTableWrites
    <3> QED BY <3>1, AgreesThrough
  <2>2. BlockEnd(blks, b) \in Small
    BY Blb3Lens
  <2>3. 84 + 4 * (b - 1) \in Nat
    BY <1>1, SMT
  <2>4. LeThere(m, 84 + 4 * (b - 1), 4, BlockEnd(blks, b))
    BY <2>1, <2>2, <2>3, SmallNumbers DEF LeThere, Blb3BlockAt
  <2> QED BY <2>2, <2>4, LeFound, SmallNumbers
<1>5. ASSUME NEW b \in 1 .. d
      PROVE  Blb3ReadBlock(m, 84 + 4 * (b - 1), b, d) = blks[b]
  <2> DEFINE at == 84 + 4 * (b - 1)
             r == Blb3ReadBlock(m, at, b, d)
  <2>1. blks[b] = [cmp |-> blks[b].cmp, dec |-> blks[b].dec] /\ blks[b].cmp \in Nat
    BY <1>1, SmallNumbers DEF BlkType
  <2>2. r.cmp = blks[b].cmp
    <3>1. CASE b = 1
      <4>1. Le(m, at) - 0 = BlockEnd(blks, 1) - 0
        BY <1>4, <3>1
      <4>2. \A x \in Nat : x - 0 = x
        BY SMT
      <4> QED BY <1>3, <2>1, <3>1, <4>1, <4>2 DEF Blb3ReadBlock
    <3>2. CASE b # 1
      <4>1. b \in 2 .. d /\ b - 1 \in 1 .. d /\ at - 4 = 84 + 4 * ((b - 1) - 1)
        BY <1>1, <3>2, SMT
      <4>2. /\ Le(m, at) = BlockEnd(blks, b) /\ Le(m, at - 4) = BlockEnd(blks, b - 1)
            /\ BlockEnd(blks, b - 1) \in Nat
        BY <1>4, <4>1
      <4>3. BlockEnd(blks, b) = BlockEnd(blks, b - 1) + blks[b].cmp
        BY <1>3, <4>1
      <4>4. \A x, y \in Nat : (x + y) - x = y
        BY SMT
      <4>5. Le(m, at) - Le(m, at - 4) = blks[b].cmp
        BY <2>1, <4>2, <4>3, <4>4
      <4> HIDE DEF at
      <4> QED BY <3>2, <4>5 DEF Blb3ReadBlock
    <3> QED BY <3>1, <3>2
  <2>3. r.dec = blks[b].dec
    <3>1. CASE b = d
      BY <3>1 DEF Blb3ReadBlock
    <3>2. CASE b # d
      BY <1>2, <3>2, Bits DEF Blb3ReadBlock
    <3> QED BY <3>1, <3>2
  <2>4. r = [cmp |-> r.cmp, dec |-> r.dec]
    BY DEF Blb3ReadBlock
  <2> HIDE DEF r, at
  <2> QED BY <2>1, <2>2, <2>3, <2>4 DEF r, at
<1> QED BY <1>5

(* Where the flags are found.                                              *)
FlagsFound(m, off, cabs) == \A q \in 0 .. 3 : Get(m, off + q) = FlagBytes(cabs)[q + 1]

\* A number that is the first flag word, where the header has it.
CountThere(m, at, cabs, v) ==
  at \in Nat /\ Agrees(m, LeAt(at, 4, v)) /\ FlagsAreCount(cabs, v)

\* A number equal to the first flag word serves as that word wherever the header has it.
LEMMA CountFound ==
  ASSUME NEW m, NEW at, NEW cabs, NEW v, CountThere(m, at, cabs, v)
  PROVE  FlagsFound(m, at, cabs)
<1>1. ASSUME NEW q \in 0 .. 3
      PROVE  Get(m, at + q) = FlagBytes(cabs)[q + 1]
  <2>1. at + q \in at .. at + 4 - 1 /\ (at + q) - at = q /\ q + 1 \in 1 .. 4 /\ (q + 1) - 1 = q
    BY SMT DEF CountThere
  <2>2. LeAt(at, 4, v) = [x \in at .. at + 4 - 1 |-> Digit(v, x - at)]
    BY DEF LeAt
  <2>3. Get(m, at + q) = Digit(v, q)
    BY <2>1, <2>2 DEF CountThere, Agrees
  <2>4. FlagBytes(cabs)[q + 1] = Digit(v, (q + 1) - 1)
    BY <2>1 DEF CountThere, FlagsAreCount
  <2> QED BY <2>1, <2>3, <2>4
<1> QED BY <1>1 DEF FlagsFound

\* The flags of several cabs are in the words.
LEMMA WordsFound ==
  ASSUME NEW m, NEW at \in Nat, NEW cabs, NEW n, Flagged(cabs, n), n >= 1,
         Agrees(m, BytesAt(at, FlagBytes(cabs)))
  PROVE  FlagsFound(m, at, cabs)
<1> DEFINE F == FlagBytes(cabs)
<1>1. F \in Seq(Byte) /\ Len(F) \in Nat /\ Len(F) >= 4
  BY FlagBytesRead
<1>2. \A k \in 1 .. Len(F) : Get(m, at + k - 1) = F[k]
  BY <1>1, ReadBytes
<1> HIDE DEF F
<1>3. \A q \in 0 .. 3 : q + 1 \in 1 .. Len(F) /\ at + (q + 1) - 1 = at + q
  BY <1>1, SMT
<1>4. \A q \in 0 .. 3 : Get(m, at + q) = F[q + 1]
  BY <1>2, <1>3
<1> QED BY <1>4 DEF FlagsFound, F

\* So the first flag word is where the header says, be it a count or a word of its own.
LEMMA FlagsThere ==
  ASSUME NEW m, NEW cabs, NEW blks, NEW n, NEW d, NamesFit(cabs, blks, n, d),
         Agrees(m, LeAt(52, 4, d)), Agrees(m, LeAt(56, 4, n)),
         Agrees(m, BytesAt(88 + 4 * d + 16 * n, FlagWords(cabs, blks)))
  PROVE  FlagsFound(m, FlagOff(cabs, blks) + 76, cabs)
<1>1. /\ Len(blks) = d /\ Len(cabs) = n /\ d \in Nat /\ n \in Nat /\ n >= 1 /\ Flagged(cabs, n)
  BY DEF NamesFit, Named, Indexed
<1>2. CASE FlagsAreCount(cabs, d)
  <2>1. FlagOff(cabs, blks) = -24
    BY <1>1, <1>2 DEF FlagOff
  <2>2. -24 + 76 = 52 /\ 52 \in Nat
    BY SMT
  <2>3. CountThere(m, 52, cabs, d)
    BY <1>2, <2>2 DEF CountThere
  <2> QED BY <2>1, <2>2, <2>3, CountFound
<1>3. CASE ~FlagsAreCount(cabs, d) /\ FlagsAreCount(cabs, n)
  <2>1. FlagOff(cabs, blks) = -20
    BY <1>1, <1>3 DEF FlagOff
  <2>2. -20 + 76 = 56 /\ 56 \in Nat
    BY SMT
  <2>3. CountThere(m, 56, cabs, n)
    BY <1>3, <2>2 DEF CountThere
  <2> QED BY <2>1, <2>2, <2>3, CountFound
<1>4. CASE ~FlagsAreCount(cabs, d) /\ ~FlagsAreCount(cabs, n)
  <2>1. FlagOff(cabs, blks) = 4 * d + 16 * n + 12 /\ FlagWords(cabs, blks) = FlagBytes(cabs)
    BY <1>1, <1>4 DEF FlagOff, FlagWords
  <2>2. (4 * d + 16 * n + 12) + 76 = 88 + 4 * d + 16 * n /\ 88 + 4 * d + 16 * n \in Nat
    BY <1>1, SMT
  <2>3. Agrees(m, BytesAt(88 + 4 * d + 16 * n, FlagBytes(cabs)))
    BY <2>1
  <2> DEFINE at == 88 + 4 * d + 16 * n
  <2> HIDE DEF at
  <2>4. FlagsFound(m, at, cabs)
    BY <1>1, <2>2, <2>3, WordsFound DEF at
  <2> QED BY <2>1, <2>2, <2>4 DEF at
<1> QED BY <1>2, <1>3, <1>4

\* So the flag read for each of the first 32 cabs is its own.
LEMMA FlagReads ==
  ASSUME NEW m, NEW off \in Int, NEW cabs, NEW n, Flagged(cabs, n), n >= 1, FlagsFound(m, off, cabs)
  PROVE  \A c \in 1 .. n : c <= 32 => Blb3ReadFlag(m, off, c) = cabs[c].meta.flag
<1>1. ASSUME NEW c \in 1 .. n, c <= 32
      PROVE  Blb3ReadFlag(m, off, c) = cabs[c].meta.flag
  <2>1. n \in Nat
    BY DEF Flagged, Indexed
  <2>2. /\ (c - 1) \div 8 \in 0 .. 3 /\ (c - 1) \div 32 = 0 /\ (c - 1) % 32 = c - 1
        /\ off + 0 = off
    BY <1>1, <2>1, SMT
  <2>3. Get(m, off + ((c - 1) \div 8)) = FlagBytes(cabs)[(c - 1) \div 8 + 1]
    BY <2>2 DEF FlagsFound
  <2>4. (FlagBytes(cabs)[(c - 1) \div 8 + 1] \div Bit[(c - 1) % 8]) % 2 = cabs[c].meta.flag
    BY FlagBytesRead
  <2>5. off + ((c - 1) \div 32) + (((c - 1) % 32) \div 8) = off + ((c - 1) \div 8)
    BY <2>2
  <2> QED BY <2>3, <2>4, <2>5 DEF Blb3ReadFlag
<1> QED BY <1>1

(* The cab table.                                                          *)
LEMMA Blb3CabReads ==
  ASSUME NEW cabs, NEW blks, NEW n, NEW d, Blb3Given(cabs, blks, n, d), NEW m,
         Agrees(m, Blb3CabTable(cabs, blks)), NEW off
  PROVE  \A c \in 1 .. n :
           LET r == Blb3ReadCab(m, Blb3CabAt(cabs, blks, c), off, c)
           IN  /\ r.meta.name = cabs[c].meta.name /\ r.meta.flag = Blb3ReadFlag(m, off, c)
               /\ r.blk_off = cabs[c].blk_off /\ r.blk_sz = cabs[c].blk_sz
<1>1. /\ Named(cabs, n) /\ Flagged(cabs, n) /\ n >= 1 /\ Len(blks) = d /\ d \in Nat
      /\ \A c \in 1 .. n : cabs[c] \in Blb3CabType /\ cabs[c].meta.name \in Names
  BY Blb3Named
<1>2. Len(blks) \in Nat
  BY <1>1
<1>3. ASSUME NEW c \in 1 .. n
      PROVE  LET r == Blb3ReadCab(m, Blb3CabAt(cabs, blks, c), off, c)
             IN  /\ r.meta.name = cabs[c].meta.name /\ r.meta.flag = Blb3ReadFlag(m, off, c)
                 /\ r.blk_off = cabs[c].blk_off /\ r.blk_sz = cabs[c].blk_sz
  <2> DEFINE at == Blb3CabAt(cabs, blks, c)
             name_at == Blb3NameAt(cabs, blks, c)
             cab == cabs[c]
  <2>1. /\ Holds(Blb3CabTable(cabs, blks), Blb3Cab(at, cab, name_at))
        /\ Blb3CabFits(at, cab, name_at)
    BY <1>1, <1>2, Blb3CabTableWrites
  <2>2. /\ at \in Nat /\ at + 8 \in Nat /\ at + 4 \in Nat /\ name_at \in Nat
        /\ name_at - (at + 8) \in Small
    BY Blb3Lens
  <2>3. cab.blk_off \in Int32 /\ cab.blk_sz \in Int32 /\ cab.meta.name \in Names
    BY <1>1, SmallNumbers DEF Blb3CabType
  <2> HIDE DEF at, name_at, cab
  <2>4. Agrees(m, Blb3Cab(at, cab, name_at))
    BY <2>1, AgreesThrough
  <2>5. InBlb3Cab(at, cab, name_at, m)
    BY <2>1, <2>4, Blb3CabWrites
  <2>6. /\ LeThere(m, at, 4, cab.blk_off) /\ LeThere(m, at + 4, 4, cab.blk_sz)
        /\ LeThere(m, at + 8, 8, name_at - (at + 8))
    BY <2>2, <2>3, <2>5, SmallNumbers DEF InBlb3Cab, LeThere
  <2>7. /\ Le(m, at) = cab.blk_off /\ Le(m, at + 4) = cab.blk_sz
        /\ Le(m, at + 8) = name_at - (at + 8)
    BY <2>6, LeFound
  <2>8. at + 8 + Le(m, at + 8) = name_at
    <3>1. \A x, y \in Nat : x + 8 + (y - (x + 8)) = y
      BY SMT
    <3> QED BY <2>2, <2>7, <3>1
  <2>9. NameOut(cab) = cab.meta.name \o <<0>>
    BY <2>3, NameOutEnds
  <2>10. Agrees(m, BytesAt(name_at, cab.meta.name \o <<0>>))
    BY <2>5, <2>9 DEF InBlb3Cab
  <2>11. Name(m, name_at) = cab.meta.name
    BY <2>2, <2>3, <2>10, NameReads
  <2> QED BY <2>7, <2>8, <2>11 DEF Blb3ReadCab, at, cab
<1> QED BY <1>3

Blb3Reads(r, hdr, cabs, blks, n, len) ==
  /\ r.opens /\ DOMAIN r.cabs = 1 .. n
  /\ r.hdr = [hdr EXCEPT !.cab_cnt = n, !.cmpr_type = 3, !.block_sz_shift = 17]
  /\ \A c \in 1 .. n : /\ r.cabs[c].meta.name = cabs[c].meta.name
                       /\ r.cabs[c].blk_off = cabs[c].blk_off /\ r.cabs[c].blk_sz = cabs[c].blk_sz
                       /\ r.cabs[c].meta.flag \in {0, 1}
                       /\ c <= 32 => r.cabs[c].meta.flag = cabs[c].meta.flag
  /\ r.blks = blks /\ r.data_off = len /\ r.next = len + Sum(Cmps(blks))

\* A blb3 header is its fields, two of which the packer sets.
LEMMA Blb3HdrAgain ==
  ASSUME NEW hdr \in HdrType("blb3"), NEW n
  PROVE  [cab_cnt |-> n, unk0x8 |-> hdr.unk0x8, key |-> hdr.key, cmpr_type |-> 3, block_sz_shift |-> 17]
           = [hdr EXCEPT !.cab_cnt = n, !.cmpr_type = 3, !.block_sz_shift = 17]
<1>1. hdr \in [cab_cnt : Nat, unk0x8 : Int32, key : [1 .. 16 -> Byte],
               cmpr_type : Byte, block_sz_shift : Byte]
  BY DEF HdrType
<1> DEFINE g == [hdr EXCEPT !.cab_cnt = n, !.cmpr_type = 3, !.block_sz_shift = 17]
<1>2. /\ DOMAIN hdr = {"cab_cnt", "unk0x8", "key", "cmpr_type", "block_sz_shift"}
      /\ DOMAIN g = DOMAIN hdr /\ g = [x \in DOMAIN hdr |-> g[x]]
  BY <1>1
<1>3. /\ g.cab_cnt = n /\ g.unk0x8 = hdr.unk0x8 /\ g.key = hdr.key /\ g.cmpr_type = 3
      /\ g.block_sz_shift = 17
  BY <1>2
<1> HIDE DEF g
<1>4. [cab_cnt |-> n, unk0x8 |-> hdr.unk0x8, key |-> hdr.key, cmpr_type |-> 3, block_sz_shift |-> 17] = g
  BY <1>2, <1>3
<1> QED BY <1>4 DEF g

\* A bit is a bit, whatever byte it is taken from.
LEMMA FlagIsBit ==
  ASSUME NEW m, NEW off, NEW c \in Nat, c >= 1, \A x : Get(m, x) \in Byte
  PROVE  Blb3ReadFlag(m, off, c) \in {0, 1}
<1>1. (c - 1) % 8 \in 0 .. 7
  BY SMT
<1>2. PICK r \in 0 .. 7 : (c - 1) % 8 = r
  BY <1>1
<1>3. Bit[r] \in Nat /\ Bit[r] >= 1
  <2>1. r = 0 \/ r = 1 \/ r = 2 \/ r = 3 \/ r = 4 \/ r = 5 \/ r = 6 \/ r = 7
    BY SMT
  <2>2. CASE r = 0 \/ r = 1 \/ r = 2 \/ r = 3
    BY <2>2, Bits, SMT
  <2>3. CASE r = 4 \/ r = 5 \/ r = 6 \/ r = 7
    BY <2>3, Bits, SMT
  <2> QED BY <2>1, <2>2, <2>3
<1>4. \A x \in Byte : \A y \in Nat : y >= 1 => (x \div y) % 2 \in {0, 1}
  BY SMT DEF Byte
<1> QED BY <1>2, <1>3, <1>4 DEF Blb3ReadFlag

(* Every byte that is packed into blb3 is one.                              *)
LEMMA GetsBytes ==
  ASSUME NEW m, Memory(m)
  PROVE  \A x : Get(m, x) \in Byte
BY BytesAssumption DEF Memory, Get

\* A blb3 cab entry is bytes.
LEMMA Blb3CabMemory ==
  ASSUME NEW at, NEW cab \in Blb3CabType, NEW name_at, Blb3CabFits(at, cab, name_at)
  PROVE  Memory(Blb3Cab(at, cab, name_at))
<1>1. cab.meta.name \in Names /\ cab.blk_off \in Int /\ cab.blk_sz \in Int
  BY SmallNumbers DEF Blb3CabType, Blb3Meta
<1>2. /\ at \in Nat /\ at + 4 \in Nat /\ at + 8 \in Nat /\ name_at \in Nat
      /\ name_at - (at + 8) \in Int
  BY SMT DEF Blb3CabFits
<1>3. NameOut(cab) \in Seq(Byte)
  BY <1>1, NameOutBytes
<1>4. Memory(BytesAt(name_at, NameOut(cab)))
  BY <1>2, <1>3, WritesBytes
<1>5. SoundBlb3Cab(at, cab, name_at)
  BY <1>1, <1>2, <1>4, NumberMemory DEF SoundBlb3Cab
<1> QED BY <1>5, Blb3CabWrites

\* The fixed part of a blb3 header is bytes.
LEMMA Blb3FixedMemory ==
  ASSUME NEW hdr \in HdrType("blb3"), NEW cabs, NEW blks, NEW n, NEW d, Blb3Given(cabs, blks, n, d)
  PROVE  Memory(Blb3Fixed(hdr, cabs, blks))
<1> DEFINE len == Blb3Len(cabs, blks)
<1>1. Indexed(blks, d) /\ Len(blks) = d /\ Len(cabs) = n
  BY Blb3Named
<1>2. /\ len - 28 \in Int /\ len + BlockEnd(blks, d) \in Int /\ blks[d].dec \in Int
      /\ d \in Int /\ n \in Int /\ 4 * d + 20 \in Int /\ FlagOff(cabs, blks) \in Int
  <2>1. /\ len - 28 \in Small /\ len + BlockEnd(blks, d) \in Small /\ blks[d] \in BlkType
        /\ d \in Small /\ n \in Small /\ 4 * d + 20 \in Small /\ FlagOff(cabs, blks) \in Int32
    BY Blb3Lens
  <2>2. \A v \in Int32 : v \in Int
    BY DEF Int32
  <2> HIDE DEF len
  <2> QED BY <2>1, <2>2, SmallNumbers DEF BlkType
<1>3. hdr.unk0x8 \in Int /\ hdr.key \in [1 .. 16 -> Byte]
  BY DEF HdrType, Int32
<1>4. /\ 0 \in Nat /\ 4 \in Nat /\ 8 \in Nat /\ 12 \in Nat /\ 16 \in Nat /\ 28 \in Nat /\ 32 \in Nat
      /\ 36 \in Nat /\ 48 \in Nat /\ 52 \in Nat /\ 56 \in Nat /\ 60 \in Nat /\ 68 \in Nat /\ 76 \in Nat
      /\ 0 \in Int /\ 24 \in Int /\ Blb3Magic \in Int /\ Blb3Type \in Int
  BY SMT DEF Blb3Magic, Blb3Type
<1> HIDE DEF len
<1>5. /\ Memory(BeAt(0, 4, Blb3Magic)) /\ Memory(LeAt(4, 4, len - 28)) /\ Memory(LeAt(8, 4, hdr.unk0x8))
      /\ Memory(LeAt(28, 4, len + BlockEnd(blks, d))) /\ Memory(LeAt(32, 4, blks[d].dec))
      /\ Memory(LeAt(36, 12, 0))
  BY <1>2, <1>3, <1>4, NumberMemory
<1>6. /\ Memory(LeAt(48, 4, Blb3Type)) /\ Memory(LeAt(52, 4, d)) /\ Memory(LeAt(56, 4, n))
      /\ Memory(LeAt(60, 8, 24)) /\ Memory(LeAt(68, 8, 4 * d + 20))
      /\ Memory(LeAt(76, 8, FlagOff(cabs, blks)))
  BY <1>2, <1>4, NumberMemory
<1>7. Memory(BytesAt(12, hdr.key))
  BY <1>3, <1>4, BytesMemory
<1>8. SoundBlb3Fixed(hdr, cabs, blks, d)
  BY <1>1, <1>5, <1>6, <1>7, Zenon DEF SoundBlb3Fixed, len
<1> QED BY <1>1, <1>8, Blb3FixedWrites

\* The flag words are bytes at offsets.
LEMMA FlagWordsMemory ==
  ASSUME NEW at \in Nat, NEW cabs, NEW blks, NEW n, Flagged(cabs, n), n >= 1
  PROVE  Memory(BytesAt(at, FlagWords(cabs, blks)))
BY FlagWordsBytes, WritesBytes

\* The whole blb3 header is bytes, without a gap.
LEMMA Blb3Memory ==
  ASSUME NEW hdr \in HdrType("blb3"), NEW cabs, NEW blks, NEW n, NEW d, Blb3Given(cabs, blks, n, d)
  PROVE  /\ Memory(Blb3Outer(hdr, cabs, blks))
         /\ DOMAIN Blb3Outer(hdr, cabs, blks) = 0 .. Blb3Len(cabs, blks) - 1
         /\ Agrees(Blb3Outer(hdr, cabs, blks), Blb3Outer(hdr, cabs, blks))
         /\ InBlb3Outer(hdr, cabs, blks, n, d, Blb3Outer(hdr, cabs, blks))
<1>1. /\ Named(cabs, n) /\ Flagged(cabs, n) /\ n >= 1 /\ Indexed(blks, d) /\ Len(blks) = d
      /\ n \in Nat /\ d \in Nat /\ Len(blks) \in Nat
      /\ \A c \in 1 .. n : cabs[c] \in Blb3CabType
  BY Blb3Named
<1>2. Memory(Blb3Fixed(hdr, cabs, blks))
  BY Blb3FixedMemory
<1>3. Memory(Blb3BlockTable(blks))
  <2>1. ASSUME NEW b \in 1 .. d
        PROVE  Memory(LeAt(Blb3BlockAt(b), 4, BlockEnd(blks, b)))
    <3>1. BlockEnd(blks, b) \in Int
      BY Blb3Lens, SmallNumbers
    <3>2. Blb3BlockAt(b) \in Nat
      BY <1>1, SMT DEF Blb3BlockAt
    <3> QED BY <3>1, <3>2, NumberMemory
  <2> QED BY <1>1, <2>1, Blb3BlockTableWrites
<1>4. Memory(LeAt(84 + 4 * d, 4, 0))
  <2>1. 84 + 4 * d \in Nat /\ 0 \in Int
    BY <1>1, SMT
  <2> QED BY <2>1, NumberMemory
<1>5. Memory(BytesAt(88 + 4 * d + 16 * n, FlagWords(cabs, blks)))
  <2>1. 88 + 4 * d + 16 * n \in Nat
    BY <1>1, SMT
  <2> QED BY <1>1, <2>1, FlagWordsMemory
<1>6. Memory(Blb3CabTable(cabs, blks))
  <2> DEFINE entry(c) == Blb3Cab(Blb3CabAt(cabs, blks, c), cabs[c], Blb3NameAt(cabs, blks, c))
  <2>1. /\ (\A c \in 1 .. n : Memory(entry(c))) => Memory(Blb3CabTable(cabs, blks))
        /\ \A c \in 1 .. n : Blb3CabFits(Blb3CabAt(cabs, blks, c), cabs[c], Blb3NameAt(cabs, blks, c))
    BY <1>1, Blb3CabTableWrites
  <2>2. \A c \in 1 .. n : Memory(entry(c))
    BY <1>1, <2>1, Blb3CabMemory
  <2> QED BY <2>1, <2>2
<1>7. SoundBlb3Outer(hdr, cabs, blks, n, d)
  BY <1>2, <1>3, <1>4, <1>5, <1>6 DEF SoundBlb3Outer
<1>8. Agrees(Blb3Outer(hdr, cabs, blks), Blb3Outer(hdr, cabs, blks))
  BY AgreesItself
<1>9. Memory(Blb3Outer(hdr, cabs, blks))
  BY <1>1, <1>7, Blb3OuterWrites
<1>10. DOMAIN Blb3Outer(hdr, cabs, blks) = 0 .. Blb3Len(cabs, blks) - 1
  BY <1>1, Blb3OuterWrites
<1>11. InBlb3Outer(hdr, cabs, blks, n, d, Blb3Outer(hdr, cabs, blks))
  BY <1>1, <1>8, Blb3OuterWrites
<1> QED BY <1>8, <1>9, <1>10, <1>11

\* extract_blb3 reads what pack_blb3 wrote, the flags of all cabs the words are read for included.
LEMMA Blb3PackReads ==
  ASSUME NEW hdr \in HdrType("blb3"), NEW cabs, NEW keys, NEW blks, NEW n, NEW d,
         Blb3Given(cabs, blks, n, d)
  PROVE  Blb3Reads(Blb3Read(Blb3Pack(hdr, cabs, keys, blks)), hdr, cabs, blks, n, Blb3Len(cabs, blks))
<1> DEFINE a == Blb3Pack(hdr, cabs, keys, blks)
           m == a.outer
           len == Blb3Len(cabs, blks)
           off == FlagOff(cabs, blks) + 76
           r == Blb3Read(a)
<1>1. m = Blb3Outer(hdr, cabs, blks)
  BY DEF Blb3Pack
<1> HIDE DEF a, m
<1>2. InBlb3Outer(hdr, cabs, blks, n, d, m) /\ Memory(m)
  BY <1>1, Blb3Memory
<1>3. /\ Agrees(m, Blb3Fixed(hdr, cabs, blks)) /\ Agrees(m, Blb3BlockTable(blks))
      /\ Agrees(m, BytesAt(88 + 4 * d + 16 * n, FlagWords(cabs, blks)))
      /\ Agrees(m, Blb3CabTable(cabs, blks))
  BY <1>2, Zenon DEF InBlb3Outer
<1>4. Blb3Opened(m, hdr, cabs, blks, n, d)
  BY <1>3, Blb3FixedReads
<1>5. /\ Be(m, 0) = Blb3Magic /\ Le(m, 4) = len - 28 /\ Le(m, 8) = hdr.unk0x8
      /\ Read(m, 12, 16) = hdr.key /\ Le(m, 28) = len + BlockEnd(blks, d)
      /\ Le(m, 32) = blks[d].dec /\ Get(m, 48) = 3 /\ Get(m, 49) = 17 /\ Le(m, 52) = d /\ Le(m, 56) = n
      /\ Le(m, 60) = 24 /\ Le(m, 68) = 4 * d + 20 /\ Le(m, 76) = FlagOff(cabs, blks)
  BY <1>4, Zenon DEF Blb3Opened
<1>6. /\ Named(cabs, n) /\ Flagged(cabs, n) /\ n >= 1 /\ Indexed(blks, d) /\ Len(blks) = d
      /\ Len(cabs) = n /\ n \in Nat /\ d \in Nat /\ d >= 1
  BY Blb3Named
<1>7. FlagsFound(m, off, cabs)
  <2>1. Agrees(m, LeAt(52, 4, d)) /\ Agrees(m, LeAt(56, 4, n))
    BY <1>3, <1>6, Blb3FixedWrites DEF InBlb3Fixed
  <2>2. NamesFit(cabs, blks, n, d)
    BY <1>6 DEF NamesFit
  <2> QED BY <1>3, <2>1, <2>2, FlagsThere
<1>8. off \in Int
  <2>1. FlagOff(cabs, blks) \in Int32
    BY Blb3Lens
  <2> QED BY <2>1, SMT DEF Int32
<1> HIDE DEF off
<1>9. \A c \in 1 .. n : /\ c <= 32 => Blb3ReadFlag(m, off, c) = cabs[c].meta.flag
                        /\ Blb3ReadFlag(m, off, c) \in {0, 1}
  <2>1. \A c \in 1 .. n : c <= 32 => Blb3ReadFlag(m, off, c) = cabs[c].meta.flag
    BY <1>6, <1>7, <1>8, FlagReads
  <2>2. \A c \in 1 .. n : c \in Nat /\ c >= 1
    BY <1>6, SMT
  <2>3. \A x : Get(m, x) \in Byte
    BY <1>2, GetsBytes
  <2> QED BY <2>1, <2>2, <2>3, FlagIsBit
<1> DEFINE at(c) == Blb3CabAt(cabs, blks, c)
<1>10. \A c \in 1 .. n :
         LET q == Blb3ReadCab(m, at(c), off, c)
         IN  /\ q.meta.name = cabs[c].meta.name /\ q.meta.flag = Blb3ReadFlag(m, off, c)
             /\ q.blk_off = cabs[c].blk_off /\ q.blk_sz = cabs[c].blk_sz
  BY <1>3, Blb3CabReads
<1>11. \A b \in 1 .. d : Blb3ReadBlock(m, 84 + 4 * (b - 1), b, d) = blks[b]
  BY <1>3, <1>5, Blb3BlockReads
<1>12. /\ 24 + 60 = 84
       /\ \A c \in 1 .. n : ((4 * d + 20) + 68) + 16 * (c - 1) = at(c)
  BY <1>6, SMT DEF Blb3CabAt
<1> HIDE DEF len, at
<1>13. /\ r.opens <=> Be(m, 0) = Blb3Magic /\ Lz4Type(Get(m, 48))
       /\ r.hdr = [cab_cnt |-> n, unk0x8 |-> hdr.unk0x8, key |-> hdr.key,
                   cmpr_type |-> 3, block_sz_shift |-> 17]
       /\ r.cabs = [c \in 1 .. n |-> Blb3ReadCab(m, ((4 * d + 20) + 68) + 16 * (c - 1), off, c)]
       /\ r.blks = [b \in 1 .. d |-> Blb3ReadBlock(m, (24 + 60) + 4 * (b - 1), b, d)]
       /\ r.data_off = Le(m, 4) + 28 /\ r.next = Le(m, 28)
  BY <1>5 DEF Blb3Read, m, off
<1> HIDE DEF r
<1>14. r.opens
  <2>1. Lz4Type(3)
    BY SMT DEF Lz4Type
  <2> QED BY <1>5, <1>13, <2>1
<1>15. r.hdr = [hdr EXCEPT !.cab_cnt = n, !.cmpr_type = 3, !.block_sz_shift = 17]
  BY <1>13, Blb3HdrAgain, Zenon
<1>16. /\ DOMAIN r.cabs = 1 .. n
       /\ \A c \in 1 .. n : r.cabs[c] = Blb3ReadCab(m, at(c), off, c)
  BY <1>12, <1>13
<1>17. \A c \in 1 .. n : /\ r.cabs[c].meta.name = cabs[c].meta.name
                         /\ r.cabs[c].blk_off = cabs[c].blk_off /\ r.cabs[c].blk_sz = cabs[c].blk_sz
                         /\ r.cabs[c].meta.flag \in {0, 1}
                         /\ c <= 32 => r.cabs[c].meta.flag = cabs[c].meta.flag
  BY <1>9, <1>10, <1>16
<1>18. r.blks = blks
  <2>1. blks = [b \in 1 .. d |-> blks[b]]
    BY DEF Blb3Given
  <2> QED BY <1>11, <1>12, <1>13, <2>1
<1>19. r.data_off = len
  <2>1. len \in Nat
    BY Blb3Lens, SmallNumbers DEF len
  <2>2. \A x \in Nat : (x - 28) + 28 = x
    BY SMT
  <2> QED BY <1>5, <1>13, <2>1, <2>2
<1>20. r.next = len + Sum(Cmps(blks))
  <2>1. BlockEnd(blks, d) = Sum(Cmps(blks))
    BY <1>6, BlockEnds DEF Blb3Given
  <2> QED BY <1>5, <1>13, <2>1
<1> QED BY <1>14, <1>15, <1>16, <1>17, <1>18, <1>19, <1>20 DEF Blb3Reads, r, a, len

\* How long a blb3 header can get.
LEMMA Blb3Room ==
  ASSUME NEW cabs, NEW blks, NEW n, NEW d, Blb3Given(cabs, blks, n, d),
         \A c \in 1 .. n : Len(cabs[c].meta.name) <= 240
  PROVE  Blb3Len(cabs, blks) <= 60 + 4 * d + 16 * n + 28 + 256 * n
<1>1. /\ Named(cabs, n) /\ Flagged(cabs, n) /\ n >= 1 /\ Len(blks) = d /\ Len(cabs) = n
      /\ n \in Nat /\ d \in Nat /\ \A c \in 1 .. n : cabs[c].meta.name \in Names
  BY Blb3Named
<1>2. /\ Before(NameLens(cabs), n + 1) \in Nat /\ Before(NameLens(cabs), n + 1) <= 241 * n
  <2>1. \A name \in Names : Len(name) \in Nat
    BY SMT DEF Names
  <2>2. \A c \in 1 .. n : Len(cabs[c].meta.name) + 1 <= 241
    BY <1>1, <2>1, SMT
  <2>3. 241 \in Nat
    BY SMT
  <2> QED BY <1>1, <2>2, <2>3, NameLensBound
<1>3. Len(FlagWords(cabs, blks)) \in Nat /\ Len(FlagWords(cabs, blks)) <= 15 * n
  <2>1. (n + 31) \div 32 \in Nat /\ 4 * ((n + 31) \div 32) \in Nat /\ 4 * ((n + 31) \div 32) <= 15 * n
    BY <1>1, SMT
  <2>2. Len(FlagBytes(cabs)) = 4 * ((n + 31) \div 32)
    <3>1. FlagBytes(cabs) \in Seq(Byte) /\ DOMAIN FlagBytes(cabs) = 1 .. 4 * ((n + 31) \div 32)
      BY <1>1, FlagBytesRead DEF FlagBytes
    <3> QED BY <2>1, <3>1
  <2>3. CASE FlagWords(cabs, blks) = <<>>
    BY <1>1, <2>3, SMT
  <2>4. CASE FlagWords(cabs, blks) = FlagBytes(cabs)
    BY <2>1, <2>2, <2>4
  <2> QED BY <2>3, <2>4 DEF FlagWords
<1>4. Blb3Len(cabs, blks)
        = 88 + 4 * d + 16 * n + Len(FlagWords(cabs, blks)) + Before(NameLens(cabs), n + 1)
  BY <1>1 DEF Blb3Len, Blb3NameAt
<1> QED BY <1>1, <1>2, <1>3, <1>4, SMT

-----------------------------------------------------------------------------
(* What is read of an archive has its type.                                 *)

Lengths(s, t, k, l) ==
  k \in Nat /\ l \in Nat /\ s \in [1 .. k -> Byte] /\ t \in [1 .. l -> Byte]

\* A concatenation of bytes is bytes.
LEMMA Joined ==
  ASSUME NEW s, NEW t, NEW k, NEW l, Lengths(s, t, k, l)
  PROVE  s \o t \in [1 .. k + l -> Byte]
<1>1. k \in Nat /\ l \in Nat /\ s \in [1 .. k -> Byte] /\ t \in [1 .. l -> Byte]
  BY DEF Lengths
<1>2. s \in Seq(Byte) /\ t \in Seq(Byte) /\ Len(s) = k /\ Len(t) = l
  BY <1>1, BytesSeq
<1>3. s \o t \in Seq(Byte) /\ Len(s \o t) = k + l
  BY <1>2, JoinSeq
<1>4. s \o t \in [1 .. Len(s \o t) -> Byte]
  BY <1>3, SeqFunction
<1> QED BY <1>3, <1>4

\* memcpy of bytes gives bytes.
LEMMA ReadTyped ==
  ASSUME NEW m, \A x : Get(m, x) \in Byte, NEW at, NEW n
  PROVE  Read(m, at, n) \in [1 .. n -> Byte]
BY DEF Read

\* Tuples of bytes are functions to bytes.
LEMMA TuplesTyped ==
  /\ \A a, b, c \in Byte : <<a, b, c>> \in [1 .. 3 -> Byte]
  /\ \A a, b, c, d \in Byte : <<a, b, c, d>> \in [1 .. 4 -> Byte]
  /\ \A a, b, c, d, e \in Byte : <<a, b, c, d, e>> \in [1 .. 5 -> Byte]
<1>1. \A a, b, c \in Byte : <<a, b, c>> \in [1 .. 3 -> Byte]
  BY SMT DEF Byte
<1>2. \A a, b, c, d \in Byte : <<a, b, c, d>> \in [1 .. 4 -> Byte]
  BY SMT DEF Byte
<1>3. \A a, b, c, d, e \in Byte : <<a, b, c, d, e>> \in [1 .. 5 -> Byte]
  BY SMT DEF Byte
<1> QED BY <1>1, <1>2, <1>3

\* What an mhy reader takes from bytes has its type.
LEMMA MhyPartsTyped ==
  ASSUME NEW m, \A x : Get(m, x) \in Byte
  PROVE  /\ \A n : MhyBeside(m, n) \in [1 .. 4 -> Byte]
         /\ \A at : MhyReadExtra(m, at) \in [1 .. 5 -> Byte]
         /\ \A at : MhyReadCab(m, at).meta \in MhyMeta
<1>1. \A n : MhyBeside(m, n) \in [1 .. 4 -> Byte]
  BY TuplesTyped DEF MhyBeside
<1>2. \A at : MhyReadExtra(m, at) \in [1 .. 5 -> Byte]
  BY TuplesTyped DEF MhyReadExtra
<1>3. ASSUME NEW at
      PROVE  MhyReadCab(m, at).meta \in MhyMeta
  <2> DEFINE extra == << Get(m, at + 263), Get(m, at + 265), Get(m, at + 268),
                         Get(m, at + 272), Get(m, at + 273) >>
             name == Read(m, at, 260)
  <2>1. extra \in [1 .. 5 -> Byte]
    BY TuplesTyped
  <2>2. name \in [1 .. 260 -> Byte]
    BY ReadTyped
  <2>3. MhyReadCab(m, at).meta = [name |-> name, flag |-> Get(m, at + 261), extra |-> extra]
    BY DEF MhyReadCab
  <2> HIDE DEF extra, name
  <2> QED BY <2>1, <2>2, <2>3 DEF MhyMeta
<1> QED BY <1>1, <1>2, <1>3

MetaType(f) ==
  CASE f \in MhyFormats -> MhyMeta [] f = "encr" -> EncrMeta [] f = "blb3" -> Blb3Meta

\* A .hdr file; pack_encr takes its block type for the header too.
HdrOk(f, hdr) == hdr \in HdrType(f) /\ (f = "encr" => Lz4Type(hdr.flags))

Typed(f, r) ==
  /\ HdrOk(f, r.hdr) /\ r.hdr.cab_cnt >= 1 /\ DOMAIN r.cabs = 1 .. r.hdr.cab_cnt
  /\ \A c \in DOMAIN r.cabs : r.cabs[c].meta \in MetaType(f)
  /\ f \in MhyFormats => DOMAIN r.keys = DOMAIN r.blks /\ \A b \in DOMAIN r.keys : r.keys[b] \in KeyType

\* The formats, and which reader and which types go with each.
LEMMA FormatNames ==
  /\ MhyFormats = {"mhy0", "mhy1"} /\ Formats = {"mhy0", "mhy1", "encr", "blb3"}
  /\ "mhy0" \in MhyFormats /\ "mhy1" \in MhyFormats /\ "encr" \notin MhyFormats /\ "blb3" \notin MhyFormats
  /\ MetaType("mhy0") = MhyMeta /\ MetaType("mhy1") = MhyMeta
  /\ MetaType("encr") = EncrMeta /\ MetaType("blb3") = Blb3Meta
  /\ \A a : /\ ReadOf("mhy0", a) = Mhy0Read(a) /\ ReadOf("mhy1", a) = Mhy1Read(a)
            /\ ReadOf("encr", a) = EncrRead(a) /\ ReadOf("blb3", a) = Blb3Read(a)
BY DEF MhyFormats, Formats, MetaType, ReadOf

\* What WellFormed says of the memory of an archive and of its cabs and names.
LEMMA WellFormedMemory ==
  ASSUME NEW f \in Formats, NEW a, WellFormed(f, a)
  PROVE  /\ \A x : Get(a.outer, x) \in Byte /\ Get(a.inner, x) \in Byte
         /\ \A b \in DOMAIN a.blocks : \A x : Get(a.blocks[b], x) \in Byte
         /\ ReadOf(f, a).opens /\ 1 \in DOMAIN ReadOf(f, a).cabs
         /\ \A c \in DOMAIN ReadOf(f, a).cabs :
              f \notin MhyFormats => Len(ReadOf(f, a).cabs[c].meta.name) <= 255
         /\ f \in MhyFormats => DOMAIN a.blocks = DOMAIN ReadOf(f, a).blks
<1>1. /\ Memory(a.outer) /\ Memory(a.inner) /\ \A b \in DOMAIN a.blocks : Memory(a.blocks[b])
      /\ ReadOf(f, a).opens /\ 1 \in DOMAIN ReadOf(f, a).cabs
      /\ \A c \in DOMAIN ReadOf(f, a).cabs :
           f \notin MhyFormats => Len(ReadOf(f, a).cabs[c].meta.name) <= 255
      /\ f \in MhyFormats => a.blocks = [b \in DOMAIN ReadOf(f, a).blks |-> a.blocks[b]]
  BY DEF WellFormed
<1>2. f \in MhyFormats => DOMAIN a.blocks = DOMAIN ReadOf(f, a).blks
  BY <1>1
<1> QED BY <1>1, <1>2, GetsBytes

MhyReadFrom(r, m, hdr, heads, opens, sz) ==
  /\ \A x : Get(m, x) \in Byte
  /\ r = MhyRead(m, hdr, heads, opens, sz)
  /\ \A b \in DOMAIN r.blks : heads[b] \in [1 .. 12 -> Byte]

\* What an mhy reader returns of bytes has its types.
LEMMA MhyReadTyped ==
  ASSUME NEW r, NEW m, NEW hdr, NEW heads, NEW opens, NEW sz, MhyReadFrom(r, m, hdr, heads, opens, sz)
  PROVE  /\ r.hdr = hdr /\ r.opens = opens /\ DOMAIN r.cabs = 1 .. hdr.cab_cnt
         /\ \A c \in DOMAIN r.cabs : r.cabs[c].meta \in MhyMeta
         /\ DOMAIN r.keys = DOMAIN r.blks /\ \A b \in DOMAIN r.keys : r.keys[b] \in KeyType
<1> DEFINE n == hdr.cab_cnt
           d == unshuffleInt(m, MhyCntAt(n))
<1>0. /\ \A x : Get(m, x) \in Byte
      /\ r = MhyRead(m, hdr, heads, opens, sz)
      /\ \A b \in DOMAIN r.blks : heads[b] \in [1 .. 12 -> Byte]
  BY DEF MhyReadFrom
<1>1. /\ r.hdr = hdr /\ r.opens = opens
      /\ r.cabs = [c \in 1 .. n |-> MhyReadCab(m, 6 + 275 * (c - 1))]
      /\ r.blks = [b \in 1 .. d |-> MhyReadBlock(m, MhyBlockAt(n, b))]
      /\ r.keys = [b \in 1 .. d |-> [head |-> heads[b], extra |-> MhyReadExtra(m, MhyBlockAt(n, b))]]
  BY <1>0 DEF MhyRead
<1> HIDE DEF d
<1>2. \A c \in DOMAIN r.cabs : r.cabs[c].meta \in MhyMeta
  BY <1>0, <1>1, MhyPartsTyped
<1>3. \A b \in 1 .. d : heads[b] \in [1 .. 12 -> Byte]
  BY <1>0, <1>1
<1>4. \A b \in DOMAIN r.keys : r.keys[b] \in KeyType
  BY <1>0, <1>1, <1>3, MhyPartsTyped DEF KeyType
<1> QED BY <1>1, <1>2, <1>4

\* Whatever a well-formed mhy0 archive holds, what is read from it has its types.
LEMMA Mhy0Typed ==
  ASSUME NEW a, WellFormed("mhy0", a)
  PROVE  Typed("mhy0", Mhy0Read(a))
<1> DEFINE r == Mhy0Read(a)
           n == unshuffleInt(a.inner, 0)
           three == << Get(a.outer, 40), Get(a.outer, 44), Get(a.outer, 45) >>
           hdr == [cab_cnt |-> n, key |-> Read(a.outer, 8, 32), extra |-> three \o MhyBeside(a.inner, n)]
           heads == [b \in DOMAIN a.blocks |-> Read(a.blocks[b], 0, 12)]
           opens == /\ Be(a.outer, 0) = Mhy0Magic
                    /\ Le(a.outer, 4) - 39 = HeaderSize /\ unshuffleUint(a.outer, 40) = a.inner_len
<1>1. /\ \A x : Get(a.outer, x) \in Byte /\ Get(a.inner, x) \in Byte
      /\ \A b \in DOMAIN a.blocks : \A x : Get(a.blocks[b], x) \in Byte
      /\ 1 \in DOMAIN r.cabs /\ DOMAIN a.blocks = DOMAIN r.blks
  <2>1. "mhy0" \in Formats
    BY FormatNames
  <2> QED BY <2>1, FormatNames, WellFormedMemory
<1>2. r = MhyRead(a.inner, hdr, heads, opens, Le(a.outer, 4))
  BY DEF Mhy0Read
<1>3. n \in Int32
  <2>1. 0 \in Nat
    BY SMT
  <2> QED BY <1>1, <2>1, Rewrite
<1>4. Read(a.outer, 8, 32) \in [1 .. 32 -> Byte]
  BY <1>1, ReadTyped
<1>5. three \o MhyBeside(a.inner, n) \in [1 .. 7 -> Byte]
  <2>1. three \in [1 .. 3 -> Byte] /\ MhyBeside(a.inner, n) \in [1 .. 4 -> Byte]
    BY <1>1, TuplesTyped, MhyPartsTyped
  <2> HIDE DEF three
  <2>2. 3 \in Nat /\ 4 \in Nat /\ 3 + 4 = 7
    BY SMT
  <2>3. Lengths(three, MhyBeside(a.inner, n), 3, 4)
    BY <2>1, <2>2 DEF Lengths
  <2> QED BY <2>2, <2>3, Joined
<1>6. \A b \in DOMAIN r.blks : heads[b] \in [1 .. 12 -> Byte]
  BY <1>1, ReadTyped
<1> HIDE DEF r, three, heads, opens
<1>7. hdr.cab_cnt = n
  OBVIOUS
<1>8. 1 \in 1 .. n => n \in Nat /\ n >= 1
  <2> HIDE DEF n
  <2> QED BY <1>3, SMT DEF Int32
<1> HIDE DEF n
<1>9. n \in Nat => hdr \in HdrType("mhy0")
  BY <1>4, <1>5 DEF HdrType
<1> HIDE DEF hdr
<1>10. /\ r.hdr = hdr /\ DOMAIN r.cabs = 1 .. n
       /\ \A c \in DOMAIN r.cabs : r.cabs[c].meta \in MhyMeta
       /\ DOMAIN r.keys = DOMAIN r.blks /\ \A b \in DOMAIN r.keys : r.keys[b] \in KeyType
  <2>1. MhyReadFrom(r, a.inner, hdr, heads, opens, Le(a.outer, 4))
    BY <1>1, <1>2, <1>6 DEF MhyReadFrom
  <2> QED BY <1>7, <2>1, MhyReadTyped
<1>11. n \in Nat /\ n >= 1
  BY <1>1, <1>8, <1>10
<1> QED BY <1>7, <1>9, <1>10, <1>11, FormatNames DEF Typed, HdrOk, r

\* The same of mhy1.
LEMMA Mhy1Typed ==
  ASSUME NEW a, WellFormed("mhy1", a)
  PROVE  Typed("mhy1", Mhy1Read(a))
<1> DEFINE r == Mhy1Read(a)
           n == unshuffleInt(a.inner, 0)
           twelve == Read(a.outer, 44, 12)
           three == << Get(a.outer, 56), Get(a.outer, 60), Get(a.outer, 61) >>
           extra == (twelve \o three) \o MhyBeside(a.inner, n)
           hdr == [cab_cnt |-> n, key |-> Read(a.outer, 8, 4), rc4_key |-> Read(a.outer, 28, 16),
                   extra |-> extra]
           heads == [b \in DOMAIN a.blocks |-> Read(a.blocks[b], 0, 4) \o Read(a.blocks[b], 20, 8)]
           opens == /\ Be(a.outer, 0) = Mhy1Magic
                    /\ Le(a.outer, 4) - 55 = HeaderSize /\ unshuffleUint(a.outer, 56) = a.inner_len
<1>1. /\ \A x : Get(a.outer, x) \in Byte /\ Get(a.inner, x) \in Byte
      /\ \A b \in DOMAIN a.blocks : \A x : Get(a.blocks[b], x) \in Byte
      /\ 1 \in DOMAIN r.cabs /\ DOMAIN a.blocks = DOMAIN r.blks
  <2>1. "mhy1" \in Formats
    BY FormatNames
  <2> QED BY <2>1, FormatNames, WellFormedMemory
<1>2. r = MhyRead(a.inner, hdr, heads, opens, Le(a.outer, 4))
  BY DEF Mhy1Read
<1>3. n \in Int32
  <2>1. 0 \in Nat
    BY SMT
  <2> QED BY <1>1, <2>1, Rewrite
<1>4. Read(a.outer, 8, 4) \in [1 .. 4 -> Byte] /\ Read(a.outer, 28, 16) \in [1 .. 16 -> Byte]
  BY <1>1, ReadTyped
<1>5. extra \in [1 .. 19 -> Byte]
  <2>1. /\ twelve \in [1 .. 12 -> Byte] /\ three \in [1 .. 3 -> Byte]
        /\ MhyBeside(a.inner, n) \in [1 .. 4 -> Byte]
    BY <1>1, ReadTyped, TuplesTyped, MhyPartsTyped
  <2> HIDE DEF three, twelve
  <2>2. 12 \in Nat /\ 3 \in Nat /\ 12 + 3 = 15 /\ 15 \in Nat /\ 4 \in Nat /\ 15 + 4 = 19
    BY SMT
  <2>3. twelve \o three \in [1 .. 15 -> Byte]
    <3>1. Lengths(twelve, three, 12, 3)
      BY <2>1, <2>2 DEF Lengths
    <3> QED BY <2>2, <3>1, Joined
  <2>4. Lengths(twelve \o three, MhyBeside(a.inner, n), 15, 4)
    BY <2>1, <2>2, <2>3 DEF Lengths
  <2>5. extra \in [1 .. 15 + 4 -> Byte]
    BY <2>4, Joined
  <2> QED BY <2>2, <2>5
<1>6. \A b \in DOMAIN r.blks : heads[b] \in [1 .. 12 -> Byte]
  <2> SUFFICES ASSUME NEW b \in DOMAIN a.blocks
               PROVE  Read(a.blocks[b], 0, 4) \o Read(a.blocks[b], 20, 8) \in [1 .. 12 -> Byte]
    BY <1>1
  <2>1. 4 \in Nat /\ 8 \in Nat /\ 4 + 8 = 12
    BY SMT
  <2>2. Lengths(Read(a.blocks[b], 0, 4), Read(a.blocks[b], 20, 8), 4, 8)
    BY <1>1, <2>1, ReadTyped DEF Lengths
  <2> QED BY <2>1, <2>2, Joined
<1> HIDE DEF r, extra, heads, opens
<1>7. hdr.cab_cnt = n
  OBVIOUS
<1>8. 1 \in 1 .. n => n \in Nat /\ n >= 1
  <2> HIDE DEF n
  <2> QED BY <1>3, SMT DEF Int32
<1> HIDE DEF n
<1>9. n \in Nat => hdr \in HdrType("mhy1")
  BY <1>4, <1>5 DEF HdrType
<1> HIDE DEF hdr
<1>10. /\ r.hdr = hdr /\ DOMAIN r.cabs = 1 .. n
       /\ \A c \in DOMAIN r.cabs : r.cabs[c].meta \in MhyMeta
       /\ DOMAIN r.keys = DOMAIN r.blks /\ \A b \in DOMAIN r.keys : r.keys[b] \in KeyType
  <2>1. MhyReadFrom(r, a.inner, hdr, heads, opens, Le(a.outer, 4))
    BY <1>1, <1>2, <1>6 DEF MhyReadFrom
  <2> QED BY <1>7, <2>1, MhyReadTyped
<1>11. n \in Nat /\ n >= 1
  BY <1>1, <1>8, <1>10
<1> QED BY <1>7, <1>9, <1>10, <1>11, FormatNames DEF Typed, HdrOk, r

\* The same of encr.
LEMMA EncrTyped ==
  ASSUME NEW a, WellFormed("encr", a)
  PROVE  Typed("encr", EncrRead(a))
<1> DEFINE r == EncrRead(a)
           m == a.inner
           d == Be(m, 0)
           n == Be(m, 4 + 10 * d)
           walk == EncrWalk(m, d, n)
<1>1. /\ \A x : Get(a.outer, x) \in Byte /\ Get(m, x) \in Byte
      /\ r.opens /\ 1 \in DOMAIN r.cabs
      /\ \A c \in DOMAIN r.cabs : Len(r.cabs[c].meta.name) <= 255
  <2>1. "encr" \in Formats /\ "encr" \notin MhyFormats /\ ReadOf("encr", a) = r
    BY FormatNames
  <2> HIDE DEF r
  <2>2. \A x : Get(a.outer, x) \in Byte /\ Get(a.inner, x) \in Byte
    BY <2>1, WellFormedMemory
  <2>3. ReadOf("encr", a).opens /\ 1 \in DOMAIN ReadOf("encr", a).cabs
    BY <2>1, WellFormedMemory
  <2>4. \A c \in DOMAIN ReadOf("encr", a).cabs : Len(ReadOf("encr", a).cabs[c].meta.name) <= 255
    BY <2>1, WellFormedMemory
  <2> QED BY <2>1, <2>2, <2>3, <2>4
<1>2. /\ r.hdr = [cab_cnt |-> n, flags |-> Be(a.outer, 21)]
      /\ r.cabs = [c \in 1 .. n |-> EncrReadCab(m, walk[c - 1])]
      /\ r.opens => Lz4Type(Be(a.outer, 21))
  BY DEF EncrRead
<1> HIDE DEF r, walk
<1>3. Be(a.outer, 21) \in Int32
  <2>1. 21 \in Nat
    BY SMT
  <2> QED BY <1>1, <2>1, Rewrite
<1>4. n \in Int
  <2>1. \A x0, x1, x2, x3 \in Byte : Number(x0, x1, x2, x3) \in Int
    BY SMT DEF Number, Byte
  <2> QED BY <1>1, <2>1 DEF Be
<1> HIDE DEF n, d
<1>5. n \in Nat /\ n >= 1
  BY <1>1, <1>2, <1>4, SMT
<1>6. \A c \in DOMAIN r.cabs : r.cabs[c].meta \in EncrMeta
  <2> TAKE c \in DOMAIN r.cabs
  <2>1. PICK at : r.cabs[c] = EncrReadCab(m, at)
    BY <1>2
  <2>2. r.cabs[c].meta = [name |-> Name(m, at + 20), flag |-> Read(m, at + 16, 4)]
    BY <2>1 DEF EncrReadCab
  <2>3. Len(Name(m, at + 20)) <= 255
    BY <1>1, <2>2
  <2>4. Name(m, at + 20) \in Names /\ Read(m, at + 16, 4) \in [1 .. 4 -> Byte]
    BY <1>1, <2>3, NameFound, ReadTyped
  <2> QED BY <2>2, <2>4 DEF EncrMeta
<1>7. HdrOk("encr", r.hdr) /\ r.hdr.cab_cnt = n
  BY <1>1, <1>2, <1>3, <1>5 DEF HdrOk, HdrType
<1> QED BY <1>2, <1>5, <1>6, <1>7, FormatNames DEF Typed, r

\* The same of blb3.
LEMMA Blb3Typed ==
  ASSUME NEW a, WellFormed("blb3", a)
  PROVE  Typed("blb3", Blb3Read(a))
<1> DEFINE r == Blb3Read(a)
           m == a.outer
           n == Le(m, 56)
           from == Le(m, 68) + 68
           off == Le(m, 76) + 76
<1>1. /\ \A x : Get(m, x) \in Byte
      /\ r.opens /\ 1 \in DOMAIN r.cabs
      /\ \A c \in DOMAIN r.cabs : Len(r.cabs[c].meta.name) <= 255
  <2>1. "blb3" \in Formats /\ "blb3" \notin MhyFormats /\ ReadOf("blb3", a) = r
    BY FormatNames
  <2> HIDE DEF r
  <2>2. \A x : Get(a.outer, x) \in Byte /\ Get(a.inner, x) \in Byte
    BY <2>1, WellFormedMemory
  <2>3. ReadOf("blb3", a).opens /\ 1 \in DOMAIN ReadOf("blb3", a).cabs
    BY <2>1, WellFormedMemory
  <2>4. \A c \in DOMAIN ReadOf("blb3", a).cabs : Len(ReadOf("blb3", a).cabs[c].meta.name) <= 255
    BY <2>1, WellFormedMemory
  <2> QED BY <2>1, <2>2, <2>3, <2>4
<1>2. /\ r.hdr = [cab_cnt |-> n, unk0x8 |-> Le(m, 8), key |-> Read(m, 12, 16),
                  cmpr_type |-> Get(m, 48), block_sz_shift |-> Get(m, 49)]
      /\ r.cabs = [c \in 1 .. n |-> Blb3ReadCab(m, from + 16 * (c - 1), off, c)]
  BY DEF Blb3Read
<1> HIDE DEF r, from, off
<1>3. Le(m, 8) \in Int32 /\ n \in Int32
  <2>1. 8 \in Nat /\ 56 \in Nat
    BY SMT
  <2> QED BY <1>1, <2>1, Rewrite
<1> HIDE DEF n
<1>4. n \in Nat /\ n >= 1
  BY <1>1, <1>2, <1>3, SMT DEF Int32
<1>5. \A c \in DOMAIN r.cabs : r.cabs[c].meta \in Blb3Meta
  <2> TAKE c \in DOMAIN r.cabs
  <2>1. PICK at : r.cabs[c] = Blb3ReadCab(m, at, off, c)
    BY <1>2
  <2>2. r.cabs[c].meta = [name |-> Name(m, at + 8 + Le(m, at + 8)), flag |-> Blb3ReadFlag(m, off, c)]
    BY <2>1 DEF Blb3ReadCab
  <2>3. Len(Name(m, at + 8 + Le(m, at + 8))) <= 255
    BY <1>1, <2>2
  <2>4. Name(m, at + 8 + Le(m, at + 8)) \in Names
    BY <1>1, <2>3, NameFound
  <2>5. c \in Nat /\ c >= 1
    <3>1. c \in 1 .. n
      BY <1>2
    <3> QED BY <1>4, <3>1, SMT
  <2>6. Blb3ReadFlag(m, off, c) \in {0, 1}
    BY <1>1, <2>5, FlagIsBit
  <2> QED BY <2>2, <2>4, <2>6 DEF Blb3Meta
<1>6. HdrOk("blb3", r.hdr) /\ r.hdr.cab_cnt = n
  <2>1. Read(m, 12, 16) \in [1 .. 16 -> Byte]
    BY <1>1, ReadTyped
  <2> QED BY <1>1, <1>2, <1>3, <1>4, <2>1 DEF HdrOk, HdrType
<1> QED BY <1>2, <1>4, <1>5, <1>6, FormatNames DEF Typed, r

\* The same of every format.
LEMMA WellFormedTyped ==
  ASSUME NEW f \in Formats, NEW a, WellFormed(f, a)
  PROVE  Typed(f, ReadOf(f, a))
BY FormatNames, Mhy0Typed, Mhy1Typed, EncrTyped, Blb3Typed

-----------------------------------------------------------------------------
(* The files that a packer starts from, and what it makes up in their place. *)

FilesTyped ==
  /\ files = [hdr |-> files.hdr, cab |-> files.cab, key |-> files.key]
  /\ files.hdr # <<>> => HdrOk(format, files.hdr[1])
  /\ \A c \in DOMAIN files.cab : files.cab[c] \in MetaType(format)
  /\ Mhy => \A b \in DOMAIN files.key : files.key[b] \in KeyType
  /\ \A c \in DOMAIN size : size[c] \in Nat

SizesThere == 1 \in DOMAIN size /\ 1 .. Hdr.cab_cnt \subseteq DOMAIN size /\ Hdr.cab_cnt >= 1

Ready == format \in Formats /\ FilesTyped /\ SizesThere

\* What the random generator gives has its types.
LEMMA RandomTyped ==
  /\ RandomBytes \in [1 .. 40 -> Byte] /\ RandomName \in [1 .. 36 -> Byte \ {0}] /\ Junk \in Byte
  /\ 217 \in Byte /\ 218 \in Byte /\ 0 \in Byte /\ 1 \in Nat
  /\ <<217, 218, 218, 218>> \in [1 .. 4 -> Byte]
<1>1. 217 \in Byte /\ 218 \in Byte /\ 0 \in Byte /\ 1 \in Nat
  BY SMT DEF Byte
<1> QED BY <1>1, BytesAssumption, TuplesTyped, SMT

\* The first n random bytes.
LEMMA RandomFirst ==
  ASSUME NEW n \in 1 .. 40
  PROVE  SubSeq(RandomBytes, 1, n) \in [1 .. n -> Byte]
<1>1. CutOf(RandomBytes, 40, 1, n, n)
  BY RandomTyped, SMT DEF CutOf
<1>2. IsCut(SubSeq(RandomBytes, 1, n), RandomBytes, 1, n)
  BY <1>1, Cut
<1> QED BY <1>2 DEF IsCut

\* So have the headers the packers make up when there is no file.
LEMMA DefaultsTyped ==
  /\ Mhy0DefaultHdr \in HdrType("mhy0") /\ Mhy1DefaultHdr \in HdrType("mhy1")
  /\ EncrDefaultHdr \in HdrType("encr") /\ Lz4Type(EncrDefaultHdr.flags)
  /\ Blb3DefaultHdr \in HdrType("blb3")
  /\ Mhy0DefaultHdr.cab_cnt = 1 /\ Mhy1DefaultHdr.cab_cnt = 1 /\ EncrDefaultHdr.cab_cnt = 1
  /\ Blb3DefaultHdr.cab_cnt = 1
<1> DEFINE four == <<217, 218, 218, 218>>
<1>1. /\ four \in [1 .. 4 -> Byte] /\ 0 \in Byte /\ 1 \in Nat
      /\ SubSeq(RandomBytes, 1, 28) \in [1 .. 28 -> Byte]
      /\ SubSeq(RandomBytes, 1, 8) \in [1 .. 8 -> Byte]
      /\ SubSeq(RandomBytes, 1, 16) \in [1 .. 16 -> Byte]
  <2>1. 28 \in 1 .. 40 /\ 8 \in 1 .. 40 /\ 16 \in 1 .. 40
    BY SMT
  <2> QED BY <2>1, RandomTyped, RandomFirst
<1>2. \A n : [x \in 1 .. n |-> 0] \in [1 .. n -> Byte]
  BY <1>1
<1> HIDE DEF four
<1>3. four \o SubSeq(RandomBytes, 1, 28) \in [1 .. 32 -> Byte]
  <2>1. 4 \in Nat /\ 28 \in Nat /\ 4 + 28 = 32
    BY SMT
  <2>2. Lengths(four, SubSeq(RandomBytes, 1, 28), 4, 28)
    BY <1>1, <2>1 DEF Lengths
  <2>3. four \o SubSeq(RandomBytes, 1, 28) \in [1 .. 4 + 28 -> Byte]
    BY <2>2, Joined
  <2> QED BY <2>1, <2>3
<1>4. SubSeq(RandomBytes, 1, 8) \o [x \in 1 .. 8 |-> 0] \in [1 .. 16 -> Byte]
  <2>1. 8 \in Nat /\ 8 + 8 = 16
    BY SMT
  <2>2. Lengths(SubSeq(RandomBytes, 1, 8), [x \in 1 .. 8 |-> 0], 8, 8)
    BY <1>1, <1>2, <2>1 DEF Lengths
  <2> QED BY <2>1, <2>2, Joined
<1>5. Mhy0DefaultHdr \in HdrType("mhy0") /\ Mhy0DefaultHdr.cab_cnt = 1
  BY <1>1, <1>2, <1>3 DEF Mhy0DefaultHdr, HdrType, four
<1>6. Mhy1DefaultHdr \in HdrType("mhy1") /\ Mhy1DefaultHdr.cab_cnt = 1
  BY <1>1, <1>2, <1>4 DEF Mhy1DefaultHdr, HdrType, four
<1>7. /\ EncrDefaultHdr \in HdrType("encr") /\ Lz4Type(EncrDefaultHdr.flags)
      /\ EncrDefaultHdr.cab_cnt = 1
  <2>1. 67 \in Int32 /\ 67 % 64 \in {2, 3, 5}
    BY SMT DEF Int32
  <2> QED BY <1>1, <2>1 DEF EncrDefaultHdr, HdrType, Lz4Type
<1>8. Blb3DefaultHdr \in HdrType("blb3") /\ Blb3DefaultHdr.cab_cnt = 1
  <2>1. 5 \in Int32
    BY SMT DEF Int32
  <2> QED BY <1>1, <2>1 DEF Blb3DefaultHdr, HdrType
<1> QED BY <1>5, <1>6, <1>7, <1>8

\* The header a packer uses, read or made up, has its type.
LEMMA HdrTyped ==
  ASSUME format \in Formats, FilesTyped
  PROVE  HdrOk(format, Hdr) /\ (files.hdr = <<>> => Hdr.cab_cnt = 1)
<1>1. HdrOk(format, DefaultHdr) /\ DefaultHdr.cab_cnt = 1
  <2>1. CASE format = "mhy0"
    BY <2>1, DefaultsTyped DEF DefaultHdr, HdrOk
  <2>2. CASE format = "mhy1"
    BY <2>2, DefaultsTyped DEF DefaultHdr, HdrOk
  <2>3. CASE format = "encr"
    BY <2>3, DefaultsTyped DEF DefaultHdr, HdrOk
  <2>4. CASE format = "blb3"
    BY <2>4, DefaultsTyped DEF DefaultHdr, HdrOk
  <2> QED BY <2>1, <2>2, <2>3, <2>4, FormatNames
<1> QED BY <1>1 DEF Hdr, FilesTyped

\* So has the meta data of every cab.
LEMMA MetaTyped ==
  ASSUME format \in Formats, FilesTyped
  PROVE  \A c : Meta(c) \in MetaType(format)
<1>1. DefaultMeta \in MetaType(format)
  <2>1. CASE format \in MhyFormats
    <3> DEFINE name == [x \in 1 .. 260 |-> IF x <= 36 THEN RandomName[x] ELSE IF x = 37 THEN 0 ELSE Junk]
               extra == [x \in 1 .. 5 |-> 0]
    <3>1. \A x \in 1 .. 260 : x <= 36 => x \in 1 .. 36
      BY SMT
    <3>2. name \in [1 .. 260 -> Byte] /\ extra \in [1 .. 5 -> Byte]
      BY <3>1, RandomTyped
    <3>3. DefaultMeta = [name |-> name, flag |-> 0, extra |-> extra]
      BY <2>1, FormatNames DEF DefaultMeta
    <3>4. MetaType(format) = MhyMeta
      BY <2>1, FormatNames
    <3> HIDE DEF name, extra
    <3> QED BY <3>2, <3>3, <3>4, RandomTyped DEF MhyMeta
  <2>2. RandomName \in Names
    <3>1. RandomName \in Seq(Byte \ {0}) /\ Len(RandomName) = 36
      <4>1. 36 \in Nat
        BY SMT
      <4> QED BY <4>1, RandomTyped, BytesSeq
    <3>2. 36 <= 255
      BY SMT
    <3> QED BY <3>1, <3>2 DEF Names
  <2>3. CASE format = "encr"
    <3>1. DefaultMeta = [name |-> RandomName, flag |-> <<0, 0, 0, 0>>]
      BY <2>3, FormatNames DEF DefaultMeta
    <3>2. <<0, 0, 0, 0>> \in [1 .. 4 -> Byte]
      BY RandomTyped, TuplesTyped
    <3> QED BY <2>2, <2>3, <3>1, <3>2, FormatNames DEF EncrMeta
  <2>4. CASE format = "blb3"
    <3>1. DefaultMeta = [name |-> RandomName, flag |-> 0]
      BY <2>4, FormatNames DEF DefaultMeta
    <3> QED BY <2>2, <2>4, <3>1, FormatNames DEF Blb3Meta
  <2> QED BY <2>1, <2>3, <2>4, FormatNames
<1> QED BY <1>1 DEF Meta, FilesTyped

\* And the key of every block.
LEMMA KeyTyped ==
  ASSUME FilesTyped, Mhy
  PROVE  \A b \in Nat : Key(b) \in KeyType
<1>1. \A b \in Nat : MhyDefaultKey(b) \in KeyType
  <2> TAKE b \in Nat
  <2> DEFINE four == [x \in 1 .. 4 |-> Digit(b - 1 - 623191334, x - 1)]
             eight == SubSeq(RandomBytes, 1, 8)
  <2>1. b - 1 - 623191334 \in Int /\ \A x \in 1 .. 4 : x - 1 \in 0 .. 11
    BY SMT
  <2>2. four \in [1 .. 4 -> Byte]
    BY <2>1, DigitBytes
  <2>3. eight \in [1 .. 8 -> Byte]
    <3>1. 8 \in 1 .. 40
      BY SMT
    <3> QED BY <3>1, RandomFirst
  <2> HIDE DEF four, eight
  <2>4. four \o eight \in [1 .. 12 -> Byte]
    <3>1. 4 \in Nat /\ 8 \in Nat /\ 4 + 8 = 12
      BY SMT
    <3>2. Lengths(four, eight, 4, 8)
      BY <2>2, <2>3, <3>1 DEF Lengths
    <3> QED BY <3>1, <3>2, Joined
  <2>5. [x \in 1 .. 5 |-> 0] \in [1 .. 5 -> Byte]
    BY RandomTyped
  <2>6. MhyDefaultKey(b) = [head |-> four \o eight, extra |-> [x \in 1 .. 5 |-> 0]]
    BY DEF MhyDefaultKey, four, eight
  <2> QED BY <2>4, <2>5, <2>6 DEF KeyType
<1> QED BY <1>1 DEF Key, FilesTyped

(* The cabs that are packed.                                               *)
CabType(f) == [meta : MetaType(f), blk_off : Small, blk_sz : Small]
CabCount   == Min({Hdr.cab_cnt, 256})
CabSizesOf == [c \in 1 .. CabCount |-> size[c]]

\* The limit on sizes is 16384 full blocks less one byte.
LEMMA Limit == SizeLimit \in Nat /\ SizeLimit >= 131072 /\ SizeLimit + 1 = 131072 * 16384
BY SMT DEF SizeLimit

\* What pack_* is asked to pack fits into an archive.
CabsFit == Ready /\ Sum(Sizes(Cabs)) \in 1 .. SizeLimit

\* How many cabs a packer takes.
LEMMA CountThose ==
  ASSUME Ready
  PROVE  /\ CabCount \in 1 .. 256 /\ Hdr.cab_cnt \in Nat
         /\ (Hdr.cab_cnt <= 256 => CabCount = Hdr.cab_cnt)
         /\ \A c \in 1 .. CabCount : c \in DOMAIN size /\ size[c] \in Nat
<1>1. Hdr.cab_cnt \in Nat /\ Hdr.cab_cnt >= 1 /\ 1 .. Hdr.cab_cnt \subseteq DOMAIN size
      /\ \A c \in DOMAIN size : size[c] \in Nat
  <2>1. HdrOk(format, Hdr)
    BY HdrTyped DEF Ready
  <2>2. \A f \in Formats : \A h \in HdrType(f) : h.cab_cnt \in Nat
    <3>1. ASSUME NEW h \in HdrType("mhy0") PROVE h.cab_cnt \in Nat
      BY DEF HdrType
    <3>2. ASSUME NEW h \in HdrType("mhy1") PROVE h.cab_cnt \in Nat
      BY DEF HdrType
    <3>3. ASSUME NEW h \in HdrType("encr") PROVE h.cab_cnt \in Nat
      BY DEF HdrType
    <3>4. ASSUME NEW h \in HdrType("blb3") PROVE h.cab_cnt \in Nat
      BY DEF HdrType
    <3> QED BY <3>1, <3>2, <3>3, <3>4, FormatNames
  <2> QED BY <2>1, <2>2 DEF HdrOk, Ready, SizesThere, FilesTyped
<1>2. CabCount = IF Hdr.cab_cnt <= 256 THEN Hdr.cab_cnt ELSE 256
  <2>1. Hdr.cab_cnt \in Int /\ 256 \in Int
    BY <1>1, SMT
  <2> QED BY <2>1, MinOfTwo DEF CabCount
<1>3. CabCount \in 1 .. 256 /\ CabCount <= Hdr.cab_cnt
  BY <1>1, <1>2, SMT
<1>4. \A c \in 1 .. CabCount : c \in 1 .. Hdr.cab_cnt
  BY <1>1, <1>3, SMT
<1> QED BY <1>1, <1>2, <1>3, <1>4

\* The cabs it lays out, field by field.
LEMMA CabsAre ==
  ASSUME Ready
  PROVE  /\ DOMAIN Cabs = 1 .. CabCount /\ Sizes(Cabs) = CabSizesOf
         /\ \A c \in 1 .. CabCount :
              Cabs[c] = [meta |-> Meta(c), blk_off |-> Before(CabSizesOf, c), blk_sz |-> size[c]]
         /\ CabSizesOf \in [1 .. CabCount -> Nat] /\ CabSizesOf \in Seq(Nat) /\ Len(CabSizesOf) = CabCount
         /\ Cabs = [c \in 1 .. CabCount |-> Cabs[c]]
<1>1. Cabs = [c \in 1 .. CabCount |->
                [meta |-> Meta(c), blk_off |-> Before(CabSizesOf, c), blk_sz |-> size[c]]]
  BY DEF Cabs, CabCount, CabSizesOf
<1>2. Sizes(Cabs) = CabSizesOf
  BY <1>1 DEF Sizes, CabSizesOf
<1>3. CabSizesOf \in [1 .. CabCount -> Nat] /\ CabCount \in Nat
  BY CountThose DEF CabSizesOf
<1>4. CabSizesOf \in Seq(Nat) /\ Len(CabSizesOf) = CabCount
  BY <1>3, BytesSeq
<1> QED BY <1>1, <1>2, <1>3, <1>4

\* They have their type.
LEMMA CabsTyped ==
  ASSUME CabsFit
  PROVE  Cabs \in [1 .. CabCount -> CabType(format)]
<1>1. Ready /\ Sum(CabSizesOf) \in 1 .. SizeLimit /\ format \in Formats /\ FilesTyped
  BY CabsAre DEF CabsFit, Ready
<1>2. CabSizesOf \in Seq(Nat) /\ Len(CabSizesOf) = CabCount /\ CabCount \in Nat
  <2>1. \A n \in 1 .. 256 : n \in Nat
    BY SMT
  <2> QED BY <1>1, <2>1, CabsAre, CountThose
<1>3. ASSUME NEW c \in 1 .. CabCount
      PROVE  Before(CabSizesOf, c) \in Small /\ size[c] \in Small
  <2>1. c \in 1 .. CabCount + 1 /\ c + 1 \in 1 .. CabCount + 1 /\ CabCount + 1 \in 1 .. CabCount + 1
        /\ c + 1 <= CabCount + 1
    BY <1>2, SMT
  <2>2. /\ Before(CabSizesOf, c) \in Nat /\ Before(CabSizesOf, c + 1) = Before(CabSizesOf, c) + CabSizesOf[c]
        /\ Before(CabSizesOf, c + 1) <= Before(CabSizesOf, CabCount + 1)
        /\ Before(CabSizesOf, CabCount + 1) = Sum(CabSizesOf)
    BY <1>2, <2>1, BeforeFacts
  <2>3. CabSizesOf[c] = size[c] /\ size[c] \in Nat
    BY <1>1, CountThose DEF CabSizesOf
  <2>4. \A x, y, s \in Nat : x + y <= s /\ s <= SizeLimit => x \in Small /\ y \in Small
    BY Limit, SMT DEF Small
  <2>5. Sum(CabSizesOf) \in Nat /\ Sum(CabSizesOf) <= SizeLimit
    BY <1>1, Limit, SMT
  <2> QED BY <2>2, <2>3, <2>4, <2>5
<1>4. \A c \in 1 .. CabCount : Meta(c) \in MetaType(format)
  BY <1>1, MetaTyped
<1>5. \A c \in 1 .. CabCount : Cabs[c] \in CabType(format)
  BY <1>1, <1>3, <1>4, CabsAre DEF CabType
<1> QED BY <1>1, <1>5, CabsAre

-----------------------------------------------------------------------------
(* The blocks that they are cut into.                                      *)

BlockCount(total) == (total + BlockSize - 1) \div BlockSize
MaxBlocks == 16384

\* How the data is cut into blocks: full ones and a last one.
LEMMA PlainFacts ==
  ASSUME NEW total \in 1 .. SizeLimit
  PROVE  /\ BlockCount(total) \in 1 .. MaxBlocks /\ DOMAIN PlainSizes(total) = 1 .. BlockCount(total)
         /\ \A b \in 1 .. BlockCount(total) :
              /\ PlainSizes(total)[b] \in Small
              /\ b # BlockCount(total) => PlainSizes(total)[b] = BlockSize
<1> DEFINE d == BlockCount(total)
<1>1. PlainSizes(total) = [b \in 1 .. d |-> IF b * BlockSize <= total THEN BlockSize ELSE total % BlockSize]
  BY DEF PlainSizes, BlockCount
<1>2. total \in Nat /\ total >= 1 /\ total <= SizeLimit
  BY Limit, SMT
<1>3. /\ d \in 1 .. MaxBlocks
      /\ \A b \in 1 .. d : b # d => b * BlockSize <= total
      /\ BlockSize \in Small /\ total % BlockSize \in Small
  <2>1. PICK t \in Nat : t = total
    BY <1>2
  <2>2. t >= 1 /\ t <= SizeLimit
    BY <1>2, <2>1
  <2>3. (t + 131072 - 1) \div 131072 \in 1 .. MaxBlocks
    BY <2>2, Limit, SMT DEF MaxBlocks
  <2>4. \A b \in 1 .. (t + 131072 - 1) \div 131072 :
          b # (t + 131072 - 1) \div 131072 => b * 131072 <= t
    BY <2>2, SMT
  <2>5. 131072 \in Small /\ t % 131072 \in Small
    BY <2>2, Limit, SMT DEF Small
  <2> QED BY <2>1, <2>3, <2>4, <2>5, SMT DEF BlockCount, BlockSize
<1> HIDE DEF d
<1> QED BY <1>1, <1>3 DEF d

BlocksGiven(blks, total) ==
  /\ total \in 1 .. SizeLimit /\ blks = Blocks([b \in DOMAIN blks |-> blks[b].cmp], total)
  /\ \A b \in DOMAIN blks : blks[b].cmp \in Nat
  /\ Sum(Cmps(blks)) <= SizeLimit

\* The blocks of a packing, field by field.
LEMMA BlocksDomain ==
  ASSUME NEW cmp, NEW total \in 1 .. SizeLimit
  PROVE  /\ DOMAIN Blocks(cmp, total) = 1 .. BlockCount(total)
         /\ \A b \in 1 .. BlockCount(total) :
              Blocks(cmp, total)[b] = [cmp |-> cmp[b], dec |-> PlainSizes(total)[b]]
BY PlainFacts DEF Blocks

\* They have their type.
LEMMA BlocksTyped ==
  ASSUME NEW blks, NEW total, BlocksGiven(blks, total)
  PROVE  /\ BlockCount(total) \in 1 .. MaxBlocks /\ blks \in [1 .. BlockCount(total) -> BlkType]
         /\ \A b \in 1 .. BlockCount(total) : b # BlockCount(total) => blks[b].dec = BlockSize
         /\ Cmps(blks) \in Seq(Nat) /\ Sum(Cmps(blks)) \in Nat
<1> DEFINE d == BlockCount(total)
           cmp == [b \in DOMAIN blks |-> blks[b].cmp]
<1>1. /\ total \in 1 .. SizeLimit /\ blks = Blocks(cmp, total)
      /\ \A b \in DOMAIN blks : blks[b].cmp \in Nat
      /\ Sum(Cmps(blks)) <= SizeLimit
  BY DEF BlocksGiven
<1> HIDE DEF cmp
<1>2. /\ d \in 1 .. MaxBlocks
      /\ \A b \in 1 .. d : PlainSizes(total)[b] \in Small /\ (b # d => PlainSizes(total)[b] = BlockSize)
  BY <1>1, PlainFacts
<1>3. DOMAIN blks = 1 .. d /\ \A b \in 1 .. d : blks[b] = [cmp |-> cmp[b], dec |-> PlainSizes(total)[b]]
  BY <1>1, BlocksDomain
<1> HIDE DEF d
<1>4. d \in Nat /\ Cmps(blks) \in [1 .. d -> Nat] /\ \A b \in 1 .. d : Cmps(blks)[b] = blks[b].cmp
  <2>1. \A x \in 1 .. MaxBlocks : x \in Nat
    BY SMT DEF MaxBlocks
  <2> QED BY <1>1, <1>2, <1>3, <2>1 DEF Cmps
<1>5. Cmps(blks) \in Seq(Nat) /\ Len(Cmps(blks)) = d
  BY <1>4, BytesSeq
<1>6. /\ \A k \in 1 .. d + 1 : Before(Cmps(blks), k) \in Nat
      /\ Before(Cmps(blks), d + 1) = Sum(Cmps(blks))
      /\ \A k \in 1 .. d : Before(Cmps(blks), k + 1) = Before(Cmps(blks), k) + Cmps(blks)[k]
      /\ \A k, l \in 1 .. d + 1 : k <= l => Before(Cmps(blks), k) <= Before(Cmps(blks), l)
  BY <1>5, BeforeFacts
<1>7. d + 1 \in 1 .. d + 1 /\ \A b \in 1 .. d : b \in 1 .. d + 1 /\ b + 1 \in 1 .. d + 1 /\ b + 1 <= d + 1
  BY <1>4, SMT
<1>8. Sum(Cmps(blks)) \in Nat
  BY <1>6, <1>7
<1>9. \A b \in 1 .. d : blks[b].cmp \in Small
  <2> TAKE b \in 1 .. d
  <2>1. /\ Before(Cmps(blks), b) \in Nat /\ blks[b].cmp \in Nat
        /\ Before(Cmps(blks), b) + blks[b].cmp <= Sum(Cmps(blks))
    BY <1>1, <1>3, <1>4, <1>6, <1>7
  <2>2. \A x, y, s \in Nat : x + y <= s /\ s <= SizeLimit => y \in Small
    BY Limit, SMT DEF Small
  <2> QED BY <1>1, <1>8, <2>1, <2>2
<1>10. \A b \in 1 .. d : blks[b] \in BlkType /\ (b # d => blks[b].dec = BlockSize)
  BY <1>2, <1>3, <1>9 DEF BlkType
<1>11. blks \in [1 .. d -> BlkType]
  <2>1. blks = [b \in DOMAIN blks |-> blks[b]]
    BY <1>1 DEF Blocks
  <2> QED BY <1>3, <1>10, <2>1
<1> QED BY <1>2, <1>5, <1>8, <1>10, <1>11 DEF d

-----------------------------------------------------------------------------
(* What is packed is well formed and read as it was meant.                  *)

Found(f, r, a, cabs, blks, n) ==
  /\ r.opens /\ DOMAIN r.cabs = 1 .. n
  /\ \A c \in 1 .. n :
       /\ r.cabs[c].meta.name = cabs[c].meta.name
       /\ r.cabs[c].blk_off = cabs[c].blk_off /\ r.cabs[c].blk_sz = cabs[c].blk_sz
       /\ (f \in MhyFormats \/ (f = "blb3" /\ c <= 32)) => r.cabs[c].meta.flag = cabs[c].meta.flag
       /\ f = "encr" => r.cabs[c].meta.flag = Turned(cabs[c].meta.flag)
  /\ r.blks = blks /\ r.data_off = a.len /\ r.next = a.len + Sum(Cmps(blks))

Stored(a) == Memory(a.outer) /\ Memory(a.inner) /\ \A b \in DOMAIN a.blocks : Memory(a.blocks[b])

MhyStored(f, a, r) ==
  /\ a.inner_len = MhyInnerLen(r.cabs, r.blks)
  /\ DOMAIN a.inner \subseteq 0 .. a.inner_len - 1
  /\ DOMAIN a.outer = IF f = "mhy0" THEN 0 .. 46 ELSE 0 .. 62
  /\ f = "mhy1" => Read(a.outer, 12, 16) = NewEc
  /\ a.blocks = [b \in DOMAIN r.blks |-> a.blocks[b]]
  /\ \A b \in DOMAIN a.blocks :
       /\ DOMAIN a.blocks[b] = IF f = "mhy0" THEN 0 .. 11 ELSE 0 .. 27
       /\ f = "mhy1" => Read(a.blocks[b], 4, 16) = NewEc

\* No bytes are bytes.
LEMMA EmptyMemory == Memory(<<>>)
BY DEF Memory

\* An mhy inner header sets no byte outside its length.
LEMMA InnerInside ==
  ASSUME NEW cabs, NEW blks, NEW keys, NEW n, NEW d, MhyGiven(cabs, blks, keys, n, d)
  PROVE  MhyInnerBytes(n, d) \subseteq 0 .. MhyInnerLen(cabs, blks) - 1
<1>1. MhyInnerLen(cabs, blks) = 275 * n + 13 * d + 12 /\ n \in Nat /\ d \in Nat
  BY MhyLens
<1>2. (275 * n + 13 * d + 12) - 1 = 11 + 275 * n + 13 * d
  BY <1>1, SMT
<1> QED BY <1>1, <1>2 DEF MhyInnerBytes

\* The head of an mhy0 block is 12 bytes.
LEMMA HeadTyped ==
  ASSUME NEW cabs, NEW blks, NEW keys, NEW n, NEW d, MhyGiven(cabs, blks, keys, n, d)
  PROVE  /\ \A b \in 1 .. d : keys[b].head \in [1 .. 12 -> Byte]
         /\ \A b \in 1 .. d : Memory(BytesAt(0, keys[b].head)) /\ DOMAIN BytesAt(0, keys[b].head) = 0 .. 11
<1>1. \A b \in 1 .. d : keys[b].head \in [1 .. 12 -> Byte]
  BY DEF MhyGiven, KeyType
<1>2. 0 \in Nat /\ 12 \in Nat /\ 0 + 12 - 1 = 11
  BY SMT
<1>3. \A b \in 1 .. d : keys[b].head \in Seq(Byte) /\ Len(keys[b].head) = 12
  BY <1>1, <1>2, BytesSeq
<1>4. \A b \in 1 .. d : DOMAIN BytesAt(0, keys[b].head) = 0 .. 0 + 12 - 1
  BY <1>2, <1>3, Domains
<1> QED BY <1>1, <1>2, <1>4, BytesMemory

\* What pack_mhy0 writes is found by the reader and is bytes.
LEMMA Mhy0Packed ==
  ASSUME NEW hdr \in HdrType("mhy0"), NEW cabs, NEW blks, NEW keys, NEW n, NEW d,
         MhyGiven(cabs, blks, keys, n, d), Room(47), NEW a, a = Mhy0Pack(hdr, cabs, keys, blks)
  PROVE  /\ Found("mhy0", Mhy0Read(a), a, cabs, blks, n) /\ Stored(a)
         /\ MhyStored("mhy0", a, Mhy0Read(a)) /\ DOMAIN a.inner = MhyInnerBytes(n, d)
<1> DEFINE r == Mhy0Read(a)
           len == MhyInnerLen(cabs, blks)
           beside == SubSeq(hdr.extra, 4, 7)
<1>1. /\ a.outer = Mhy0Outer(hdr, len) /\ a.inner = MhyInner(cabs, blks, beside, keys)
      /\ a.inner_len = len /\ a.len = HeaderSize + 47
      /\ a.blocks = [b \in DOMAIN blks |-> BytesAt(0, keys[b].head)]
  BY DEF Mhy0Pack
<1>2. len \in Small /\ DOMAIN cabs = 1 .. n /\ DOMAIN blks = 1 .. d
  BY MhyLens
<1>3. MhyReads(r, hdr, cabs, keys, blks, n, HeaderSize + 47)
  BY Mhy0Reads
<1> HIDE DEF r, len
<1>4. /\ r.opens /\ r.cabs = cabs /\ r.blks = blks /\ r.data_off = HeaderSize + 47
      /\ r.next = HeaderSize + 47 + Sum(Cmps(blks))
  BY <1>3 DEF MhyReads
<1>5. beside \in [1 .. 4 -> Byte]
  <2>1. hdr.extra \in [1 .. 7 -> Byte]
    BY DEF HdrType
  <2>2. CutOf(hdr.extra, 7, 4, 7, 4)
    BY <2>1, SMT DEF CutOf
  <2>3. IsCut(beside, hdr.extra, 4, 4)
    BY <2>2, Cut
  <2> QED BY <2>3 DEF IsCut
<1> HIDE DEF beside
<1>6. Memory(a.inner) /\ DOMAIN a.inner = MhyInnerBytes(n, d)
  BY <1>1, <1>5, MhyInnerMemory
<1>7. Memory(a.outer) /\ DOMAIN a.outer = 0 .. 46
  BY <1>1, <1>2, Mhy0OuterMemory
<1>8. \A b \in DOMAIN a.blocks : Memory(a.blocks[b]) /\ DOMAIN a.blocks[b] = 0 .. 11
  BY <1>1, <1>2, HeadTyped
<1>9. Found("mhy0", r, a, cabs, blks, n)
  BY <1>1, <1>2, <1>4 DEF Found
<1>10. Stored(a)
  BY <1>6, <1>7, <1>8 DEF Stored
<1>11. MhyStored("mhy0", a, r)
  <2>1. DOMAIN a.inner \subseteq 0 .. a.inner_len - 1
    BY <1>1, <1>6, InnerInside DEF len
  <2>2. a.blocks = [b \in DOMAIN r.blks |-> a.blocks[b]]
    BY <1>1, <1>4
  <2>3. a.inner_len = MhyInnerLen(r.cabs, r.blks)
    BY <1>1, <1>4 DEF len
  <2> QED BY <1>7, <1>8, <2>1, <2>2, <2>3 DEF MhyStored
<1> QED BY <1>6, <1>9, <1>10, <1>11 DEF r

\* The same of pack_mhy1.
LEMMA Mhy1Packed ==
  ASSUME NEW hdr \in HdrType("mhy1"), NEW cabs, NEW blks, NEW keys, NEW n, NEW d,
         MhyGiven(cabs, blks, keys, n, d), Room(63), NEW a, a = Mhy1Pack(hdr, cabs, keys, blks)
  PROVE  /\ Found("mhy1", Mhy1Read(a), a, cabs, blks, n) /\ Stored(a)
         /\ MhyStored("mhy1", a, Mhy1Read(a)) /\ DOMAIN a.inner = MhyInnerBytes(n, d)
<1> DEFINE r == Mhy1Read(a)
           len == MhyInnerLen(cabs, blks)
           beside == SubSeq(hdr.extra, 16, 19)
<1>1. /\ a.outer = Mhy1Outer(hdr, len) /\ a.inner = MhyInner(cabs, blks, beside, keys)
      /\ a.inner_len = len /\ a.len = HeaderSize + 63
      /\ a.blocks = [b \in DOMAIN blks |-> Mhy1Head(keys[b].head)]
  BY DEF Mhy1Pack
<1>2. len \in Small /\ DOMAIN cabs = 1 .. n /\ DOMAIN blks = 1 .. d
  BY MhyLens
<1>3. MhyReads(r, hdr, cabs, keys, blks, n, HeaderSize + 63)
  BY Mhy1Reads
<1> HIDE DEF r, len
<1>4. /\ r.opens /\ r.cabs = cabs /\ r.blks = blks /\ r.data_off = HeaderSize + 63
      /\ r.next = HeaderSize + 63 + Sum(Cmps(blks))
  BY <1>3 DEF MhyReads
<1>5. beside \in [1 .. 4 -> Byte]
  <2>1. hdr.extra \in [1 .. 19 -> Byte]
    BY DEF HdrType
  <2>2. CutOf(hdr.extra, 19, 16, 19, 4)
    BY <2>1, SMT DEF CutOf
  <2>3. IsCut(beside, hdr.extra, 16, 4)
    BY <2>2, Cut
  <2> QED BY <2>3 DEF IsCut
<1> HIDE DEF beside
<1>6. Memory(a.inner) /\ DOMAIN a.inner = MhyInnerBytes(n, d)
  BY <1>1, <1>5, MhyInnerMemory
<1>7. Memory(a.outer) /\ DOMAIN a.outer = 0 .. 62 /\ Read(a.outer, 12, 16) = NewEc
  BY <1>1, <1>2, Mhy1OuterMemory, Mhy1OuterReads DEF Mhy1Opened
<1>8. \A b \in DOMAIN a.blocks : /\ Memory(a.blocks[b]) /\ DOMAIN a.blocks[b] = 0 .. 27
                                 /\ Read(a.blocks[b], 4, 16) = NewEc
  <2>1. \A b \in 1 .. d : keys[b].head \in [1 .. 12 -> Byte]
    BY HeadTyped
  <2> QED BY <1>1, <1>2, <2>1, Mhy1HeadMemory, Mhy1HeadReads
<1>9. Found("mhy1", r, a, cabs, blks, n)
  BY <1>1, <1>2, <1>4 DEF Found
<1>10. Stored(a)
  BY <1>6, <1>7, <1>8 DEF Stored
<1>11. MhyStored("mhy1", a, r)
  <2>1. DOMAIN a.inner \subseteq 0 .. a.inner_len - 1
    BY <1>1, <1>6, InnerInside DEF len
  <2>2. a.blocks = [b \in DOMAIN r.blks |-> a.blocks[b]]
    BY <1>1, <1>4
  <2>3. a.inner_len = MhyInnerLen(r.cabs, r.blks)
    BY <1>1, <1>4 DEF len
  <2> QED BY <1>7, <1>8, <2>1, <2>2, <2>3 DEF MhyStored
<1> QED BY <1>6, <1>9, <1>10, <1>11 DEF r

\* The same of pack_encr.
LEMMA EncrPacked ==
  ASSUME NEW hdr \in HdrType("encr"), Lz4Type(hdr.flags), NEW cabs, NEW keys, NEW blks, NEW n, NEW d,
         EncrGiven(cabs, blks, n, d), DataFits(blks, 25), NEW a, a = EncrPack(hdr, cabs, keys, blks)
  PROVE  Found("encr", EncrRead(a), a, cabs, blks, n) /\ Stored(a)
<1> DEFINE r == EncrRead(a)
<1>1. /\ a.outer = EncrOuter(hdr, cabs, blks) /\ a.inner = EncrInner(cabs, blks)
      /\ a.len = HeaderSize + 25 /\ a.blocks = [b \in DOMAIN blks |-> <<>>]
  BY DEF EncrPack
<1>2. EncrReads(r, hdr, cabs, blks, n, HeaderSize + 25)
  BY EncrPackReads
<1> HIDE DEF r
<1>3. Found("encr", r, a, cabs, blks, n)
  BY <1>1, <1>2, FormatNames DEF EncrReads, Found
<1>4. Memory(a.outer) /\ Memory(a.inner)
  BY <1>1, EncrMemory
<1>5. Stored(a)
  BY <1>1, <1>4, EmptyMemory DEF Stored
<1> QED BY <1>3, <1>5 DEF r

\* The same of pack_blb3.
LEMMA Blb3Packed ==
  ASSUME NEW hdr \in HdrType("blb3"), NEW cabs, NEW keys, NEW blks, NEW n, NEW d,
         Blb3Given(cabs, blks, n, d), NEW a, a = Blb3Pack(hdr, cabs, keys, blks)
  PROVE  Found("blb3", Blb3Read(a), a, cabs, blks, n) /\ Stored(a)
<1> DEFINE r == Blb3Read(a)
<1>1. /\ a.outer = Blb3Outer(hdr, cabs, blks) /\ a.inner = <<>>
      /\ a.len = Blb3Len(cabs, blks) /\ a.blocks = [b \in DOMAIN blks |-> <<>>]
  BY DEF Blb3Pack
<1>2. Blb3Reads(r, hdr, cabs, blks, n, Blb3Len(cabs, blks))
  BY Blb3PackReads
<1> HIDE DEF r
<1>3. Found("blb3", r, a, cabs, blks, n)
  BY <1>1, <1>2, FormatNames DEF Blb3Reads, Found
<1>4. Memory(a.outer) /\ Memory(a.inner)
  BY <1>1, Blb3Memory, EmptyMemory
<1>5. Stored(a)
  BY <1>1, <1>4, EmptyMemory DEF Stored
<1> QED BY <1>3, <1>5 DEF r

\* An archive in which everything is found reads as what was meant.
LEMMA FoundReadsAs ==
  ASSUME NEW f \in Formats, NEW a, NEW cabs, NEW blks, NEW n, DOMAIN cabs = 1 .. n,
         Found(f, ReadOf(f, a), a, cabs, blks, n)
  PROVE  ReadsAs(f, a, [cabs |-> cabs, blks |-> blks])
<1> DEFINE r == ReadOf(f, a)
<1>1. /\ r.opens /\ DOMAIN r.cabs = 1 .. n
      /\ r.blks = blks /\ r.data_off = a.len /\ r.next = a.len + Sum(Cmps(blks))
  BY DEF Found
<1>2. \A c \in 1 .. n :
        /\ r.cabs[c].meta.name = cabs[c].meta.name
        /\ r.cabs[c].blk_off = cabs[c].blk_off /\ r.cabs[c].blk_sz = cabs[c].blk_sz
        /\ (f \in MhyFormats \/ (f = "blb3" /\ c <= 32)) => r.cabs[c].meta.flag = cabs[c].meta.flag
        /\ f = "encr" => r.cabs[c].meta.flag = Turned(cabs[c].meta.flag)
  BY DEF Found
<1> HIDE DEF r
<1> QED BY <1>1, <1>2 DEF ReadsAs, r

\* What is packed, of the cabs, for an archive to be well formed.
CabsGiven(f, cabs, n) ==
  /\ 1 \in 1 .. n /\ DOMAIN cabs = 1 .. n
  /\ \A c \in 1 .. n : /\ cabs[c].blk_sz \in Nat /\ cabs[c].blk_off = Before(Sizes(cabs), c)
                       /\ f \notin MhyFormats => Len(cabs[c].meta.name) <= 255

\* And is well formed.
LEMMA FoundWellFormed ==
  ASSUME NEW f \in Formats, NEW a, NEW cabs, NEW blks, NEW n,
         Found(f, ReadOf(f, a), a, cabs, blks, n), CabsGiven(f, cabs, n),
         BlocksGiven(blks, Sum(Sizes(cabs))), Stored(a),
         f \in MhyFormats => MhyStored(f, a, ReadOf(f, a))
  PROVE  WellFormed(f, a)
<1> DEFINE r == ReadOf(f, a)
<1>1. /\ r.opens /\ DOMAIN r.cabs = 1 .. n /\ r.blks = blks
      /\ \A c \in 1 .. n : /\ r.cabs[c].meta.name = cabs[c].meta.name
                           /\ r.cabs[c].blk_off = cabs[c].blk_off /\ r.cabs[c].blk_sz = cabs[c].blk_sz
  BY DEF Found
<1> HIDE DEF r
<1>2. /\ 1 \in 1 .. n /\ DOMAIN cabs = 1 .. n
      /\ \A c \in 1 .. n : /\ cabs[c].blk_sz \in Nat /\ cabs[c].blk_off = Before(Sizes(cabs), c)
                           /\ f \notin MhyFormats => Len(cabs[c].meta.name) <= 255
  BY DEF CabsGiven
<1>3. Sizes(r.cabs) = Sizes(cabs)
  BY <1>1, <1>2 DEF Sizes
<1>4. /\ 1 \in DOMAIN r.cabs
      /\ \A c \in DOMAIN r.cabs :
           /\ r.cabs[c].blk_sz \in Nat /\ r.cabs[c].blk_off = Before(Sizes(r.cabs), c)
           /\ f \notin MhyFormats => Len(r.cabs[c].meta.name) <= 255
  BY <1>1, <1>2, <1>3
<1>5. /\ Sum(Sizes(r.cabs)) \in 1 .. SizeLimit
      /\ r.blks = Blocks([b \in DOMAIN r.blks |-> r.blks[b].cmp], Sum(Sizes(r.cabs)))
      /\ \A b \in DOMAIN r.blks : r.blks[b].cmp \in Nat
  BY <1>1, <1>3 DEF BlocksGiven
<1>6. Memory(a.outer) /\ Memory(a.inner) /\ \A b \in DOMAIN a.blocks : Memory(a.blocks[b])
  BY DEF Stored
<1>7. f \in MhyFormats => MhyStored(f, a, r)
  BY DEF r
<1> QED BY <1>1, <1>4, <1>5, <1>6, <1>7, Zenon DEF WellFormed, MhyStored, r

-----------------------------------------------------------------------------
(* A pack of what is in the directory.                                     *)

Total      == Sum(Sizes(Cabs))
Keys(blks) == [b \in DOMAIN blks |-> Key(b)]

PackFits(blks) ==
  /\ CabsFit /\ BlocksGiven(blks, Total)
  /\ Packed(Cabs, blks).len + Sum(Cmps(blks)) <= SizeLimit

\* The type of a cab, by format.
LEMMA CabTypes ==
  /\ CabType("mhy0") = MhyCabType /\ CabType("mhy1") = MhyCabType
  /\ CabType("encr") = EncrCabType /\ CabType("blb3") = Blb3CabType
BY FormatNames DEF CabType, MhyCabType, EncrCabType, Blb3CabType

\* What PackFits says of the step Pack: counts, types and sizes.
LEMMA PackCounts ==
  ASSUME NEW blks, PackFits(blks)
  PROVE  /\ Counts(CabCount, BlockCount(Total)) /\ HdrOk(format, Hdr) /\ format \in Formats
         /\ Cabs \in [1 .. CabCount -> CabType(format)]
         /\ blks \in [1 .. BlockCount(Total) -> BlkType]
         /\ \A b \in 1 .. BlockCount(Total) : b # BlockCount(Total) => blks[b].dec = BlockSize
         /\ Sum(Cmps(blks)) \in Nat /\ HeaderSize \in Nat
         /\ Packed(Cabs, blks).len + Sum(Cmps(blks)) <= SizeLimit
         /\ CabsGiven(format, Cabs, CabCount)
<1>1. /\ CabsFit /\ BlocksGiven(blks, Total) /\ Ready /\ format \in Formats /\ FilesTyped
      /\ Packed(Cabs, blks).len + Sum(Cmps(blks)) <= SizeLimit
  BY DEF PackFits, CabsFit, Ready
<1>2. /\ BlockCount(Total) \in 1 .. MaxBlocks /\ blks \in [1 .. BlockCount(Total) -> BlkType]
      /\ \A b \in 1 .. BlockCount(Total) : b # BlockCount(Total) => blks[b].dec = BlockSize
      /\ Sum(Cmps(blks)) \in Nat
  BY <1>1, BlocksTyped
<1>3. Counts(CabCount, BlockCount(Total))
  <2>1. CabCount \in 1 .. 256
    BY <1>1, CountThose
  <2>2. BlockCount(Total) \in 1 .. MaxBlocks
    BY <1>2
  <2>3. BlockCount(Total) \in 1 .. 16384
    <3> DEFINE b == BlockCount(Total)
    <3>1. b \in 1 .. MaxBlocks
      BY <2>2
    <3> HIDE DEF b
    <3>2. b \in 1 .. 16384
      BY <3>1, SMT DEF MaxBlocks
    <3> QED BY <3>2 DEF b
  <2> QED BY <2>1, <2>3, SMT DEF Counts
<1>4. Cabs \in [1 .. CabCount -> CabType(format)]
  BY <1>1, CabsTyped
<1>5. CabsGiven(format, Cabs, CabCount)
  <2>1. 1 \in 1 .. CabCount
    <3>1. \A n \in 1 .. 256 : 1 \in 1 .. n
      BY SMT
    <3> QED BY <1>1, <3>1, CountThose
  <2>2. DOMAIN Cabs = 1 .. CabCount /\ Sizes(Cabs) = CabSizesOf
    BY <1>1, CabsAre
  <2>3. \A c \in 1 .. CabCount :
          /\ Cabs[c].blk_sz \in Nat /\ Cabs[c].blk_off = Before(Sizes(Cabs), c)
          /\ Cabs[c].meta \in MetaType(format)
    BY <1>1, CabsAre, CountThose, MetaTyped
  <2>4. \A name \in Names : Len(name) <= 255
    BY DEF Names
  <2>5. format \notin MhyFormats => \A meta \in MetaType(format) : Len(meta.name) <= 255
    <3>1. CASE format = "encr"
      <4>1. ASSUME NEW meta \in EncrMeta PROVE Len(meta.name) <= 255
        <5>1. meta.name \in Names
          BY DEF EncrMeta
        <5> QED BY <5>1, SMT DEF Names
      <4> QED BY <3>1, <4>1, FormatNames, SMT
    <3>2. CASE format = "blb3"
      <4>1. ASSUME NEW meta \in Blb3Meta PROVE Len(meta.name) <= 255
        <5>1. meta.name \in Names
          BY DEF Blb3Meta
        <5> QED BY <5>1, SMT DEF Names
      <4> QED BY <3>2, <4>1, FormatNames, SMT
    <3> QED BY <1>1, <3>1, <3>2, FormatNames
  <2> QED BY <2>1, <2>2, <2>3, <2>5 DEF CabsGiven
<1> QED BY <1>1, <1>2, <1>3, <1>4, <1>5, HdrTyped, SizesAssumption

\* In mhy formats that is what the lemmas on them ask for.
LEMMA MhyPackGiven ==
  ASSUME NEW blks, PackFits(blks), Mhy
  PROVE  MhyGiven(Cabs, blks, Keys(blks), CabCount, BlockCount(Total))
<1> DEFINE d == BlockCount(Total)
<1>1. /\ Counts(CabCount, d) /\ format \in Formats /\ Cabs \in [1 .. CabCount -> CabType(format)]
      /\ blks \in [1 .. d -> BlkType]
  BY PackCounts
<1>2. CabType(format) = MhyCabType
  BY CabTypes, FormatNames DEF Mhy
<1>3. \A b \in 1 .. d : b \in Nat
  <2> HIDE DEF d
  <2> QED BY <1>1, CountsSmall, SMT
<1>4. FilesTyped
  BY DEF PackFits, CabsFit, Ready
<1> HIDE DEF d
<1>5. Keys(blks) \in [1 .. d -> KeyType]
  BY <1>1, <1>3, <1>4, KeyTyped DEF Keys
<1> QED BY <1>1, <1>2, <1>5 DEF MhyGiven, d

\* For mhy0.
LEMMA Mhy0PackGiven ==
  ASSUME NEW blks, PackFits(blks), format = "mhy0"
  PROVE  /\ Packed(Cabs, blks) = Mhy0Pack(Hdr, Cabs, Keys(blks), blks)
         /\ Hdr \in HdrType("mhy0") /\ Room(47)
<1>1. Packed(Cabs, blks) = Mhy0Pack(Hdr, Cabs, Keys(blks), blks)
  BY DEF Packed, Keys
<1>2. Packed(Cabs, blks).len = HeaderSize + 47
  BY <1>1 DEF Mhy0Pack
<1>3. Room(47)
  <2>1. \A h, s \in Nat : h + 47 + s <= SizeLimit => h + 47 <= SizeLimit
    BY Limit, SMT
  <2> QED BY <1>2, <2>1, PackCounts DEF Room
<1> QED BY <1>1, <1>3, PackCounts DEF HdrOk

\* For mhy1.
LEMMA Mhy1PackGiven ==
  ASSUME NEW blks, PackFits(blks), format = "mhy1"
  PROVE  /\ Packed(Cabs, blks) = Mhy1Pack(Hdr, Cabs, Keys(blks), blks)
         /\ Hdr \in HdrType("mhy1") /\ Room(63)
<1>1. Packed(Cabs, blks) = Mhy1Pack(Hdr, Cabs, Keys(blks), blks)
  BY DEF Packed, Keys
<1>2. Packed(Cabs, blks).len = HeaderSize + 63
  BY <1>1 DEF Mhy1Pack
<1>3. Room(63)
  <2>1. \A h, s \in Nat : h + 63 + s <= SizeLimit => h + 63 <= SizeLimit
    BY Limit, SMT
  <2> QED BY <1>2, <2>1, PackCounts DEF Room
<1> QED BY <1>1, <1>3, PackCounts DEF HdrOk

\* For encr.
LEMMA EncrPackGiven ==
  ASSUME NEW blks, PackFits(blks), format = "encr"
  PROVE  /\ Packed(Cabs, blks) = EncrPack(Hdr, Cabs, Keys(blks), blks)
         /\ Hdr \in HdrType("encr") /\ Lz4Type(Hdr.flags) /\ DataFits(blks, 25)
         /\ EncrGiven(Cabs, blks, CabCount, BlockCount(Total))
<1>1. Packed(Cabs, blks) = EncrPack(Hdr, Cabs, Keys(blks), blks)
  BY DEF Packed, Keys
<1>2. Packed(Cabs, blks).len = HeaderSize + 25
  BY <1>1 DEF EncrPack
<1>3. DataFits(blks, 25)
  BY <1>2, PackCounts DEF DataFits
<1>4. EncrGiven(Cabs, blks, CabCount, BlockCount(Total))
  BY PackCounts, CabTypes DEF EncrGiven
<1> QED BY <1>1, <1>3, <1>4, PackCounts DEF HdrOk

\* For blb3.
LEMMA Blb3PackGiven ==
  ASSUME NEW blks, PackFits(blks), format = "blb3"
  PROVE  /\ Packed(Cabs, blks) = Blb3Pack(Hdr, Cabs, Keys(blks), blks)
         /\ Hdr \in HdrType("blb3")
         /\ Blb3Given(Cabs, blks, CabCount, BlockCount(Total))
<1>1. Packed(Cabs, blks) = Blb3Pack(Hdr, Cabs, Keys(blks), blks)
  BY DEF Packed, Keys
<1>2. Packed(Cabs, blks).len = Blb3Len(Cabs, blks)
  BY <1>1 DEF Blb3Pack
<1>3. Blb3Given(Cabs, blks, CabCount, BlockCount(Total))
  BY <1>2, PackCounts, CabTypes DEF Blb3Given
<1> QED BY <1>1, <1>3, PackCounts DEF HdrOk

\* So whatever Pack writes is found by the reader of its format.
LEMMA PackedFound ==
  ASSUME NEW blks, PackFits(blks), NEW a, a = Packed(Cabs, blks)
  PROVE  /\ Found(format, ReadOf(format, a), a, Cabs, blks, CabCount) /\ Stored(a)
         /\ format \in MhyFormats => MhyStored(format, a, ReadOf(format, a))
<1>1. format \in Formats
  BY PackCounts
<1>2. CASE format = "mhy0"
  BY <1>2, Mhy0PackGiven, MhyPackGiven, Mhy0Packed, FormatNames DEF Mhy
<1>3. CASE format = "mhy1"
  BY <1>3, Mhy1PackGiven, MhyPackGiven, Mhy1Packed, FormatNames DEF Mhy
<1>4. CASE format = "encr"
  BY <1>4, EncrPackGiven, EncrPacked, FormatNames
<1>5. CASE format = "blb3"
  BY <1>5, Blb3PackGiven, Blb3Packed, FormatNames
<1> QED BY <1>1, <1>2, <1>3, <1>4, <1>5, FormatNames

\* It is well formed, and reads as what was meant.
LEMMA PackedSound ==
  ASSUME NEW blks, PackFits(blks), NEW a, a = Packed(Cabs, blks)
  PROVE  WellFormed(format, a) /\ ReadsAs(format, a, [cabs |-> Cabs, blks |-> blks])
<1>1. /\ Found(format, ReadOf(format, a), a, Cabs, blks, CabCount) /\ Stored(a)
      /\ format \in MhyFormats => MhyStored(format, a, ReadOf(format, a))
  BY PackedFound
<1>2. CabsGiven(format, Cabs, CabCount) /\ format \in Formats /\ BlocksGiven(blks, Sum(Sizes(Cabs)))
  BY PackCounts DEF PackFits, Total
<1>3. DOMAIN Cabs = 1 .. CabCount
  BY <1>2 DEF CabsGiven
<1> QED BY <1>1, <1>2, <1>3, FoundReadsAs, FoundWellFormed

-----------------------------------------------------------------------------
(* The inductive invariant.                                                 *)

\* The files are what was extracted from an archive.
UnpackedFrom(a) ==
  LET r == Reading(a)
  IN  /\ files.hdr = <<r.hdr>>
      /\ \A c \in DOMAIN r.cabs : /\ c \in DOMAIN files.cab /\ files.cab[c] = r.cabs[c].meta
                                  /\ c \in DOMAIN size /\ size[c] = r.cabs[c].blk_sz
      /\ Mhy => \A b \in DOMAIN r.keys : b \in DOMAIN files.key /\ files.key[b] = r.keys[b]

\* The archive is what Pack makes of the files.
PackedFrom ==
  /\ meant = [cabs |-> Cabs, blks |-> meant.blks]
  /\ archive = Packed(Cabs, meant.blks) /\ PackFits(meant.blks)

ArchiveInv ==
  /\ format \in Formats /\ pc \in {"archive", "files"} /\ packs \in 0 .. MaxPacks
  /\ WellFormed(format, archive) /\ ReadsAs(format, archive, meant) /\ WellFormed(format, before)

Unpacked == pc = "files" \/ packs > 0

HInv ==
  /\ ArchiveInv /\ FilesTyped
  /\ Unpacked => SizesThere
  /\ Unpacked /\ ~edited => UnpackedFrom(before)
  /\ pc = "archive" /\ packs > 0 => PackedFrom

\* new has what was written, and of what was there before the rest.
Over(new, written, old) ==
  /\ \A x \in DOMAIN written : x \in DOMAIN new /\ new[x] = written[x]
  /\ \A x \in DOMAIN new :
       x \notin DOMAIN written => x \in DOMAIN old /\ new[x] = old[x]

\* Overwritten, by its values: those written, and the old ones elsewhere.
LEMMA WhatIsOverwritten ==
  ASSUME NEW written, NEW old, NEW new, new = Overwritten(written, old)
  PROVE  Over(new, written, old)
<1>1. DOMAIN new = DOMAIN written \cup DOMAIN old
  BY DEF Overwritten
<1>2. \A x \in DOMAIN written : new[x] = written[x]
  BY DEF Overwritten
<1>3. \A x \in DOMAIN new : x \notin DOMAIN written => new[x] = old[x]
  BY DEF Overwritten
<1> QED BY <1>1, <1>2, <1>3 DEF Over

\* A type of both is a type of the result.
LEMMA OverTyped ==
  ASSUME NEW written, NEW old, NEW new, Over(new, written, old), NEW S,
         \A x \in DOMAIN written : written[x] \in S, \A x \in DOMAIN old : old[x] \in S
  PROVE  \A x \in DOMAIN new : new[x] \in S
BY DEF Over

\* The original archive satisfies the invariant, by OriginalsAssumption.
LEMMA InitHolds == Init => HInv
<1> SUFFICES ASSUME Init PROVE HInv
  OBVIOUS
<1>1. format \in Formats
  BY OriginalsAssumption DEF Init
<1>2. PICK o \in Originals[format] : archive = o.archive /\ meant = o.meant
  BY DEF Init
<1>3. WellFormed(format, archive) /\ ReadsAs(format, archive, meant)
  BY <1>1, <1>2, OriginalsAssumption
<1>4. /\ files = [hdr |-> <<>>, cab |-> <<>>, key |-> <<>>] /\ size = <<>>
      /\ before = archive /\ packs = 0 /\ pc = "archive"
  BY DEF Init
<1>5. 0 \in 0 .. MaxPacks /\ ~(0 > 0)
  BY SizesAssumption, SMT
<1>6. ArchiveInv
  BY <1>1, <1>3, <1>4, <1>5 DEF ArchiveInv
<1>7. DOMAIN <<>> = {}
  OBVIOUS
<1>8. files.hdr = <<>> /\ files.cab = <<>> /\ files.key = <<>>
  BY <1>4
<1>9. files = [hdr |-> files.hdr, cab |-> files.cab, key |-> files.key]
  BY <1>4, <1>8
<1>10. FilesTyped
  BY <1>4, <1>7, <1>8, <1>9, Zenon DEF FilesTyped
<1>11. ~Unpacked /\ ~(packs > 0)
  BY <1>4, <1>5 DEF Unpacked
<1> QED BY <1>6, <1>10, <1>11 DEF HInv

\* Unpacking keeps the invariant: the files become what was read.
LEMMA ExtractHolds ==
  ASSUME HInv, Extract
  PROVE  HInv'
<1> DEFINE r == Reading(archive)
<1>1. /\ files' = [hdr |-> <<r.hdr>>,
                   cab |-> Overwritten([c \in DOMAIN r.cabs |-> r.cabs[c].meta], files.cab),
                   key |-> Overwritten(r.keys, files.key)]
      /\ size' = Overwritten(Sizes(r.cabs), size)
      /\ before' = archive /\ pc' = "files"
      /\ format' = format /\ archive' = archive /\ meant' = meant /\ packs' = packs
  BY DEF Extract
<1>2. /\ format \in Formats /\ packs \in 0 .. MaxPacks
      /\ WellFormed(format, archive) /\ ReadsAs(format, archive, meant)
  BY DEF HInv, ArchiveInv
<1>3. ArchiveInv'
  BY <1>1, <1>2 DEF ArchiveInv
<1>4. Typed(format, r)
  BY <1>2, WellFormedTyped DEF Reading
<1>5. r' = r
  BY <1>1 DEF Reading
<1>6. \A c \in DOMAIN r.cabs : r.cabs[c].blk_sz \in Nat
  BY <1>2 DEF WellFormed, Reading
<1>7. 1 \in DOMAIN r.cabs
  BY <1>2, WellFormedMemory DEF Reading
<1>8. DOMAIN Sizes(r.cabs) = DOMAIN r.cabs /\ \A c \in DOMAIN r.cabs : Sizes(r.cabs)[c] = r.cabs[c].blk_sz
  BY DEF Sizes
<1> HIDE DEF r
<1>9. /\ files'.hdr = <<r.hdr>> /\ files'.hdr[1] = r.hdr /\ files'.hdr # <<>>
      /\ files'.cab = Overwritten([c \in DOMAIN r.cabs |-> r.cabs[c].meta], files.cab)
      /\ files'.key = Overwritten(r.keys, files.key)
      /\ files' = [hdr |-> files'.hdr, cab |-> files'.cab, key |-> files'.key]
  BY <1>1
<1>10. /\ HdrOk(format, r.hdr) /\ r.hdr.cab_cnt >= 1 /\ DOMAIN r.cabs = 1 .. r.hdr.cab_cnt
       /\ \A c \in DOMAIN r.cabs : r.cabs[c].meta \in MetaType(format)
       /\ Mhy => DOMAIN r.keys = DOMAIN r.blks /\ \A b \in DOMAIN r.keys : r.keys[b] \in KeyType
  BY <1>4 DEF Typed, Mhy
<1>11. /\ \A c \in DOMAIN files.cab : files.cab[c] \in MetaType(format)
       /\ Mhy => \A b \in DOMAIN files.key : files.key[b] \in KeyType
       /\ \A c \in DOMAIN size : size[c] \in Nat
  BY DEF HInv, FilesTyped
<1> DEFINE w == [c \in DOMAIN r.cabs |-> r.cabs[c].meta]
           s == Sizes(r.cabs)
<1>12. DOMAIN w = DOMAIN r.cabs /\ \A c \in DOMAIN r.cabs : w[c] = r.cabs[c].meta
  OBVIOUS
<1>13. DOMAIN s = DOMAIN r.cabs /\ \A c \in DOMAIN r.cabs : s[c] = r.cabs[c].blk_sz
  BY <1>8
<1>14. files'.cab = Overwritten(w, files.cab)
  BY <1>9
<1>15. files'.key = Overwritten(r.keys, files.key)
  BY <1>9
<1>16. size' = Overwritten(s, size)
  BY <1>1
<1> HIDE DEF w, s
<1>17. Over(files'.cab, w, files.cab)
  BY <1>14, WhatIsOverwritten
<1>18. Over(files'.key, r.keys, files.key)
  BY <1>15, WhatIsOverwritten
<1>19. Over(size', s, size)
  BY <1>16, WhatIsOverwritten
<1>20. \A c \in DOMAIN files'.cab : files'.cab[c] \in MetaType(format)
  <2>1. \A c \in DOMAIN w : w[c] \in MetaType(format)
    BY <1>10, <1>12
  <2>2. \A c \in DOMAIN files.cab : files.cab[c] \in MetaType(format)
    BY <1>11
  <2> QED BY <1>17, <2>1, <2>2, OverTyped
<1>21. Mhy => \A b \in DOMAIN files'.key : files'.key[b] \in KeyType
  <2> HAVE Mhy
  <2>1. \A b \in DOMAIN r.keys : r.keys[b] \in KeyType
    BY <1>10
  <2>2. \A b \in DOMAIN files.key : files.key[b] \in KeyType
    BY <1>11
  <2> QED BY <1>18, <2>1, <2>2, OverTyped
<1>22. \A c \in DOMAIN size' : size'[c] \in Nat
  <2>1. \A c \in DOMAIN s : s[c] \in Nat
    BY <1>6, <1>13
  <2>2. \A c \in DOMAIN size : size[c] \in Nat
    BY <1>11
  <2> QED BY <1>19, <2>1, <2>2, OverTyped
<1>23. Mhy' = Mhy
  BY <1>1 DEF Mhy
<1>24. FilesTyped'
  BY <1>1, <1>9, <1>10, <1>20, <1>21, <1>22, <1>23 DEF FilesTyped
<1>25. SizesThere'
  <2>1. Hdr' = r.hdr
    BY <1>9 DEF Hdr
  <2>2. DOMAIN r.cabs \subseteq DOMAIN size'
    BY <1>13, <1>19 DEF Over
  <2> QED BY <1>7, <1>10, <2>1, <2>2 DEF SizesThere
<1>26. (UnpackedFrom(before))'
  <2>3. \A c \in DOMAIN r.cabs : /\ c \in DOMAIN files'.cab /\ files'.cab[c] = r.cabs[c].meta
    BY <1>12, <1>17 DEF Over
  <2>4. \A c \in DOMAIN r.cabs : c \in DOMAIN size' /\ size'[c] = r.cabs[c].blk_sz
    BY <1>13, <1>19 DEF Over
  <2>5. \A b \in DOMAIN r.keys : b \in DOMAIN files'.key /\ files'.key[b] = r.keys[b]
    BY <1>18 DEF Over
  <2>6. (Reading(before))' = r
    BY <1>1 DEF Reading, r
  <2> QED BY <1>9, <2>3, <2>4, <2>5, <2>6 DEF UnpackedFrom
<1> QED BY <1>1, <1>3, <1>24, <1>25, <1>26 DEF HInv

\* Taking another archive keeps it, by OriginalsAssumption.
LEMMA FetchHolds ==
  ASSUME HInv, Fetch
  PROVE  HInv'
<1>1. /\ pc = "files" /\ packs = 0
      /\ \E o \in Originals[format] : archive' = o.archive /\ meant' = o.meant
      /\ pc' = "archive"
      /\ format' = format /\ files' = files /\ size' = size /\ before' = before
      /\ edited' = edited /\ packs' = packs
  BY DEF Fetch
<1>2. /\ format \in Formats /\ packs \in 0 .. MaxPacks /\ WellFormed(format, before) /\ FilesTyped
  BY DEF HInv, ArchiveInv
<1>3. PICK o \in Originals[format] : archive' = o.archive /\ meant' = o.meant
  BY <1>1
<1>4. WellFormed(format, archive') /\ ReadsAs(format, archive', meant')
  BY <1>2, <1>3, OriginalsAssumption
<1>5. ArchiveInv'
  BY <1>1, <1>2, <1>4 DEF ArchiveInv
<1>6. FilesTyped'
  BY <1>1, <1>2 DEF FilesTyped, Mhy
<1>7. ~(0 > 0)
  OBVIOUS
<1>8. ~Unpacked' /\ ~(packs' > 0)
  BY <1>1, <1>7 DEF Unpacked
<1> QED BY <1>5, <1>6, <1>8 DEF HInv

\* Editing or removing files keeps it.
LEMMA EditHolds ==
  ASSUME HInv, Edit
  PROVE  HInv'
<1>1. /\ pc = "files" /\ edited' = TRUE
      /\ format' = format /\ archive' = archive /\ meant' = meant /\ before' = before
      /\ packs' = packs /\ pc' = pc
  BY DEF Edit
<1>2. ArchiveInv /\ FilesTyped /\ SizesThere
  BY <1>1 DEF HInv, Unpacked
<1>3. ArchiveInv'
  BY <1>1, <1>2 DEF ArchiveInv
<1>4. Mhy' = Mhy /\ format \in Formats
  BY <1>1, <1>2 DEF Mhy, ArchiveInv
<1>5. /\ files = [hdr |-> files.hdr, cab |-> files.cab, key |-> files.key]
      /\ files.hdr # <<>> => HdrOk(format, files.hdr[1])
      /\ \A c \in DOMAIN files.cab : files.cab[c] \in MetaType(format)
      /\ Mhy => \A b \in DOMAIN files.key : files.key[b] \in KeyType
      /\ \A c \in DOMAIN size : size[c] \in Nat
  BY <1>2 DEF FilesTyped
<1>6. 1 \in DOMAIN size /\ 1 .. Hdr.cab_cnt \subseteq DOMAIN size /\ Hdr.cab_cnt >= 1
  BY <1>2 DEF SizesThere
<1>7. DOMAIN <<>> = {}
  OBVIOUS
<1>8. FilesTyped' /\ SizesThere'
  <2>1. CASE files' = [files EXCEPT !.hdr = <<>>] /\ UNCHANGED size
    <3>1. files' = [hdr |-> <<>>, cab |-> files.cab, key |-> files.key] /\ size' = size
      BY <1>5, <2>1
    <3>2. /\ files'.hdr = <<>> /\ files'.cab = files.cab /\ files'.key = files.key
          /\ files' = [hdr |-> files'.hdr, cab |-> files'.cab, key |-> files'.key]
      BY <3>1
    <3>3. FilesTyped'
      BY <1>1, <1>4, <1>5, <3>1, <3>2, Zenon DEF FilesTyped
    <3>4. Hdr'.cab_cnt = 1
      BY <1>1, <1>4, <3>2, DefaultsTyped, FormatNames DEF Hdr, DefaultHdr
    <3>5. 1 .. 1 = {1} /\ 1 >= 1
      BY SMT
    <3> QED BY <1>6, <3>1, <3>3, <3>4, <3>5 DEF SizesThere
  <2>2. CASE files' = [files EXCEPT !.cab = <<>>] /\ UNCHANGED size
    <3>1. files' = [hdr |-> files.hdr, cab |-> <<>>, key |-> files.key] /\ size' = size
      BY <1>5, <2>2
    <3>2. /\ files'.hdr = files.hdr /\ files'.cab = <<>> /\ files'.key = files.key
          /\ files' = [hdr |-> files'.hdr, cab |-> files'.cab, key |-> files'.key]
      BY <3>1
    <3>3. FilesTyped'
      BY <1>1, <1>4, <1>5, <1>7, <3>1, <3>2, Zenon DEF FilesTyped
    <3>4. Hdr' = Hdr
      BY <1>1, <3>2 DEF Hdr, DefaultHdr
    <3> QED BY <1>6, <3>1, <3>3, <3>4 DEF SizesThere
  <2>3. CASE files' = [files EXCEPT !.key = <<>>] /\ UNCHANGED size
    <3>1. files' = [hdr |-> files.hdr, cab |-> files.cab, key |-> <<>>] /\ size' = size
      BY <1>5, <2>3
    <3>2. /\ files'.hdr = files.hdr /\ files'.cab = files.cab /\ files'.key = <<>>
          /\ files' = [hdr |-> files'.hdr, cab |-> files'.cab, key |-> files'.key]
      BY <3>1
    <3>3. FilesTyped'
      BY <1>1, <1>4, <1>5, <1>7, <3>1, <3>2, Zenon DEF FilesTyped
    <3>4. Hdr' = Hdr
      BY <1>1, <3>2 DEF Hdr, DefaultHdr
    <3> QED BY <1>6, <3>1, <3>3, <3>4 DEF SizesThere
  <2>4. ASSUME NEW c \in DOMAIN size, NEW n \in CabSizes, size' = [size EXCEPT ![c] = n],
               UNCHANGED files
        PROVE  FilesTyped' /\ SizesThere'
    <3>1. DOMAIN size' = DOMAIN size /\ \A x \in DOMAIN size : size'[x] \in Nat
      BY <1>5, <2>4, SizesAssumption
    <3>2. FilesTyped'
      BY <1>1, <1>4, <1>5, <2>4, <3>1, Zenon DEF FilesTyped
    <3>3. Hdr' = Hdr
      BY <1>1, <2>4 DEF Hdr, DefaultHdr
    <3> QED BY <1>6, <3>1, <3>2, <3>3 DEF SizesThere
  <2> QED BY <2>1, <2>2, <2>3, <2>4 DEF Edit
<1> QED BY <1>1, <1>3, <1>8 DEF HInv

\* The length of a header is a number.
LEMMA LenIsNat ==
  ASSUME CabsFit, NEW S, NEW blks \in [1 .. BlockCount(Total) -> S], BlockCount(Total) \in Nat
  PROVE  Packed(Cabs, blks).len \in Nat
<1>1. format \in Formats /\ HeaderSize \in Nat /\ Cabs \in [1 .. CabCount -> CabType(format)]
  BY CabsTyped, SizesAssumption DEF CabsFit, Ready
<1>2. CASE format = "mhy0"
  <2>1. Packed(Cabs, blks).len = HeaderSize + 47
    BY <1>2 DEF Packed, Mhy0Pack
  <2> QED BY <1>1, <2>1, SMT
<1>3. CASE format = "mhy1"
  <2>1. Packed(Cabs, blks).len = HeaderSize + 63
    BY <1>3 DEF Packed, Mhy1Pack
  <2> QED BY <1>1, <2>1, SMT
<1>4. CASE format = "encr"
  <2>1. Packed(Cabs, blks).len = HeaderSize + 25
    BY <1>4 DEF Packed, EncrPack
  <2> QED BY <1>1, <2>1, SMT
<1>5. CASE format = "blb3"
  <2>1. Packed(Cabs, blks).len = Blb3Len(Cabs, blks)
    BY <1>5 DEF Packed, Blb3Pack
  <2>2. CabCount \in Nat /\ CabCount >= 1
    <3>1. \A x \in 1 .. 256 : x \in Nat /\ x >= 1
      BY SMT
    <3> QED BY <3>1, CountThose DEF CabsFit
  <2>3. Named(Cabs, CabCount) /\ Flagged(Cabs, CabCount)
    BY <1>1, <1>5, <2>2, Blb3CabsNamed, CabTypes
  <2>4. Len(blks) = BlockCount(Total)
    BY Tables
  <2>5. NamesFit(Cabs, blks, CabCount, BlockCount(Total))
    BY <2>2, <2>3, <2>4 DEF NamesFit
  <2>6. NamesFrom(Cabs, blks, CabCount, 88 + 4 * BlockCount(Total) + 16 * CabCount)
    BY <2>5, Blb3NameOrder
  <2>7. CabCount + 1 \in 1 .. CabCount + 1
    BY <2>2, SMT
  <2>8. Blb3NameAt(Cabs, blks, CabCount + 1) \in Nat
    BY <2>6, <2>7 DEF NamesFrom
  <2>9. Blb3Len(Cabs, blks) \in Nat
    BY <2>6, <2>8 DEF NamesFrom
  <2> QED BY <2>1, <2>9
<1> QED BY <1>1, <1>2, <1>3, <1>4, <1>5, FormatNames

\* Packing keeps it: what is written is found.
LEMMA PackHolds ==
  ASSUME HInv, Pack
  PROVE  HInv'
<1>1. /\ pc = "files" /\ packs < MaxPacks /\ Total \in 1 .. SizeLimit
      /\ packs' = packs + 1 /\ pc' = "archive"
      /\ format' = format /\ files' = files /\ size' = size /\ before' = before /\ edited' = edited
  BY DEF Pack, Total
<1>2. ArchiveInv /\ FilesTyped /\ SizesThere /\ format \in Formats
  BY <1>1 DEF HInv, Unpacked, ArchiveInv
<1>3. CabsFit
  BY <1>1, <1>2 DEF CabsFit, Ready, Total
<1>4. PICK cmp \in Compressed :
        /\ DOMAIN Blocks(cmp, Total) \subseteq DOMAIN cmp
        /\ archive' = Packed(Cabs, Blocks(cmp, Total))
        /\ meant' = [cabs |-> Cabs, blks |-> Blocks(cmp, Total)]
        /\ archive'.len + Sum(Cmps(Blocks(cmp, Total))) <= SizeLimit
  BY DEF Pack, Total
<1> DEFINE blks == Blocks(cmp, Total)
           d    == BlockCount(Total)
           own  == [b \in DOMAIN blks |-> blks[b].cmp]
<1>5. DOMAIN blks = 1 .. d /\ \A b \in 1 .. d : blks[b] = [cmp |-> cmp[b], dec |-> PlainSizes(Total)[b]]
  BY <1>1, BlocksDomain
<1>6. d \in Nat
  <2>1. d \in 1 .. MaxBlocks
    BY <1>1, PlainFacts
  <2>2. \A x \in 1 .. MaxBlocks : x \in Nat
    BY SMT DEF MaxBlocks
  <2> QED BY <2>1, <2>2
<1>7. \A b \in 1 .. d : blks[b].cmp = cmp[b] /\ blks[b].cmp \in Nat
  <2>1. cmp \in Seq(Nat)
    BY SizesAssumption
  <2>2. \A b \in DOMAIN cmp : cmp[b] \in Nat
    BY <2>1
  <2> QED BY <1>4, <1>5, <2>2
<1>8. blks = Blocks(own, Total)
  <2>1. DOMAIN PlainSizes(Total) = 1 .. d
    BY <1>1, PlainFacts
  <2>2. \A b \in 1 .. d : own[b] = cmp[b]
    BY <1>5, <1>7
  <2> HIDE DEF own, d
  <2> QED BY <2>1, <2>2 DEF Blocks, blks
<1>9. Sum(Cmps(blks)) \in Nat
  <2>1. Cmps(blks) \in [1 .. d -> Nat]
    BY <1>5, <1>7 DEF Cmps
  <2>2. Cmps(blks) \in Seq(Nat) /\ Len(Cmps(blks)) = d
    BY <1>6, <2>1, BytesSeq
  <2>3. /\ Before(Cmps(blks), Len(Cmps(blks)) + 1) = Sum(Cmps(blks))
        /\ \A k \in 1 .. Len(Cmps(blks)) + 1 : Before(Cmps(blks), k) \in Nat
    BY <2>2, BeforeFacts
  <2>4. d + 1 \in 1 .. d + 1
    BY <1>6, SMT
  <2> QED BY <2>2, <2>3, <2>4
<1>10. archive' = Packed(Cabs, blks) /\ meant' = [cabs |-> Cabs, blks |-> blks]
       /\ Packed(Cabs, blks).len + Sum(Cmps(blks)) <= SizeLimit
  BY <1>4
<1> HIDE DEF blks, d, own
<1>11. Packed(Cabs, blks).len \in Nat
  <2>1. blks = [b \in 1 .. d |-> blks[b]]
    BY <1>5, <1>8 DEF Blocks
  <2> DEFINE S == {blks[b] : b \in 1 .. d}
  <2>2. blks \in [1 .. d -> S]
    BY <2>1
  <2> HIDE DEF S
  <2> QED BY <1>3, <1>6, <2>2, LenIsNat DEF d
<1>12. Sum(Cmps(blks)) <= SizeLimit
  <2>1. \A l, s \in Nat : l + s <= SizeLimit => s <= SizeLimit
    BY Limit, SMT
  <2> QED BY <1>9, <1>10, <1>11, <2>1
<1>13. PackFits(blks)
  <2>1. BlocksGiven(blks, Total)
    BY <1>1, <1>5, <1>7, <1>8, <1>12 DEF BlocksGiven, own
  <2> QED BY <1>3, <1>10, <2>1 DEF PackFits
<1>14. WellFormed(format, archive') /\ ReadsAs(format, archive', meant')
  BY <1>10, <1>13, PackedSound
<1>15. packs' \in 0 .. MaxPacks
  <2>1. packs \in 0 .. MaxPacks /\ MaxPacks \in Nat
    BY <1>2, SizesAssumption DEF ArchiveInv
  <2> QED BY <1>1, <2>1, SMT
<1>16. ArchiveInv'
  BY <1>1, <1>2, <1>14, <1>15 DEF ArchiveInv
<1>17. Mhy' = Mhy /\ Hdr' = Hdr
  BY <1>1 DEF Mhy, Hdr, DefaultHdr
<1>18. FilesTyped' /\ SizesThere'
  <2>1. FilesTyped'
    BY <1>1, <1>2, <1>17 DEF FilesTyped
  <2> QED BY <1>1, <1>2, <1>17, <2>1 DEF SizesThere
<1>19. UnpackedFrom(before) => (UnpackedFrom(before))'
  BY <1>1, <1>17 DEF UnpackedFrom, Reading
<1>20. DefaultMeta' = DefaultMeta
  BY <1>1 DEF DefaultMeta
<1>21. Cabs' = Cabs
  <2>1. \A c : Meta(c)' = Meta(c)
    BY <1>1, <1>20 DEF Meta
  <2> QED BY <1>1, <1>17, <2>1 DEF Cabs
<1>22. \A b : Key(b)' = Key(b)
  BY <1>1 DEF Key
<1>23. PICK bs : bs = blks
  OBVIOUS
<1>24. (Packed(Cabs, bs))' = Packed(Cabs, bs)
  BY <1>1, <1>17, <1>21, <1>22 DEF Packed
<1>25. (PackFits(bs))'
  <2>1. Total' = Total
    BY <1>21 DEF Total
  <2>2. CabsFit'
    BY <1>1, <1>2, <1>3, <1>18, <1>21 DEF CabsFit, Ready
  <2>3. PackFits(bs)
    BY <1>13, <1>23
  <2> QED BY <2>1, <2>2, <2>3, <1>24 DEF PackFits, BlocksGiven
<1>26. PackedFrom'
  <2>1. meant' = [cabs |-> Cabs, blks |-> bs] /\ archive' = Packed(Cabs, bs)
    BY <1>10, <1>23
  <2>2. meant'.blks = bs
    BY <2>1
  <2> QED BY <1>21, <1>24, <1>25, <2>1, <2>2 DEF PackedFrom
<1>27. ~edited => UnpackedFrom(before)
  BY <1>1 DEF HInv, Unpacked
<1> QED BY <1>1, <1>16, <1>18, <1>19, <1>26, <1>27 DEF HInv

\* A step that changes nothing keeps it.
LEMMA StutterHolds ==
  ASSUME HInv, UNCHANGED vars
  PROVE  HInv'
<1>1. /\ format' = format /\ archive' = archive /\ meant' = meant /\ files' = files /\ size' = size
      /\ before' = before /\ edited' = edited /\ packs' = packs /\ pc' = pc
  BY DEF vars
<1>2. Mhy' = Mhy /\ Hdr' = Hdr /\ DefaultMeta' = DefaultMeta /\ Unpacked' = Unpacked
  BY <1>1 DEF Mhy, Hdr, DefaultHdr, DefaultMeta, Unpacked
<1>3. ArchiveInv' = ArchiveInv /\ FilesTyped' = FilesTyped /\ SizesThere' = SizesThere
      /\ (UnpackedFrom(before))' = UnpackedFrom(before)
  BY <1>1, <1>2 DEF ArchiveInv, FilesTyped, SizesThere, UnpackedFrom, Reading
<1>4. Cabs' = Cabs
  <2>1. \A c : Meta(c)' = Meta(c)
    BY <1>1, <1>2 DEF Meta
  <2> QED BY <1>1, <1>2, <2>1 DEF Cabs
<1>5. \A b : Key(b)' = Key(b)
  BY <1>1 DEF Key
<1>6. \A bs : (Packed(Cabs, bs))' = Packed(Cabs, bs)
  BY <1>1, <1>2, <1>4, <1>5 DEF Packed
<1>7. Total' = Total /\ CabsFit' = CabsFit
  BY <1>1, <1>3, <1>4 DEF Total, CabsFit, Ready
<1>8. \A bs : PackFits(bs)' = PackFits(bs)
  BY <1>6, <1>7 DEF PackFits, BlocksGiven
<1>9. PackedFrom => PackedFrom'
  <2> SUFFICES ASSUME PackedFrom PROVE PackedFrom'
    OBVIOUS
  <2>1. PICK bs : bs = meant.blks
    OBVIOUS
  <2>2. meant = [cabs |-> Cabs, blks |-> bs] /\ archive = Packed(Cabs, bs) /\ PackFits(bs)
    BY <2>1 DEF PackedFrom
  <2>3. meant'.blks = bs
    BY <1>1, <2>1
  <2>4. (PackFits(bs))'
    BY <1>8, <2>2
  <2>5. archive' = (Packed(Cabs, bs))'
    BY <1>1, <1>6, <2>2
  <2> QED BY <1>1, <1>4, <2>2, <2>3, <2>4, <2>5 DEF PackedFrom
<1> QED BY <1>1, <1>2, <1>3, <1>9 DEF HInv

\* In every state the archive is well formed and read as it was meant, the
\* files have their types, and they are what was extracted and packed.
THEOREM Invariant == Spec => []HInv
<1>1. HInv /\ [Next]_vars => HInv'
  BY ExtractHolds, FetchHolds, EditHolds, PackHolds, StutterHolds DEF Next
<1> QED BY InitHolds, <1>1, PTL DEF Spec

\* TypeOK: what the packers of all four formats make, from headers, cabs and
\* blocks of every size, is bytes at offsets, and the state keeps its types.
THEOREM TypesHold == Spec => []TypeOK
<1>1. HInv => TypeOK
  <2> SUFFICES ASSUME HInv PROVE TypeOK
    OBVIOUS
  <2>1. /\ pc \in {"archive", "files"} /\ packs \in 0 .. MaxPacks /\ WellFormed(format, archive)
        /\ \A c \in DOMAIN size : size[c] \in Nat
    BY DEF HInv, ArchiveInv, FilesTyped
  <2>2. /\ Memory(archive.outer) /\ Memory(archive.inner)
        /\ \A b \in DOMAIN archive.blocks : Memory(archive.blocks[b])
    BY <2>1 DEF WellFormed
  <2> QED BY <2>1, <2>2 DEF TypeOK
<1> QED BY Invariant, <1>1, PTL

\* ReadsBack: extract_* of mhy0, mhy1, encr and blb3 reads what the packer put
\* there: each cab by its name, place and size, each block by both of its sizes,
\* where the data begins and where the next archive does, for any number of cabs
\* up to 256 and any data that fits in 2^31 bytes. Of the flags of the cabs it
\* reads those of mhy0, of mhy1 and of the first 32 cabs of a blb3 as they were
\* meant, and those of encr with their four bytes in the other order; nothing is
\* said of those of a blb3 from the 33rd cab on, which are not read where they
\* are put (blb3.c:273).
THEOREM ReadBack == Spec => []ReadsBack
<1>1. HInv => ReadsBack
  BY DEF HInv, ArchiveInv, ReadsBack
<1> QED BY Invariant, <1>1, PTL

-----------------------------------------------------------------------------
(* What is sent to the file.                                                *)

\* The bytes an mhy packer leaves unset are exactly the holes.
LEMMA HolesFill ==
  ASSUME NEW n \in Nat, NEW d \in Nat
  PROVE  MhyInnerBytes(n, d) \cup Holes(n) = 0 .. (275 * n + 13 * d + 12) - 1
<1>1. \A c \in 1 .. n : 6 + 275 * (c - 1) + 260 \in 0 .. 11 + 275 * n + 13 * d
  BY SMT
<1>2. Holes(n) \subseteq 0 .. 11 + 275 * n + 13 * d
  <2> DEFINE all == 0 .. 11 + 275 * n + 13 * d
  <2>1. \A c \in 1 .. n : 6 + 275 * (c - 1) + 260 \in all
    BY <1>1
  <2> HIDE DEF all
  <2>2. Holes(n) \subseteq all
    BY <2>1, SMT DEF Holes
  <2> QED BY <2>2 DEF all
<1>3. 11 + 275 * n + 13 * d = (275 * n + 13 * d + 12) - 1
  BY SMT
<1> DEFINE top == 11 + 275 * n + 13 * d
           all == 0 .. top
<1>4. MhyInnerBytes(n, d) = all \ Holes(n) /\ Holes(n) \subseteq all
  BY <1>2 DEF MhyInnerBytes
<1>5. top = (275 * n + 13 * d + 12) - 1
  BY <1>3
<1> HIDE DEF all, top
<1>6. MhyInnerBytes(n, d) \cup Holes(n) = all
  BY <1>4
<1> QED BY <1>5, <1>6 DEF all

\* The sizes of the buffers, and names that they are large enough for.
EncrBuffer(n, d) == 10 * d + 278 * n
Blb3Buffer(n, d) == 60 + 4 * d + 16 * n + 28 + 256 * n
Usual(cabs, n)   == \A c \in 1 .. n : Len(cabs[c].meta.name) <= 240

Exact(f, a, cabs, blks, n, d) ==
  LET written == IF f = "blb3" THEN a.outer ELSE a.inner
      length == IF f = "blb3" THEN a.len ELSE a.inner_len
  IN  /\ DOMAIN written \cup (IF f \in MhyFormats THEN Holes(n) ELSE {}) = 0 .. length - 1
      /\ f \in MhyFormats => length <= MhyInnerLen(cabs, blks)
      /\ f = "encr" /\ Usual(cabs, n) => length <= EncrBuffer(n, d)
      /\ f = "blb3" /\ Usual(cabs, n) => length <= Blb3Buffer(n, d)

\* An mhy inner header has the length the header says.
LEMMA MhyExact ==
  ASSUME NEW f \in MhyFormats, NEW a, NEW cabs, NEW blks, NEW keys, NEW n, NEW d,
         MhyGiven(cabs, blks, keys, n, d), a.inner_len = MhyInnerLen(cabs, blks),
         DOMAIN a.inner = MhyInnerBytes(n, d)
  PROVE  Exact(f, a, cabs, blks, n, d)
<1>1. /\ MhyInnerLen(cabs, blks) = 275 * n + 13 * d + 12 /\ MhyInnerLen(cabs, blks) \in Small
      /\ n \in Nat /\ d \in Nat
  BY MhyLens
<1>2. f # "encr" /\ f # "blb3"
  BY FormatNames
<1>3. DOMAIN a.inner \cup Holes(n) = 0 .. a.inner_len - 1
  BY <1>1, HolesFill
<1>4. a.inner_len <= MhyInnerLen(cabs, blks)
  <2>1. \A x \in Nat : x <= x
    BY SMT
  <2> QED BY <1>1, <2>1, SmallNumbers
<1> QED BY <1>2, <1>3, <1>4 DEF Exact

\* So has every header Pack writes.
LEMMA PackedExact ==
  ASSUME NEW blks, PackFits(blks), NEW a, a = Packed(Cabs, blks)
  PROVE  Exact(format, a, Cabs, blks, CabCount, BlockCount(Total))
<1> DEFINE d == BlockCount(Total)
<1>1. format \in Formats
  BY PackCounts
<1>2. CASE format = "mhy0"
  <2>1. MhyGiven(Cabs, blks, Keys(blks), CabCount, d) /\ format \in MhyFormats
    BY <1>2, MhyPackGiven, FormatNames DEF Mhy
  <2>2. a = Mhy0Pack(Hdr, Cabs, Keys(blks), blks) /\ Hdr \in HdrType("mhy0") /\ Room(47)
    BY <1>2, Mhy0PackGiven
  <2>3. DOMAIN a.inner = MhyInnerBytes(CabCount, d)
    BY <2>1, <2>2, Mhy0Packed
  <2>4. a.inner_len = MhyInnerLen(Cabs, blks)
    BY <2>2 DEF Mhy0Pack
  <2> QED BY <2>1, <2>3, <2>4, MhyExact
<1>3. CASE format = "mhy1"
  <2>1. MhyGiven(Cabs, blks, Keys(blks), CabCount, d) /\ format \in MhyFormats
    BY <1>3, MhyPackGiven, FormatNames DEF Mhy
  <2>2. a = Mhy1Pack(Hdr, Cabs, Keys(blks), blks) /\ Hdr \in HdrType("mhy1") /\ Room(63)
    BY <1>3, Mhy1PackGiven
  <2>3. DOMAIN a.inner = MhyInnerBytes(CabCount, d)
    BY <2>1, <2>2, Mhy1Packed
  <2>4. a.inner_len = MhyInnerLen(Cabs, blks)
    BY <2>2 DEF Mhy1Pack
  <2> QED BY <2>1, <2>3, <2>4, MhyExact
<1>4. CASE format = "encr"
  <2>1. /\ a = EncrPack(Hdr, Cabs, Keys(blks), blks) /\ Hdr \in HdrType("encr")
        /\ EncrGiven(Cabs, blks, CabCount, d) /\ DataFits(blks, 25)
    BY <1>4, EncrPackGiven
  <2>2. a.inner = EncrInner(Cabs, blks) /\ a.inner_len = EncrInnerLen(Cabs, blks)
    BY <2>1 DEF EncrPack
  <2>3. DOMAIN a.inner \cup {} = 0 .. a.inner_len - 1
    BY <2>1, <2>2, EncrMemory
  <2>4. Usual(Cabs, CabCount) => a.inner_len <= EncrBuffer(CabCount, d)
    BY <2>1, <2>2, EncrRoom DEF Usual, EncrBuffer
  <2> HIDE DEF d
  <2>5. format # "blb3" /\ format \notin MhyFormats
    BY <1>4, FormatNames
  <2> QED BY <2>3, <2>4, <2>5 DEF Exact, d
<1>5. CASE format = "blb3"
  <2>1. /\ a = Blb3Pack(Hdr, Cabs, Keys(blks), blks) /\ Hdr \in HdrType("blb3")
        /\ Blb3Given(Cabs, blks, CabCount, d)
    BY <1>5, Blb3PackGiven
  <2>2. a.outer = Blb3Outer(Hdr, Cabs, blks) /\ a.len = Blb3Len(Cabs, blks)
    BY <2>1 DEF Blb3Pack
  <2>3. DOMAIN a.outer \cup {} = 0 .. a.len - 1
    BY <2>1, <2>2, Blb3Memory
  <2>4. Usual(Cabs, CabCount) => a.len <= Blb3Buffer(CabCount, d)
    BY <2>1, <2>2, Blb3Room DEF Usual, Blb3Buffer
  <2> HIDE DEF d
  <2>5. format # "encr" /\ format \notin MhyFormats
    BY <1>5, FormatNames
  <2> QED BY <1>5, <2>3, <2>4, <2>5 DEF Exact, d
<1> QED BY <1>1, <1>2, <1>3, <1>4, <1>5, FormatNames

\* HeaderExact: pack_* sets every byte of a header that it sends, but for the one
\* after each name of mhy0 and mhy1, and sets none outside of its buffer.
THEOREM HeadersExact == Spec => []HeaderExact
<1>1. HInv => HeaderExact
  <2> SUFFICES ASSUME HInv, pc = "archive", packs > 0
               PROVE  HeaderExact
    BY DEF HeaderExact
  <2>1. PICK blks : blks = meant.blks
    OBVIOUS
  <2>2. /\ meant = [cabs |-> Cabs, blks |-> blks] /\ archive = Packed(Cabs, blks) /\ PackFits(blks)
    BY <2>1 DEF HInv, PackedFrom
  <2> DEFINE n == CabCount
             d == BlockCount(Total)
  <2>3. Exact(format, archive, Cabs, blks, n, d)
    BY <2>2, PackedExact
  <2>4. DOMAIN Cabs = 1 .. n /\ Len(blks) = d /\ Len(Cabs) = n /\ format \in Formats
    <3>1. /\ Cabs \in [1 .. n -> CabType(format)] /\ blks \in [1 .. d -> BlkType] /\ Counts(n, d)
          /\ format \in Formats
      BY <2>2, PackCounts
    <3>2. n \in Nat /\ d \in Nat
      BY <3>1, CountsSmall
    <3> HIDE DEF n, d
    <3> QED BY <3>1, <3>2, Tables
  <2>5. meant.cabs = Cabs /\ meant.blks = blks
    BY <2>2
  <2> HIDE DEF n, d
  <2>6. (IF Mhy THEN {6 + 275 * (c - 1) + 260 : c \in DOMAIN meant.cabs} ELSE {})
          = IF format \in MhyFormats THEN Holes(n) ELSE {}
    BY <2>4, <2>5 DEF Holes, Mhy
  <2>7. (\A c \in DOMAIN meant.cabs : Len(meant.cabs[c].meta.name) <= 240)
          <=> Usual(Cabs, n)
    BY <2>4, <2>5 DEF Usual
  <2> DEFINE room == CASE Mhy -> MhyInnerLen(meant.cabs, meant.blks)
                       [] format = "encr" -> 10 * Len(meant.blks) + 278 * Len(meant.cabs)
                       [] format = "blb3" -> 60 + 4 * Len(meant.blks) + 16 * Len(meant.cabs) + 28
                                             + 256 * Len(meant.cabs)
  <2>8. /\ format \in MhyFormats => room = MhyInnerLen(Cabs, blks)
        /\ format = "encr" => room = EncrBuffer(n, d)
        /\ format = "blb3" => room = Blb3Buffer(n, d)
    <3>1. format \in MhyFormats => room = MhyInnerLen(Cabs, blks)
      BY <2>5, FormatNames DEF Mhy
    <3>2. format = "encr" => room = EncrBuffer(n, d)
      BY <2>4, <2>5, FormatNames DEF Mhy, EncrBuffer
    <3>3. format = "blb3" => room = Blb3Buffer(n, d)
      BY <2>4, <2>5, FormatNames DEF Mhy, Blb3Buffer
    <3> QED BY <3>1, <3>2, <3>3
  <2> HIDE DEF room
  <2> DEFINE usual   == \A c \in DOMAIN meant.cabs : Len(meant.cabs[c].meta.name) <= 240
             written == IF format = "blb3" THEN archive.outer ELSE archive.inner
             length  == IF format = "blb3" THEN archive.len ELSE archive.inner_len
             unset   == IF Mhy THEN {6 + 275 * (c - 1) + 260 : c \in DOMAIN meant.cabs} ELSE {}
  <2>9. DOMAIN written \cup unset = 0 .. length - 1
    BY <2>3, <2>6 DEF Exact
  <2>10. Mhy \/ usual => length <= room
    BY <2>3, <2>4, <2>7, <2>8, FormatNames DEF Exact, Mhy
  <2> QED BY <2>9, <2>10, Zenon DEF HeaderExact, room
<1> QED BY Invariant, <1>1, PTL

-----------------------------------------------------------------------------
(* Unpacked and packed again.                                               *)

\* What the packer starts from is what was read of the archive before.
Again(old, n, d, keys) ==
  /\ Hdr = old.hdr /\ n = old.hdr.cab_cnt /\ DOMAIN old.cabs = 1 .. n
  /\ \A c \in 1 .. n : /\ Cabs[c].meta = old.cabs[c].meta
                       /\ Cabs[c].blk_off = old.cabs[c].blk_off
                       /\ Cabs[c].blk_sz = old.cabs[c].blk_sz
  /\ DOMAIN old.blks = 1 .. d
  /\ Mhy => keys = old.keys

Untouched ==
  HInv /\ pc = "archive" /\ packs > 0 /\ ~edited /\ Reading(before).hdr.cab_cnt <= 256

\* The keys an mhy reader returns are a function on its blocks.
LEMMA MhyKeysFunction ==
  ASSUME NEW f \in MhyFormats, NEW a
  PROVE  ReadOf(f, a).keys = [b \in DOMAIN ReadOf(f, a).keys |-> ReadOf(f, a).keys[b]]
<1>1. CASE f = "mhy0"
  <2>1. Mhy0Read(a).keys = [b \in DOMAIN Mhy0Read(a).keys |-> Mhy0Read(a).keys[b]]
    BY Zenon DEF Mhy0Read, MhyRead
  <2> QED BY <1>1, <2>1, FormatNames
<1>2. CASE f = "mhy1"
  <2>1. Mhy1Read(a).keys = [b \in DOMAIN Mhy1Read(a).keys |-> Mhy1Read(a).keys[b]]
    BY Zenon DEF Mhy1Read, MhyRead
  <2> QED BY <1>2, <2>1, FormatNames
<1> QED BY <1>1, <1>2, FormatNames

\* Packing what was just unpacked lays out the same counts, keys and meta data.
LEMMA Repacked ==
  ASSUME Untouched
  PROVE  Again(Reading(before), CabCount, BlockCount(Total), Keys(meant.blks))
<1> DEFINE old == Reading(before)
<1>1. /\ UnpackedFrom(before) /\ PackedFrom /\ FilesTyped /\ SizesThere /\ format \in Formats
      /\ WellFormed(format, before) /\ old.hdr.cab_cnt <= 256
  BY DEF Untouched, HInv, ArchiveInv, Unpacked
<1>2. Typed(format, old)
  BY <1>1, WellFormedTyped DEF Reading
<1>3. PackFits(meant.blks) /\ CabsFit /\ Ready
  BY <1>1 DEF PackedFrom, PackFits, CabsFit
<1>4. /\ \A c \in DOMAIN old.cabs : old.cabs[c].blk_off = Before(Sizes(old.cabs), c)
      /\ Sum(Sizes(old.cabs)) \in 1 .. SizeLimit
      /\ old.blks = Blocks([b \in DOMAIN old.blks |-> old.blks[b].cmp], Sum(Sizes(old.cabs)))
  BY <1>1, Zenon DEF WellFormed, Reading
<1>5. /\ files.hdr = <<old.hdr>>
      /\ \A c \in DOMAIN old.cabs : /\ c \in DOMAIN files.cab /\ files.cab[c] = old.cabs[c].meta
                                    /\ c \in DOMAIN size /\ size[c] = old.cabs[c].blk_sz
      /\ Mhy => \A b \in DOMAIN old.keys : b \in DOMAIN files.key /\ files.key[b] = old.keys[b]
  BY <1>1 DEF UnpackedFrom
<1>6. Mhy => old.keys = [b \in DOMAIN old.keys |-> old.keys[b]]
  BY MhyKeysFunction DEF Mhy, Reading
<1> HIDE DEF old
<1>7. Hdr = old.hdr
  <2>1. <<old.hdr>> # <<>> /\ <<old.hdr>>[1] = old.hdr
    OBVIOUS
  <2> QED BY <1>5, <2>1 DEF Hdr
<1>8. CabCount = old.hdr.cab_cnt /\ DOMAIN old.cabs = 1 .. CabCount
  BY <1>1, <1>2, <1>3, <1>7, CountThose DEF Typed
<1> DEFINE n == CabCount
           d == BlockCount(Total)
<1>9. /\ DOMAIN Cabs = 1 .. n /\ Sizes(Cabs) = CabSizesOf
      /\ \A c \in 1 .. n :
           Cabs[c] = [meta |-> Meta(c), blk_off |-> Before(CabSizesOf, c), blk_sz |-> size[c]]
  BY <1>3, CabsAre
<1>10. Sizes(old.cabs) = CabSizesOf
  BY <1>5, <1>8 DEF Sizes, CabSizesOf
<1>11. \A c \in 1 .. n : /\ Cabs[c].meta = old.cabs[c].meta
                         /\ Cabs[c].blk_off = old.cabs[c].blk_off
                         /\ Cabs[c].blk_sz = old.cabs[c].blk_sz
  <2> TAKE c \in 1 .. n
  <2>1. Cabs[c] = [meta |-> Meta(c), blk_off |-> Before(CabSizesOf, c), blk_sz |-> size[c]]
    BY <1>9
  <2>2. c \in DOMAIN old.cabs
    BY <1>8
  <2>3. Meta(c) = old.cabs[c].meta
    BY <1>5, <2>2 DEF Meta
  <2>4. Before(CabSizesOf, c) = old.cabs[c].blk_off /\ size[c] = old.cabs[c].blk_sz
    BY <1>4, <1>5, <1>10, <2>2
  <2> HIDE DEF n
  <2> QED BY <2>1, <2>3, <2>4
<1>12. Total = Sum(Sizes(old.cabs))
  BY <1>9, <1>10 DEF Total
<1>13. DOMAIN old.blks = 1 .. d
  BY <1>4, <1>12, BlocksDomain
<1>14. DOMAIN meant.blks = 1 .. d
  <2>1. meant.blks \in [1 .. d -> BlkType]
    BY <1>3, PackCounts
  <2> HIDE DEF d
  <2> QED BY <2>1
<1>15. Mhy => Keys(meant.blks) = old.keys
  <2> HAVE Mhy
  <2>1. DOMAIN old.keys = 1 .. d
    BY <1>2, <1>13 DEF Typed, Mhy
  <2>2. \A b \in 1 .. d : Key(b) = old.keys[b]
    BY <1>5, <2>1 DEF Key
  <2>3. Keys(meant.blks) = [b \in 1 .. d |-> old.keys[b]]
    BY <1>14, <2>2 DEF Keys
  <2> HIDE DEF d
  <2> QED BY <1>6, <2>1, <2>3
<1> QED BY <1>7, <1>8, <1>11, <1>13, <1>15 DEF Again, old

\* What a packer keeps of what it starts from.
KeptBy(f, new, hdr, cabs, keys, n) ==
  /\ \A x \in DOMAIN new.hdr \ {"cmpr_type", "block_sz_shift"} :
       new.hdr[x] = IF x = "cab_cnt" THEN n ELSE hdr[x]
  /\ DOMAIN new.cabs = 1 .. n
  /\ \A c \in 1 .. n : new.cabs[c].meta.name = cabs[c].meta.name
  /\ f = "blb3" => \A c \in 1 .. n : c <= 32 => new.cabs[c].meta.flag = cabs[c].meta.flag
  /\ f = "encr" => \A c \in 1 .. n : new.cabs[c].meta.flag = Turned(cabs[c].meta.flag)
  /\ f \in MhyFormats => new.cabs = cabs /\ new.keys = keys

\* One record of a header, of which only the number of cabs is another one.
Recounted(new, hdr, n) ==
  \A x \in DOMAIN new \ {"cmpr_type", "block_sz_shift"} : new[x] = IF x = "cab_cnt" THEN n ELSE hdr[x]

\* Only the fields a packer sets change in a header.
LEMMA HdrsKept ==
  ASSUME NEW n, NEW hdr
  PROVE  /\ hdr \in HdrType("mhy0") => Recounted([hdr EXCEPT !.cab_cnt = n], hdr, n)
         /\ hdr \in HdrType("mhy1") => Recounted([hdr EXCEPT !.cab_cnt = n], hdr, n)
         /\ hdr \in HdrType("encr") => Recounted([hdr EXCEPT !.cab_cnt = n], hdr, n)
         /\ hdr \in HdrType("blb3")
            => Recounted([hdr EXCEPT !.cab_cnt = n, !.cmpr_type = 3, !.block_sz_shift = 17], hdr, n)
<1>1. ASSUME hdr \in HdrType("mhy0"), NEW x \in DOMAIN [hdr EXCEPT !.cab_cnt = n]
      PROVE  [hdr EXCEPT !.cab_cnt = n][x] = IF x = "cab_cnt" THEN n ELSE hdr[x]
  BY <1>1 DEF HdrType
<1>2. ASSUME hdr \in HdrType("mhy1"), NEW x \in DOMAIN [hdr EXCEPT !.cab_cnt = n]
      PROVE  [hdr EXCEPT !.cab_cnt = n][x] = IF x = "cab_cnt" THEN n ELSE hdr[x]
  BY <1>2 DEF HdrType
<1>3. ASSUME hdr \in HdrType("encr"), NEW x \in DOMAIN [hdr EXCEPT !.cab_cnt = n]
      PROVE  [hdr EXCEPT !.cab_cnt = n][x] = IF x = "cab_cnt" THEN n ELSE hdr[x]
  BY <1>3 DEF HdrType
<1> DEFINE g == [hdr EXCEPT !.cab_cnt = n, !.cmpr_type = 3, !.block_sz_shift = 17]
<1>4. ASSUME hdr \in HdrType("blb3"), NEW x \in DOMAIN g \ {"cmpr_type", "block_sz_shift"}
      PROVE  g[x] = IF x = "cab_cnt" THEN n ELSE hdr[x]
  BY <1>4 DEF HdrType
<1> HIDE DEF g
<1>5. hdr \in HdrType("blb3") => Recounted(g, hdr, n)
  BY <1>4 DEF Recounted
<1> QED BY <1>1, <1>2, <1>3, <1>5 DEF Recounted, g

\* The meta data read from what was packed is the meta data packed.
LEMMA PackedKept ==
  ASSUME NEW blks, PackFits(blks), NEW a, a = Packed(Cabs, blks)
  PROVE  KeptBy(format, ReadOf(format, a), Hdr, Cabs, Keys(blks), CabCount)
<1> DEFINE n == CabCount
           d == BlockCount(Total)
           r == ReadOf(format, a)
<1>1. /\ format \in Formats /\ DOMAIN Cabs = 1 .. n
  <2>1. CabsFit /\ Ready
    BY DEF PackFits, CabsFit
  <2> QED BY <2>1, CabsAre, PackCounts
<1>2. ASSUME NEW len, MhyReads(r, Hdr, Cabs, Keys(blks), blks, n, len), format \in MhyFormats,
             Recounted([Hdr EXCEPT !.cab_cnt = n], Hdr, n)
      PROVE  KeptBy(format, r, Hdr, Cabs, Keys(blks), n)
  <2>1. r.hdr = [Hdr EXCEPT !.cab_cnt = n] /\ r.cabs = Cabs /\ r.keys = Keys(blks)
    BY <1>2 DEF MhyReads
  <2>2. Recounted(r.hdr, Hdr, n) /\ format # "blb3" /\ format # "encr"
    BY <1>2, <2>1, FormatNames
  <2> HIDE DEF r, n
  <2> QED BY <1>1, <2>1, <2>2 DEF KeptBy, Recounted
<1>3. CASE format = "mhy0"
  <2>1. MhyGiven(Cabs, blks, Keys(blks), n, d) /\ format \in MhyFormats
    BY <1>3, MhyPackGiven, FormatNames DEF Mhy
  <2>2. a = Mhy0Pack(Hdr, Cabs, Keys(blks), blks) /\ Hdr \in HdrType("mhy0") /\ Room(47)
    BY <1>3, Mhy0PackGiven
  <2>3. MhyReads(Mhy0Read(a), Hdr, Cabs, Keys(blks), blks, n, HeaderSize + 47)
    BY <2>1, <2>2, Mhy0Reads
  <2>4. r = Mhy0Read(a)
    BY <1>3, FormatNames
  <2> QED BY <1>2, <2>1, <2>2, <2>3, <2>4, HdrsKept
<1>4. CASE format = "mhy1"
  <2>1. MhyGiven(Cabs, blks, Keys(blks), n, d) /\ format \in MhyFormats
    BY <1>4, MhyPackGiven, FormatNames DEF Mhy
  <2>2. a = Mhy1Pack(Hdr, Cabs, Keys(blks), blks) /\ Hdr \in HdrType("mhy1") /\ Room(63)
    BY <1>4, Mhy1PackGiven
  <2>3. MhyReads(Mhy1Read(a), Hdr, Cabs, Keys(blks), blks, n, HeaderSize + 63)
    BY <2>1, <2>2, Mhy1Reads
  <2>4. r = Mhy1Read(a)
    BY <1>4, FormatNames
  <2> QED BY <1>2, <2>1, <2>2, <2>3, <2>4, HdrsKept
<1>5. CASE format = "encr"
  <2>1. /\ a = EncrPack(Hdr, Cabs, Keys(blks), blks) /\ Hdr \in HdrType("encr") /\ Lz4Type(Hdr.flags)
        /\ EncrGiven(Cabs, blks, n, d) /\ DataFits(blks, 25)
    BY <1>5, EncrPackGiven
  <2>2. EncrReads(EncrRead(a), Hdr, Cabs, blks, n, HeaderSize + 25)
    BY <2>1, EncrPackReads
  <2>3. r = EncrRead(a) /\ format # "blb3" /\ format \notin MhyFormats
    BY <1>5, FormatNames
  <2>4. /\ r.hdr = [Hdr EXCEPT !.cab_cnt = n] /\ DOMAIN r.cabs = 1 .. n
        /\ \A c \in 1 .. n : /\ r.cabs[c].meta.name = Cabs[c].meta.name
                             /\ r.cabs[c].meta.flag = Turned(Cabs[c].meta.flag)
    BY <2>2, <2>3 DEF EncrReads
  <2>5. Recounted(r.hdr, Hdr, n)
    BY <2>1, <2>4, HdrsKept
  <2> HIDE DEF r, n
  <2> QED BY <2>3, <2>4, <2>5 DEF KeptBy, Recounted, n, r
<1>6. CASE format = "blb3"
  <2>1. /\ a = Blb3Pack(Hdr, Cabs, Keys(blks), blks) /\ Hdr \in HdrType("blb3")
        /\ Blb3Given(Cabs, blks, n, d)
    BY <1>6, Blb3PackGiven
  <2>2. Blb3Reads(Blb3Read(a), Hdr, Cabs, blks, n, Blb3Len(Cabs, blks))
    BY <2>1, Blb3PackReads
  <2>3. r = Blb3Read(a) /\ format \notin MhyFormats /\ format # "encr"
    BY <1>6, FormatNames
  <2>4. r.hdr = [Hdr EXCEPT !.cab_cnt = n, !.cmpr_type = 3, !.block_sz_shift = 17]
    BY <2>2, <2>3 DEF Blb3Reads
  <2>5. /\ DOMAIN r.cabs = 1 .. n /\ \A c \in 1 .. n : r.cabs[c].meta.name = Cabs[c].meta.name
        /\ \A c \in 1 .. n : c <= 32 => r.cabs[c].meta.flag = Cabs[c].meta.flag
    BY <2>2, <2>3 DEF Blb3Reads
  <2>6. Recounted([Hdr EXCEPT !.cab_cnt = n, !.cmpr_type = 3, !.block_sz_shift = 17], Hdr, n)
    BY <2>1, HdrsKept
  <2>7. Recounted(r.hdr, Hdr, n)
    BY <2>4, <2>6
  <2> HIDE DEF r, n
  <2>8. \A x \in DOMAIN r.hdr \ {"cmpr_type", "block_sz_shift"} :
          r.hdr[x] = IF x = "cab_cnt" THEN n ELSE Hdr[x]
    BY <2>7 DEF Recounted
  <2>9. KeptBy(format, r, Hdr, Cabs, Keys(blks), n)
    BY <2>3, <2>5, <2>8 DEF KeptBy
  <2> QED BY <2>9 DEF n, r
<1> QED BY <1>1, <1>3, <1>4, <1>5, <1>6, FormatNames

\* MetadataKept: what extract_* found in an archive of at most 256 cabs and wrote
\* into the .hdr, .cabN.hdr and .blkN.key files is in the archive that pack_*
\* makes of those files, whatever sizes the blocks are compressed to: the fields
\* of the header, the names, all there is of a cab and of a block's key in mhy0
\* and mhy1, the flags of the first 32 cabs of a blb3, and the bytes of the flags
\* of an encr's cabs, in the other order. The order of those (CabFlagsKept) and
\* the flags of a blb3 past the 32nd cab (blb3.c:273) are not kept.
THEOREM KeepsMetadata == Spec => []MetadataKept
<1>1. HInv => MetadataKept
  <2> DEFINE new == Reading(archive)
             old == Reading(before)
             n   == CabCount
  <2> SUFFICES ASSUME HInv, pc = "archive", packs > 0, ~edited, old.hdr.cab_cnt <= 256
               PROVE  /\ \A x \in DOMAIN new.hdr \ {"cmpr_type", "block_sz_shift"} :
                           new.hdr[x] = old.hdr[x]
                      /\ DOMAIN new.cabs = DOMAIN old.cabs
                      /\ \A c \in DOMAIN old.cabs : new.cabs[c].meta.name = old.cabs[c].meta.name
                      /\ format = "blb3" =>
                           \A c \in DOMAIN old.cabs :
                             c <= 32 => new.cabs[c].meta.flag = old.cabs[c].meta.flag
                      /\ format = "encr" =>
                           \A c \in DOMAIN old.cabs :
                             new.cabs[c].meta.flag = Turned(old.cabs[c].meta.flag)
                      /\ Mhy => /\ \A c \in DOMAIN old.cabs : new.cabs[c].meta = old.cabs[c].meta
                                /\ new.keys = old.keys
    BY Zenon DEF MetadataKept
  <2>1. Untouched /\ PackedFrom
    BY DEF Untouched, HInv
  <2>2. Again(old, n, BlockCount(Total), Keys(meant.blks))
    BY <2>1, Repacked
  <2>3. KeptBy(format, new, Hdr, Cabs, Keys(meant.blks), n)
    BY <2>1, PackedKept DEF PackedFrom, Reading
  <2> HIDE DEF new, old, n
  <2>4. /\ Hdr = old.hdr /\ n = old.hdr.cab_cnt /\ DOMAIN old.cabs = 1 .. n
        /\ \A c \in 1 .. n : Cabs[c].meta = old.cabs[c].meta
        /\ Mhy => Keys(meant.blks) = old.keys
    BY <2>2 DEF Again
  <2>5. /\ \A x \in DOMAIN new.hdr \ {"cmpr_type", "block_sz_shift"} :
             new.hdr[x] = IF x = "cab_cnt" THEN n ELSE old.hdr[x]
        /\ DOMAIN new.cabs = 1 .. n
        /\ \A c \in 1 .. n : new.cabs[c].meta.name = Cabs[c].meta.name
        /\ format = "blb3" => \A c \in 1 .. n : c <= 32 => new.cabs[c].meta.flag = Cabs[c].meta.flag
        /\ format = "encr" => \A c \in 1 .. n : new.cabs[c].meta.flag = Turned(Cabs[c].meta.flag)
        /\ Mhy => new.cabs = Cabs /\ new.keys = Keys(meant.blks)
    BY <2>3, <2>4 DEF KeptBy, Mhy
  <2>6. \A x \in DOMAIN new.hdr \ {"cmpr_type", "block_sz_shift"} : new.hdr[x] = old.hdr[x]
    BY <2>4, <2>5
  <2>7. \A c \in DOMAIN old.cabs : new.cabs[c].meta.name = old.cabs[c].meta.name
    BY <2>4, <2>5
  <2>8. format = "blb3" => \A c \in DOMAIN old.cabs :
                             c <= 32 => new.cabs[c].meta.flag = old.cabs[c].meta.flag
    BY <2>4, <2>5
  <2>9. Mhy => /\ \A c \in DOMAIN old.cabs : new.cabs[c].meta = old.cabs[c].meta
               /\ new.keys = old.keys
    BY <2>4, <2>5
  <2>10. format = "encr" => \A c \in DOMAIN old.cabs :
                              new.cabs[c].meta.flag = Turned(old.cabs[c].meta.flag)
    BY <2>4, <2>5
  <2> QED BY <2>4, <2>5, <2>6, <2>7, <2>8, <2>9, <2>10
<1> QED BY Invariant, <1>1, PTL

-----------------------------------------------------------------------------
(* Every byte of mhy0 and mhy1 is put back where it was.                    *)

\* Two memories of the same offsets, one of which agrees with the other.
Twins(m, u) ==
  /\ DOMAIN m = DOMAIN u /\ m = [x \in DOMAIN m |-> m[x]] /\ u = [x \in DOMAIN u |-> u[x]]
  /\ Agrees(m, u)

\* Functions with one domain and the same values are equal.
LEMMA TwinsEqual ==
  ASSUME NEW m, NEW u, Twins(m, u)
  PROVE  m = u
<1>1. DOMAIN m = DOMAIN u /\ m = [x \in DOMAIN m |-> m[x]] /\ u = [x \in DOMAIN u |-> u[x]]
  BY DEF Twins
<1>2. \A x \in DOMAIN u : Get(m, x) = u[x]
  BY DEF Twins, Agrees
<1>3. \A x \in DOMAIN u : m[x] = u[x]
  BY <1>1, <1>2 DEF Get
<1> QED BY <1>1, <1>3

\* A memory is a function on its offsets.
LEMMA MemoryFunction ==
  ASSUME NEW m, Memory(m)
  PROVE  m = [x \in DOMAIN m |-> m[x]]
BY DEF Memory

SameThere(t, e, i, k, w) ==
  IsCut(t, e, i, k) /\ w \in [1 .. k -> Byte] /\ \A x \in 1 .. k : e[i + (x - 1)] = w[x]

\* Cuts of one place are equal.
LEMMA SameCut ==
  ASSUME NEW t, NEW e, NEW i, NEW k, NEW w, SameThere(t, e, i, k, w)
  PROVE  t = w
<1>1. t \in [1 .. k -> Byte] /\ w \in [1 .. k -> Byte] /\ \A x \in 1 .. k : t[x] = w[x]
  BY DEF SameThere, IsCut
<1>2. t = [x \in 1 .. k |-> t[x]] /\ w = [x \in 1 .. k |-> w[x]]
  BY <1>1
<1>3. [x \in 1 .. k |-> t[x]] = [x \in 1 .. k |-> w[x]]
  BY <1>1
<1> QED BY <1>2, <1>3

\* s and t put together are e.
JoinedIs(e, s, t, k, l) ==
  /\ e \in [1 .. k + l -> Byte]
  /\ \A x \in 1 .. k : e[x] = s[x]
  /\ \A x \in 1 .. l : e[k + x] = t[x]

\* What a concatenation holds, by its two parts.
LEMMA JoinedParts ==
  ASSUME NEW s, NEW t, NEW k, NEW l, Lengths(s, t, k, l)
  PROVE  JoinedIs(s \o t, s, t, k, l)
<1>1. k \in Nat /\ l \in Nat /\ s \in [1 .. k -> Byte] /\ t \in [1 .. l -> Byte]
  BY DEF Lengths
<1>2. s \in Seq(Byte) /\ t \in Seq(Byte) /\ Len(s) = k /\ Len(t) = l
  BY <1>1, BytesSeq
<1> QED BY <1>2, Joined, JoinSeq DEF JoinedIs

\* What is after s, cut again.
After(s, t, k, l, i, n) == Lengths(s, t, k, l) /\ l >= 1 /\ i = k + 1 /\ n = k + l

\* Cutting the first part off a concatenation leaves the second.
LEMMA CutAfter ==
  ASSUME NEW s, NEW t, NEW k, NEW l, NEW i, NEW n, After(s, t, k, l, i, n)
  PROVE  SubSeq(s \o t, i, n) = t
<1> DEFINE e == s \o t
<1>0. Lengths(s, t, k, l)
  BY DEF After
<1>1. k \in Nat /\ l \in Nat /\ t \in [1 .. l -> Byte]
  BY <1>0 DEF Lengths
<1>2. e \in [1 .. k + l -> Byte] /\ \A x \in 1 .. l : e[k + x] = t[x]
  <2>1. JoinedIs(e, s, t, k, l)
    BY <1>0, JoinedParts
  <2> HIDE DEF e
  <2> QED BY <2>1 DEF JoinedIs
<1> HIDE DEF e
<1>3. /\ n \in Nat /\ i \in 1 .. n /\ n \in i .. n
      /\ l = n - i + 1 /\ \A x \in 1 .. l : i + (x - 1) = k + x
  BY <1>1, SMT DEF After
<1>4. e \in [1 .. n -> Byte]
  BY <1>2 DEF After
<1>5. CutOf(e, n, i, n, l)
  BY <1>3, <1>4 DEF CutOf
<1>6. IsCut(SubSeq(e, i, n), e, i, l)
  BY <1>5, Cut
<1>7. \A x \in 1 .. l : e[i + (x - 1)] = t[x]
  BY <1>2, <1>3
<1>8. SameThere(SubSeq(e, i, n), e, i, l, t)
  BY <1>1, <1>6, <1>7 DEF SameThere
<1>9. SubSeq(e, i, n) = t
  BY <1>8, SameCut
<1> QED BY <1>9 DEF e

\* Two bytes of a header's.
TwoThere(e, n, i) == n \in Nat /\ e \in [1 .. n -> Byte] /\ i \in 1 .. n /\ i + 1 \in 1 .. n

\* A cut of two bytes is a tuple.
LEMMA TwoCut ==
  ASSUME NEW e, NEW n, NEW i, TwoThere(e, n, i)
  PROVE  SubSeq(e, i, i + 1) = << e[i], e[i + 1] >>
<1>1. n \in Nat /\ e \in [1 .. n -> Byte] /\ i \in 1 .. n /\ i + 1 \in 1 .. n
  BY DEF TwoThere
<1>2. i + 1 \in i .. n /\ 2 = (i + 1) - i + 1
  BY <1>1, SMT
<1>3. IsCut(SubSeq(e, i, i + 1), e, i, 2)
  <2>1. CutOf(e, n, i, i + 1, 2)
    BY <1>1, <1>2 DEF CutOf
  <2> QED BY <2>1, Cut
<1>4. e[i] \in Byte /\ e[i + 1] \in Byte
  BY <1>1
<1> DEFINE w == << e[i], e[i + 1] >>
<1>5. w \in [1 .. 2 -> Byte] /\ w[1] = e[i] /\ w[2] = e[i + 1]
  BY <1>4, SMT
<1>6. \A x \in 1 .. 2 : x = 1 \/ x = 2
  BY SMT
<1>7. i + (1 - 1) = i /\ i + (2 - 1) = i + 1
  BY <1>1, SMT
<1> HIDE DEF w
<1>8. \A x \in 1 .. 2 : e[i + (x - 1)] = w[x]
  BY <1>5, <1>6, <1>7
<1>9. SameThere(SubSeq(e, i, i + 1), e, i, 2, w)
  BY <1>3, <1>5, <1>8 DEF SameThere
<1>10. SubSeq(e, i, i + 1) = w
  BY <1>9, SameCut
<1> QED BY <1>10 DEF w

\* The bytes of unknown meaning that mhy0 keeps, and where they are from.
LEMMA Mhy0Extra ==
  ASSUME NEW a, WellFormed("mhy0", a), NEW e, e = Mhy0Read(a).hdr.extra
  PROVE  /\ e[1] = Get(a.outer, 40)
         /\ SubSeq(e, 2, 3) = << Get(a.outer, 44), Get(a.outer, 45) >>
         /\ SubSeq(e, 4, 7) = MhyBeside(a.inner, Mhy0Read(a).hdr.cab_cnt)
<1> DEFINE s == << Get(a.outer, 40), Get(a.outer, 44), Get(a.outer, 45) >>
           n == unshuffleInt(a.inner, 0)
           t == MhyBeside(a.inner, n)
<1>1. \A x : Get(a.outer, x) \in Byte /\ Get(a.inner, x) \in Byte
  BY FormatNames, WellFormedMemory
<1>2. Mhy0Read(a).hdr.cab_cnt = n /\ e = s \o t
  BY DEF Mhy0Read, MhyRead
<1>3. s \in [1 .. 3 -> Byte] /\ t \in [1 .. 4 -> Byte]
  BY <1>1, TuplesTyped, MhyPartsTyped
<1>4. s[1] = Get(a.outer, 40) /\ s[2] = Get(a.outer, 44) /\ s[3] = Get(a.outer, 45)
  OBVIOUS
<1> HIDE DEF s, t, n
<1>5. Lengths(s, t, 3, 4)
  BY <1>3, SMT DEF Lengths
<1>6. After(s, t, 3, 4, 4, 7) /\ 3 + 4 = 7
  BY <1>5, SMT DEF After
<1>7. SubSeq(e, 4, 7) = t
  <2>1. SubSeq(s \o t, 4, 7) = t
    BY <1>6, CutAfter
  <2> QED BY <1>2, <2>1
<1>8. e \in [1 .. 7 -> Byte] /\ \A x \in 1 .. 3 : e[x] = s[x]
  <2>1. JoinedIs(e, s, t, 3, 4)
    BY <1>2, <1>5, JoinedParts
  <2> QED BY <1>6, <2>1 DEF JoinedIs
<1>9. 1 \in 1 .. 3 /\ 2 \in 1 .. 3 /\ 3 \in 1 .. 3 /\ 2 \in 1 .. 7 /\ 3 \in 1 .. 7 /\ 7 \in Nat /\ 2 + 1 = 3
  BY SMT
<1>10. TwoThere(e, 7, 2)
  BY <1>8, <1>9 DEF TwoThere
<1>11. SubSeq(e, 2, 2 + 1) = << e[2], e[2 + 1] >>
  BY <1>10, TwoCut
<1>12. e[1] = s[1] /\ e[2] = s[2] /\ e[3] = s[3]
  BY <1>8, <1>9
<1> QED BY <1>2, <1>4, <1>7, <1>9, <1>11, <1>12 DEF t

\* The outer header of mhy0 is written again as it was.
LEMMA Mhy0OuterAgain ==
  ASSUME NEW a, WellFormed("mhy0", a)
  PROVE  Mhy0Outer(Mhy0Read(a).hdr, a.inner_len) = a.outer
<1> DEFINE r == Mhy0Read(a)
           m == a.outer
           u == Mhy0Outer(r.hdr, a.inner_len)
<1>1. /\ \A x : Get(m, x) \in Byte /\ r.opens /\ Memory(m) /\ DOMAIN m = 0 .. 46
  <2>0. "mhy0" \in Formats /\ ReadOf("mhy0", a) = r
    BY FormatNames
  <2>1. /\ \A x : Get(m, x) \in Byte /\ r.opens
    BY <2>0, WellFormedMemory
  <2>2. Memory(m) /\ DOMAIN m = 0 .. 46
    BY FormatNames DEF WellFormed
  <2> QED BY <2>1, <2>2
<1>2. /\ Be(m, 0) = Mhy0Magic /\ Le(m, 4) - 39 = HeaderSize /\ unshuffleUint(m, 40) = a.inner_len
      /\ r.hdr.key = Read(m, 8, 32)
  BY <1>1 DEF Mhy0Read, MhyRead
<1>3. r.hdr \in HdrType("mhy0")
  BY Mhy0Typed DEF Typed, HdrOk
<1>4. /\ DOMAIN u = 0 .. 46 /\ (Agrees(m, u) <=> InMhy0Outer(r.hdr, a.inner_len, m))
  BY <1>3, Mhy0OuterWrites
<1>5. /\ r.hdr.extra[1] = Get(m, 40) /\ SubSeq(r.hdr.extra, 2, 3) = << Get(m, 44), Get(m, 45) >>
  BY Mhy0Extra
<1> HIDE DEF r, m
<1>6. 0 \in Nat /\ 4 \in Nat /\ 8 \in Nat /\ 32 \in Nat /\ 40 \in Nat /\ 44 \in Nat /\ 44 + 1 = 45
  BY SMT
<1>7. Agrees(m, BeAt(0, 4, Mhy0Magic))
  BY <1>1, <1>2, <1>6, Rewrite
<1>8. Agrees(m, LeAt(4, 4, HeaderSize + 39))
  <2>1. Le(m, 4) \in Int32 /\ Agrees(m, LeAt(4, 4, Le(m, 4)))
    BY <1>1, <1>6, Rewrite
  <2>2. \A v \in Int32 : v - 39 = HeaderSize => v = HeaderSize + 39
    BY SizesAssumption, SMT DEF Int32
  <2> QED BY <1>2, <2>1, <2>2
<1>9. Agrees(m, BytesAt(8, r.hdr.key))
  BY <1>1, <1>2, <1>6, Rewrite
<1>10. Agrees(m, BytesAt(40, << r.hdr.extra[1] >>))
  BY <1>5, <1>6, GetOne
<1>11. Agrees(m, BytesAt(44, SubSeq(r.hdr.extra, 2, 3)))
  <2>1. Agrees(m, BytesAt(44, << Get(m, 44), Get(m, 44 + 1) >>))
    BY <1>6, GetTwo
  <2> QED BY <1>5, <1>6, <2>1
<1>12. Agrees(m, shuffleUint(40, a.inner_len))
  BY <1>1, <1>2, <1>6, Rewrite
<1>13. Agrees(m, u)
  BY <1>4, <1>7, <1>8, <1>9, <1>10, <1>11, <1>12 DEF InMhy0Outer
<1>14. u = [x \in DOMAIN u |-> u[x]]
  BY DEF Mhy0Outer, Laid, Strict
<1>15. Twins(m, u)
  BY <1>1, <1>4, <1>13, <1>14, MemoryFunction DEF Twins
<1>16. m = u
  BY <1>15, TwinsEqual
<1> QED BY <1>16 DEF m, r

\* The first bytes are those of w.
FirstOf(e, n, k, w) ==
  /\ n \in Nat /\ e \in [1 .. n -> Byte] /\ k \in 1 .. n /\ w \in [1 .. k -> Byte]
  /\ \A x \in 1 .. k : e[x] = w[x]

\* A cut at the start.
LEMMA CutFirst ==
  ASSUME NEW e, NEW n, NEW k, NEW w, FirstOf(e, n, k, w)
  PROVE  SubSeq(e, 1, k) = w
<1>1. /\ n \in Nat /\ e \in [1 .. n -> Byte] /\ k \in 1 .. n /\ w \in [1 .. k -> Byte]
      /\ \A x \in 1 .. k : e[x] = w[x]
  BY DEF FirstOf
<1>2. 1 \in 1 .. n /\ k = k - 1 + 1 /\ \A x \in 1 .. k : 1 + (x - 1) = x
  BY <1>1, SMT
<1>3. IsCut(SubSeq(e, 1, k), e, 1, k)
  <2>1. CutOf(e, n, 1, k, k)
    BY <1>1, <1>2 DEF CutOf
  <2> QED BY <2>1, Cut
<1>4. \A x \in 1 .. k : e[1 + (x - 1)] = w[x]
  BY <1>1, <1>2
<1> QED BY <1>1, <1>3, <1>4, SameCut DEF SameThere

\* The parts of the extra bytes that the reader of mhy1 joins.
LEMMA Mhy1Extra ==
  ASSUME NEW a, WellFormed("mhy1", a), NEW e, e = Mhy1Read(a).hdr.extra
  PROVE  /\ SubSeq(e, 1, 12) = Read(a.outer, 44, 12) /\ e[13] = Get(a.outer, 56)
         /\ SubSeq(e, 14, 15) = << Get(a.outer, 60), Get(a.outer, 61) >>
         /\ SubSeq(e, 16, 19) = MhyBeside(a.inner, Mhy1Read(a).hdr.cab_cnt)
<1> DEFINE q == Read(a.outer, 44, 12)
           s == << Get(a.outer, 56), Get(a.outer, 60), Get(a.outer, 61) >>
           n == unshuffleInt(a.inner, 0)
           t == MhyBeside(a.inner, n)
           f == q \o s
<1>1. \A x : Get(a.outer, x) \in Byte /\ Get(a.inner, x) \in Byte
  BY FormatNames, WellFormedMemory
<1>2. Mhy1Read(a).hdr.cab_cnt = n /\ e = f \o t
  BY DEF Mhy1Read, MhyRead
<1>3. q \in [1 .. 12 -> Byte] /\ s \in [1 .. 3 -> Byte] /\ t \in [1 .. 4 -> Byte]
  BY <1>1, TuplesTyped, MhyPartsTyped, ReadTyped
<1>4. s[1] = Get(a.outer, 56) /\ s[2] = Get(a.outer, 60) /\ s[3] = Get(a.outer, 61)
  OBVIOUS
<1> HIDE DEF q, s, t, n
<1>5. Lengths(q, s, 12, 3) /\ 12 + 3 = 15 /\ 15 + 4 = 19
  BY <1>3, SMT DEF Lengths
<1>6. JoinedIs(f, q, s, 12, 3)
  BY <1>5, JoinedParts
<1> HIDE DEF f
<1>7. f \in [1 .. 15 -> Byte]
  BY <1>5, <1>6 DEF JoinedIs
<1>8. Lengths(f, t, 15, 4)
  BY <1>3, <1>7, SMT DEF Lengths
<1>9. JoinedIs(e, f, t, 15, 4)
  BY <1>2, <1>8, JoinedParts
<1>10. e \in [1 .. 19 -> Byte] /\ \A x \in 1 .. 15 : e[x] = f[x]
  BY <1>5, <1>9 DEF JoinedIs
<1>11. (\A x \in 1 .. 12 : f[x] = q[x]) /\ (\A x \in 1 .. 3 : f[12 + x] = s[x])
  BY <1>6 DEF JoinedIs
<1>12. SubSeq(e, 16, 19) = t
  <2>0. PICK k, l, i, z : k = 15 /\ l = 4 /\ i = 16 /\ z = 19
    OBVIOUS
  <2>1. After(f, t, k, l, i, z)
    BY <1>8, <2>0, SMT DEF After
  <2>2. SubSeq(f \o t, i, z) = t
    BY <2>1, CutAfter
  <2>3. SubSeq(e, i, z) = t
    BY <1>2, <2>2
  <2> QED BY <2>0, <2>3
<1>13. /\ 1 \in 1 .. 3 /\ 2 \in 1 .. 3 /\ 3 \in 1 .. 3 /\ 12 + 1 = 13 /\ 12 + 2 = 14 /\ 12 + 3 = 15
       /\ 13 \in 1 .. 15 /\ 14 \in 1 .. 15 /\ 15 \in 1 .. 15 /\ 14 \in 1 .. 19 /\ 15 \in 1 .. 19
       /\ 14 + 1 = 15 /\ 19 \in Nat /\ 12 \in 1 .. 19 /\ \A x \in 1 .. 12 : x \in 1 .. 15
  BY SMT
<1>14. f[13] = s[1] /\ f[14] = s[2] /\ f[15] = s[3]
  <2>1. f[12 + 1] = s[1] /\ f[12 + 2] = s[2] /\ f[12 + 3] = s[3]
    BY <1>11, <1>13
  <2> QED BY <1>13, <2>1
<1>15. e[13] = s[1] /\ e[14] = s[2] /\ e[15] = s[3]
  BY <1>10, <1>13, <1>14
<1>16. SubSeq(e, 14, 15) = << e[14], e[15] >>
  <2>1. TwoThere(e, 19, 14)
    BY <1>10, <1>13 DEF TwoThere
  <2>2. SubSeq(e, 14, 14 + 1) = << e[14], e[14 + 1] >>
    BY <2>1, TwoCut
  <2> QED BY <1>13, <2>2
<1>17. SubSeq(e, 1, 12) = q
  <2>1. FirstOf(e, 19, 12, q)
    BY <1>3, <1>10, <1>11, <1>13 DEF FirstOf
  <2> QED BY <2>1, CutFirst
<1> QED BY <1>2, <1>4, <1>12, <1>15, <1>16, <1>17 DEF q, t

\* The outer header of mhy1 is written again as it was.
LEMMA Mhy1OuterAgain ==
  ASSUME NEW a, WellFormed("mhy1", a)
  PROVE  Mhy1Outer(Mhy1Read(a).hdr, a.inner_len) = a.outer
<1> DEFINE r == Mhy1Read(a)
           m == a.outer
           u == Mhy1Outer(r.hdr, a.inner_len)
<1>1. /\ \A x : Get(m, x) \in Byte /\ r.opens /\ Memory(m) /\ DOMAIN m = 0 .. 62
      /\ Read(m, 12, 16) = NewEc
  <2>0. "mhy1" \in Formats /\ ReadOf("mhy1", a) = r
    BY FormatNames
  <2>1. /\ \A x : Get(m, x) \in Byte /\ r.opens
    BY <2>0, WellFormedMemory
  <2>2. Memory(m) /\ DOMAIN m = 0 .. 62 /\ Read(m, 12, 16) = NewEc
    BY FormatNames DEF WellFormed
  <2> QED BY <2>1, <2>2
<1>2. /\ Be(m, 0) = Mhy1Magic /\ Le(m, 4) - 55 = HeaderSize /\ unshuffleUint(m, 56) = a.inner_len
      /\ r.hdr.key = Read(m, 8, 4) /\ r.hdr.rc4_key = Read(m, 28, 16)
  BY <1>1 DEF Mhy1Read, MhyRead
<1>3. r.hdr \in HdrType("mhy1")
  BY Mhy1Typed DEF Typed, HdrOk
<1>4. /\ DOMAIN u = 0 .. 62 /\ (Agrees(m, u) <=> InMhy1Outer(r.hdr, a.inner_len, m))
  BY <1>3, Mhy1OuterWrites
<1>5. /\ SubSeq(r.hdr.extra, 1, 12) = Read(m, 44, 12) /\ r.hdr.extra[13] = Get(m, 56)
      /\ SubSeq(r.hdr.extra, 14, 15) = << Get(m, 60), Get(m, 61) >>
  BY Mhy1Extra
<1> HIDE DEF r, m
<1>6. /\ 0 \in Nat /\ 4 \in Nat /\ 8 \in Nat /\ 12 \in Nat /\ 16 \in Nat /\ 28 \in Nat /\ 44 \in Nat
      /\ 56 \in Nat /\ 60 \in Nat /\ 60 + 1 = 61
  BY SMT
<1>7. Agrees(m, BeAt(0, 4, Mhy1Magic))
  BY <1>1, <1>2, <1>6, Rewrite
<1>8. Agrees(m, LeAt(4, 4, HeaderSize + 55))
  <2>1. Le(m, 4) \in Int32 /\ Agrees(m, LeAt(4, 4, Le(m, 4)))
    BY <1>1, <1>6, Rewrite
  <2>2. \A v \in Int32 : v - 55 = HeaderSize => v = HeaderSize + 55
    BY SizesAssumption, SMT DEF Int32
  <2> QED BY <1>2, <2>1, <2>2
<1>9. Agrees(m, BytesAt(8, r.hdr.key)) /\ Agrees(m, BytesAt(12, NewEc))
  <2>1. Agrees(m, BytesAt(8, Read(m, 8, 4)))
    BY <1>1, <1>6, Rewrite
  <2>2. Agrees(m, BytesAt(12, Read(m, 12, 16)))
    BY <1>1, <1>6, Rewrite
  <2> QED BY <1>1, <1>2, <2>1, <2>2
<1>10. Agrees(m, BytesAt(28, r.hdr.rc4_key)) /\ Agrees(m, BytesAt(44, SubSeq(r.hdr.extra, 1, 12)))
  <2>1. Agrees(m, BytesAt(28, Read(m, 28, 16)))
    BY <1>1, <1>6, Rewrite
  <2>2. Agrees(m, BytesAt(44, Read(m, 44, 12)))
    BY <1>1, <1>6, Rewrite
  <2> QED BY <1>2, <1>5, <2>1, <2>2
<1>11. Agrees(m, BytesAt(56, << r.hdr.extra[13] >>))
  BY <1>5, <1>6, GetOne
<1>12. Agrees(m, BytesAt(60, SubSeq(r.hdr.extra, 14, 15)))
  <2>1. Agrees(m, BytesAt(60, << Get(m, 60), Get(m, 60 + 1) >>))
    BY <1>6, GetTwo
  <2> QED BY <1>5, <1>6, <2>1
<1>13. Agrees(m, shuffleUint(56, a.inner_len))
  BY <1>1, <1>2, <1>6, Rewrite
<1>14. Agrees(m, u)
  BY <1>4, <1>7, <1>8, <1>9, <1>10, <1>11, <1>12, <1>13 DEF InMhy1Outer
<1>15. u = [x \in DOMAIN u |-> u[x]]
  BY DEF Mhy1Outer, Laid, Strict
<1>16. Twins(m, u)
  BY <1>1, <1>4, <1>14, <1>15, MemoryFunction DEF Twins
<1>17. m = u
  BY <1>16, TwinsEqual
<1> QED BY <1>17 DEF m, r

\* The header of a block.
LEMMA Mhy0HeadAgain ==
  ASSUME NEW m, Memory(m), DOMAIN m = 0 .. 11
  PROVE  BytesAt(0, Read(m, 0, 12)) = m
<1> DEFINE u == BytesAt(0, Read(m, 0, 12))
<1>1. \A x : Get(m, x) \in Byte
  BY GetsBytes
<1>2. 0 \in Nat /\ 12 \in Nat /\ 0 + 12 - 1 = 11
  BY SMT
<1>3. Agrees(m, u)
  BY <1>1, <1>2, Rewrite
<1>4. Len(Read(m, 0, 12)) = 12
  BY <1>2, ReadIs
<1>5. DOMAIN u = 0 .. 11
  <2> PICK seq : seq = Read(m, 0, 12)
    OBVIOUS
  <2>1. DOMAIN BytesAt(0, seq) = 0 .. 0 + 12 - 1
    <3>1. DOMAIN BytesAt(0, seq) = 0 .. 0 + Len(seq) - 1
      BY DEF BytesAt
    <3> QED BY <1>4, <3>1
  <2> QED BY <1>2, <2>1
<1>6. u = [x \in DOMAIN u |-> u[x]]
  BY DEF BytesAt
<1> HIDE DEF u
<1>7. Twins(m, u)
  BY <1>3, <1>5, <1>6, MemoryFunction DEF Twins
<1> QED BY <1>7, TwinsEqual DEF u

\* The head of an mhy1 block is written again as it was.
LEMMA Mhy1HeadAgain ==
  ASSUME NEW m, Memory(m), DOMAIN m = 0 .. 27, Read(m, 4, 16) = NewEc,
         NEW head, head = Read(m, 0, 4) \o Read(m, 20, 8)
  PROVE  Mhy1Head(head) = m
<1> DEFINE u == Mhy1Head(head)
           s == Read(m, 0, 4)
           t == Read(m, 20, 8)
<1>1. \A x : Get(m, x) \in Byte
  BY GetsBytes
<1>2. s \in [1 .. 4 -> Byte] /\ t \in [1 .. 8 -> Byte]
  BY <1>1, ReadTyped
<1>3. 0 \in Nat /\ 4 \in Nat /\ 8 \in Nat /\ 16 \in Nat /\ 20 \in Nat
  BY SMT
<1>4. Agrees(m, BytesAt(0, s)) /\ Agrees(m, BytesAt(4, NewEc)) /\ Agrees(m, BytesAt(20, t))
  BY <1>1, <1>3, Rewrite
<1>5. head = s \o t
  OBVIOUS
<1> HIDE DEF s, t
<1>6. Lengths(s, t, 4, 8) /\ 4 + 8 = 12 /\ 4 \in 1 .. 12 /\ 12 \in Nat
  BY <1>2, SMT DEF Lengths
<1>7. JoinedIs(head, s, t, 4, 8)
  BY <1>5, <1>6, JoinedParts
<1>8. head \in [1 .. 12 -> Byte] /\ \A x \in 1 .. 4 : head[x] = s[x]
  BY <1>6, <1>7 DEF JoinedIs
<1>9. SubSeq(head, 1, 4) = s
  <2>1. FirstOf(head, 12, 4, s)
    BY <1>2, <1>6, <1>8 DEF FirstOf
  <2> QED BY <2>1, CutFirst
<1>10. SubSeq(head, 5, 12) = t
  <2>1. After(s, t, 4, 8, 5, 12)
    BY <1>6, SMT DEF After
  <2>2. SubSeq(s \o t, 5, 12) = t
    BY <2>1, CutAfter
  <2> QED BY <1>5, <2>2
<1>11. DOMAIN u = 0 .. 27 /\ (Agrees(m, u) <=> InMhy1Head(head, m))
  BY <1>8, Mhy1HeadWrites
<1>12. Agrees(m, u)
  BY <1>4, <1>9, <1>10, <1>11 DEF InMhy1Head
<1>13. u = [x \in DOMAIN u |-> u[x]]
  BY DEF Mhy1Head, Laid, Strict
<1> HIDE DEF u
<1>14. Twins(m, u)
  BY <1>11, <1>12, <1>13, MemoryFunction DEF Twins
<1> QED BY <1>14, TwinsEqual DEF u

\* What is read of the compressed header of mhy0 or mhy1.
MhyFound(m, r, n, d) ==
  /\ n = unshuffleInt(m, 0) /\ d = unshuffleInt(m, MhyCntAt(n)) /\ r.hdr.cab_cnt = n
  /\ r.cabs = [c \in 1 .. n |-> MhyReadCab(m, MhyCabAt(c))]
  /\ r.blks = [b \in 1 .. d |-> MhyReadBlock(m, MhyBlockAt(n, b))]
  /\ \A b \in 1 .. d : r.keys[b].extra = MhyReadExtra(m, MhyBlockAt(n, b))

\* Unshuffled bytes are a number.
LEMMA UnshuffledInt ==
  ASSUME NEW m, \A x : Get(m, x) \in Byte, NEW at
  PROVE  unshuffleInt(m, at) \in Int
<1>1. ASSUME NEW d0 \in Byte, NEW d1 \in Byte, NEW d2 \in Byte, NEW d3 \in Byte
      PROVE  Number(d0, d1, d2, d3) \in Int
  BY SMT DEF Number, Byte
<1>2. /\ Get(m, at) \in Byte /\ Get(m, at + 2) \in Byte /\ Get(m, at + 4) \in Byte
      /\ Get(m, at + 5) \in Byte
  OBVIOUS
<1> QED BY <1>1, <1>2 DEF unshuffleInt

\* What an mhy reader returns for any bytes, entry by entry.
LEMMA MhyReadFound ==
  ASSUME NEW m, NEW hdr, NEW heads, NEW opens, NEW hdr_sz, NEW n, NEW d,
         n = unshuffleInt(m, 0), hdr.cab_cnt = n, d = unshuffleInt(m, MhyCntAt(n)),
         NEW r, r = MhyRead(m, hdr, heads, opens, hdr_sz)
  PROVE  MhyFound(m, r, n, d) /\ \A b \in 1 .. d : r.keys[b].head = heads[b]
<1>1. /\ r.hdr = hdr
      /\ r.cabs = [c \in 1 .. n |-> MhyReadCab(m, MhyCabAt(c))]
      /\ r.blks = [b \in 1 .. d |-> MhyReadBlock(m, MhyBlockAt(n, b))]
  BY DEF MhyRead, MhyCabAt
<1>2. r.keys = [b \in 1 .. d |-> [head |-> heads[b], extra |-> MhyReadExtra(m, MhyBlockAt(n, b))]]
  BY DEF MhyRead
<1> QED BY <1>1, <1>2 DEF MhyFound

\* The same of extract_mhy0, with the heads it takes from the blocks.
LEMMA Mhy0Found ==
  ASSUME NEW a, NEW r, r = Mhy0Read(a), NEW n, n = unshuffleInt(a.inner, 0),
         NEW d, d = unshuffleInt(a.inner, MhyCntAt(n))
  PROVE  /\ MhyFound(a.inner, r, n, d)
         /\ \A b \in 1 .. d : b \in DOMAIN a.blocks => r.keys[b].head = Read(a.blocks[b], 0, 12)
<1> DEFINE heads == [b \in DOMAIN a.blocks |-> Read(a.blocks[b], 0, 12)]
           hdr == [cab_cnt |-> n, key |-> Read(a.outer, 8, 32),
                   extra |-> << Get(a.outer, 40), Get(a.outer, 44), Get(a.outer, 45) >>
                             \o MhyBeside(a.inner, n)]
           opens == /\ Be(a.outer, 0) = Mhy0Magic
                    /\ Le(a.outer, 4) - 39 = HeaderSize /\ unshuffleUint(a.outer, 40) = a.inner_len
<1>1. hdr.cab_cnt = n /\ r = MhyRead(a.inner, hdr, heads, opens, Le(a.outer, 4))
  BY DEF Mhy0Read
<1> HIDE DEF heads, hdr, opens
<1>2. MhyFound(a.inner, r, n, d) /\ \A b \in 1 .. d : r.keys[b].head = heads[b]
  BY <1>1, MhyReadFound
<1> QED BY <1>2 DEF heads

\* The same of extract_mhy1.
LEMMA Mhy1Found ==
  ASSUME NEW a, NEW r, r = Mhy1Read(a), NEW n, n = unshuffleInt(a.inner, 0),
         NEW d, d = unshuffleInt(a.inner, MhyCntAt(n))
  PROVE  /\ MhyFound(a.inner, r, n, d)
         /\ \A b \in 1 .. d : b \in DOMAIN a.blocks =>
              r.keys[b].head = Read(a.blocks[b], 0, 4) \o Read(a.blocks[b], 20, 8)
<1> DEFINE heads == [b \in DOMAIN a.blocks |-> Read(a.blocks[b], 0, 4) \o Read(a.blocks[b], 20, 8)]
           hdr == [cab_cnt |-> n, key |-> Read(a.outer, 8, 4), rc4_key |-> Read(a.outer, 28, 16),
                   extra |-> Read(a.outer, 44, 12)
                             \o << Get(a.outer, 56), Get(a.outer, 60), Get(a.outer, 61) >>
                             \o MhyBeside(a.inner, n)]
           opens == /\ Be(a.outer, 0) = Mhy1Magic
                    /\ Le(a.outer, 4) - 55 = HeaderSize /\ unshuffleUint(a.outer, 56) = a.inner_len
<1>1. hdr.cab_cnt = n /\ r = MhyRead(a.inner, hdr, heads, opens, Le(a.outer, 4))
  BY DEF Mhy1Read
<1> HIDE DEF heads, hdr, opens
<1>2. MhyFound(a.inner, r, n, d) /\ \A b \in 1 .. d : r.keys[b].head = heads[b]
  BY <1>1, MhyReadFound
<1> QED BY <1>2 DEF heads

\* The compressed header is what it was, wherever it is written.
FoundAgain(m, r, n, d) ==
  /\ MhyFound(m, r, n, d) /\ \A x : Get(m, x) \in Byte
  /\ MhyGiven(r.cabs, r.blks, r.keys, n, d)
  /\ DOMAIN m \subseteq 0 .. MhyInnerLen(r.cabs, r.blks) - 1

\* An mhy inner header written again from what was read is the same outside the holes.
LEMMA InnerAgain ==
  ASSUME NEW m, NEW r, NEW n, NEW d, FoundAgain(m, r, n, d),
         NEW new, new = MhyInner(r.cabs, r.blks, MhyBeside(m, n), r.keys)
  PROVE  \A x \in DOMAIN m : x \notin Holes(n) => Get(new, x) = m[x]
<1>1. /\ MhyFound(m, r, n, d) /\ \A x : Get(m, x) \in Byte
      /\ MhyGiven(r.cabs, r.blks, r.keys, n, d)
      /\ DOMAIN m \subseteq 0 .. MhyInnerLen(r.cabs, r.blks) - 1
  BY DEF FoundAgain
<1>2. n \in Nat /\ d \in Nat
  <2>1. Counts(n, d)
    BY <1>1 DEF MhyGiven
  <2> QED BY <2>1, SMT DEF Counts
<1>3. /\ r.cabs = [c \in 1 .. n |-> r.cabs[c]] /\ r.blks = [b \in 1 .. d |-> r.blks[b]]
      /\ n = unshuffleInt(m, 0) /\ d = unshuffleInt(m, MhyCntAt(n))
      /\ \A c \in 1 .. n : r.cabs[c] = MhyReadCab(m, MhyCabAt(c))
      /\ \A b \in 1 .. d : /\ r.blks[b] = MhyReadBlock(m, MhyBlockAt(n, b))
                           /\ r.keys[b].extra = MhyReadExtra(m, MhyBlockAt(n, b))
  BY <1>1 DEF MhyFound
<1> PICK cabs : cabs = r.cabs
  OBVIOUS
<1> PICK blks : blks = r.blks
  OBVIOUS
<1> PICK keys : keys = r.keys
  OBVIOUS
<1>4. /\ Indexed(cabs, n) /\ Len(cabs) = n /\ Indexed(blks, d) /\ Len(blks) = d
  BY <1>2, <1>3, SMT DEF Indexed
<1>5. Agrees(m, MhyInner(cabs, blks, MhyBeside(m, n), keys))
  BY <1>1, <1>2, <1>3, <1>4, MhyInnerAgain
<1>6. Agrees(m, new)
  BY <1>5
<1>7. MhyBeside(m, n) \in [1 .. 4 -> Byte]
  BY <1>1, MhyPartsTyped
<1>8. DOMAIN new = MhyInnerBytes(n, d)
  BY <1>1, <1>7, MhyInnerMemory
<1>9. MhyInnerLen(r.cabs, r.blks) = 275 * n + 13 * d + 12
  BY <1>1, MhyLens
<1> SUFFICES ASSUME NEW x \in DOMAIN m, x \notin Holes(n)
             PROVE  Get(new, x) = m[x]
  OBVIOUS
<1>10. x \in 0 .. 11 + 275 * n + 13 * d
  BY <1>1, <1>2, <1>9, SMT
<1>11. x \in DOMAIN new
  BY <1>8, <1>10 DEF MhyInnerBytes
<1>12. Get(m, x) = new[x]
  BY <1>6, <1>11 DEF Agrees
<1> QED BY <1>11, <1>12 DEF Get

\* Two archives with the same bytes, but for those after the names.
SameBytes(new, a, n) ==
  /\ new.outer = a.outer /\ new.blocks = a.blocks
  /\ \A x \in DOMAIN a.inner : x \notin Holes(n) => Get(new.inner, x) = a.inner[x]

\* So pack_mhy0 gives back the bytes extract_mhy0 read.
LEMMA Mhy0Same ==
  ASSUME NEW a, WellFormed("mhy0", a), NEW r, r = Mhy0Read(a), NEW n, n = r.hdr.cab_cnt, NEW d,
         MhyGiven(r.cabs, r.blks, r.keys, n, d), NEW new, new = Mhy0Pack(r.hdr, r.cabs, r.keys, r.blks)
  PROVE  SameBytes(new, a, n)
<1>1. /\ a.inner_len = MhyInnerLen(r.cabs, r.blks) /\ DOMAIN a.inner \subseteq 0 .. a.inner_len - 1
      /\ a.blocks = [b \in DOMAIN r.blks |-> a.blocks[b]]
      /\ \A b \in DOMAIN a.blocks : Memory(a.blocks[b]) /\ DOMAIN a.blocks[b] = 0 .. 11
  BY FormatNames DEF WellFormed
<1>2. /\ new.outer = Mhy0Outer(r.hdr, MhyInnerLen(r.cabs, r.blks))
      /\ new.inner = MhyInner(r.cabs, r.blks, SubSeq(r.hdr.extra, 4, 7), r.keys)
      /\ new.blocks = [b \in DOMAIN r.blks |-> BytesAt(0, r.keys[b].head)]
  BY DEF Mhy0Pack
<1>3. new.outer = a.outer
  BY <1>1, <1>2, Mhy0OuterAgain
<1>4. n = unshuffleInt(a.inner, 0) /\ SubSeq(r.hdr.extra, 4, 7) = MhyBeside(a.inner, n)
  <2>1. r.hdr.cab_cnt = unshuffleInt(a.inner, 0)
    BY DEF Mhy0Read, MhyRead
  <2> QED BY <2>1, Mhy0Extra
<1> DEFINE k == unshuffleInt(a.inner, MhyCntAt(n))
<1>5. /\ MhyFound(a.inner, r, n, k)
      /\ \A b \in 1 .. k : b \in DOMAIN a.blocks => r.keys[b].head = Read(a.blocks[b], 0, 12)
  BY <1>4, Mhy0Found
<1>6. k = d
  <2>1. DOMAIN r.blks = 1 .. k /\ DOMAIN r.blks = 1 .. d
    BY <1>5 DEF MhyFound, MhyGiven
  <2>2. d \in Nat /\ d >= 1
    BY SMT DEF MhyGiven, Counts
  <2>3. \A x : Get(a.inner, x) \in Byte
    BY FormatNames, WellFormedMemory
  <2>4. k \in Int
    BY <2>3, UnshuffledInt
  <2> HIDE DEF k
  <2>5. 1 .. k = 1 .. d
    BY <2>1
  <2> QED BY <2>2, <2>4, <2>5, SMT
<1> HIDE DEF k
<1>7. FoundAgain(a.inner, r, n, d)
  <2>1. \A x : Get(a.inner, x) \in Byte
    BY FormatNames, WellFormedMemory
  <2> QED BY <1>1, <1>5, <1>6, <2>1 DEF FoundAgain
<1>8. \A x \in DOMAIN a.inner : x \notin Holes(n) => Get(new.inner, x) = a.inner[x]
  <2>1. new.inner = MhyInner(r.cabs, r.blks, MhyBeside(a.inner, n), r.keys)
    BY <1>2, <1>4
  <2> QED BY <1>7, <2>1, InnerAgain
<1>9. DOMAIN r.blks = 1 .. d /\ DOMAIN a.blocks = 1 .. d
  BY <1>1 DEF MhyGiven
<1>10. \A b \in 1 .. d : BytesAt(0, r.keys[b].head) = a.blocks[b]
  BY <1>1, <1>5, <1>6, <1>9, Mhy0HeadAgain
<1>11. new.blocks = a.blocks
  BY <1>1, <1>2, <1>9, <1>10
<1> QED BY <1>3, <1>8, <1>11 DEF SameBytes

\* And pack_mhy1 those extract_mhy1 read.
LEMMA Mhy1Same ==
  ASSUME NEW a, WellFormed("mhy1", a), NEW r, r = Mhy1Read(a), NEW n, n = r.hdr.cab_cnt, NEW d,
         MhyGiven(r.cabs, r.blks, r.keys, n, d), NEW new, new = Mhy1Pack(r.hdr, r.cabs, r.keys, r.blks)
  PROVE  SameBytes(new, a, n)
<1>1. /\ a.inner_len = MhyInnerLen(r.cabs, r.blks) /\ DOMAIN a.inner \subseteq 0 .. a.inner_len - 1
      /\ a.blocks = [b \in DOMAIN r.blks |-> a.blocks[b]]
      /\ \A b \in DOMAIN a.blocks : /\ Memory(a.blocks[b]) /\ DOMAIN a.blocks[b] = 0 .. 27
                                    /\ Read(a.blocks[b], 4, 16) = NewEc
  BY FormatNames DEF WellFormed
<1>2. /\ new.outer = Mhy1Outer(r.hdr, MhyInnerLen(r.cabs, r.blks))
      /\ new.inner = MhyInner(r.cabs, r.blks, SubSeq(r.hdr.extra, 16, 19), r.keys)
      /\ new.blocks = [b \in DOMAIN r.blks |-> Mhy1Head(r.keys[b].head)]
  BY DEF Mhy1Pack
<1>3. new.outer = a.outer
  BY <1>1, <1>2, Mhy1OuterAgain
<1>4. n = unshuffleInt(a.inner, 0) /\ SubSeq(r.hdr.extra, 16, 19) = MhyBeside(a.inner, n)
  <2>1. r.hdr.cab_cnt = unshuffleInt(a.inner, 0)
    BY DEF Mhy1Read, MhyRead
  <2> QED BY <2>1, Mhy1Extra
<1> DEFINE k == unshuffleInt(a.inner, MhyCntAt(n))
<1>5. /\ MhyFound(a.inner, r, n, k)
      /\ \A b \in 1 .. k : b \in DOMAIN a.blocks =>
           r.keys[b].head = Read(a.blocks[b], 0, 4) \o Read(a.blocks[b], 20, 8)
  BY <1>4, Mhy1Found
<1>6. k = d
  <2>1. DOMAIN r.blks = 1 .. k /\ DOMAIN r.blks = 1 .. d
    BY <1>5 DEF MhyFound, MhyGiven
  <2>2. d \in Nat /\ d >= 1
    BY SMT DEF MhyGiven, Counts
  <2>3. \A x : Get(a.inner, x) \in Byte
    BY FormatNames, WellFormedMemory
  <2>4. k \in Int
    BY <2>3, UnshuffledInt
  <2> HIDE DEF k
  <2>5. 1 .. k = 1 .. d
    BY <2>1
  <2> QED BY <2>2, <2>4, <2>5, SMT
<1> HIDE DEF k
<1>7. FoundAgain(a.inner, r, n, d)
  <2>1. \A x : Get(a.inner, x) \in Byte
    BY FormatNames, WellFormedMemory
  <2> QED BY <1>1, <1>5, <1>6, <2>1 DEF FoundAgain
<1>8. \A x \in DOMAIN a.inner : x \notin Holes(n) => Get(new.inner, x) = a.inner[x]
  <2>1. new.inner = MhyInner(r.cabs, r.blks, MhyBeside(a.inner, n), r.keys)
    BY <1>2, <1>4
  <2> QED BY <1>7, <2>1, InnerAgain
<1>9. DOMAIN r.blks = 1 .. d /\ DOMAIN a.blocks = 1 .. d
  BY <1>1 DEF MhyGiven
<1>10. \A b \in 1 .. d : Mhy1Head(r.keys[b].head) = a.blocks[b]
  BY <1>1, <1>5, <1>6, <1>9, Mhy1HeadAgain
<1>11. new.blocks = a.blocks
  BY <1>1, <1>2, <1>9, <1>10
<1> QED BY <1>3, <1>8, <1>11 DEF SameBytes

\* In both, by format.
LEMMA MhyCabsFound ==
  ASSUME NEW f \in MhyFormats, NEW a, NEW r, r = ReadOf(f, a)
  PROVE  \E n, d : MhyFound(a.inner, r, n, d)
<1> DEFINE n == unshuffleInt(a.inner, 0)
           d == unshuffleInt(a.inner, MhyCntAt(n))
<1>1. CASE f = "mhy0"
  <2>1. MhyFound(a.inner, r, n, d)
    BY <1>1, FormatNames, Mhy0Found
  <2> QED BY <2>1
<1>2. CASE f = "mhy1"
  <2>1. MhyFound(a.inner, r, n, d)
    BY <1>2, FormatNames, Mhy1Found
  <2> QED BY <2>1
<1> QED BY <1>1, <1>2, FormatNames

\* With files nobody touched, the cabs packed are the cabs unpacked.
LEMMA CabsAgain ==
  ASSUME Untouched, Mhy
  PROVE  Cabs = Reading(before).cabs
<1> DEFINE old == Reading(before)
           n == CabCount
<1>1. Again(old, n, BlockCount(Total), Keys(meant.blks))
  BY Repacked
<1>2. PICK k, d : MhyFound(before.inner, old, k, d)
  BY MhyCabsFound DEF Reading, Mhy
<1>3. /\ \A c \in 1 .. n :
           Cabs[c] = [meta |-> Meta(c), blk_off |-> Before(CabSizesOf, c), blk_sz |-> size[c]]
      /\ Cabs = [c \in 1 .. n |-> Cabs[c]]
  <2>1. PackFits(meant.blks)
    BY DEF Untouched, HInv, PackedFrom
  <2>2. Ready
    BY <2>1 DEF PackFits, CabsFit
  <2> QED BY <2>2, CabsAre
<1> HIDE DEF old, n
<1>4. /\ DOMAIN old.cabs = 1 .. n
      /\ \A c \in 1 .. n : /\ Cabs[c].meta = old.cabs[c].meta
                           /\ Cabs[c].blk_off = old.cabs[c].blk_off
                           /\ Cabs[c].blk_sz = old.cabs[c].blk_sz
  BY <1>1 DEF Again
<1>5. /\ old.cabs = [c \in 1 .. k |-> MhyReadCab(before.inner, MhyCabAt(c))]
  BY <1>2 DEF MhyFound
<1>6. 1 .. k = 1 .. n /\ old.cabs = [c \in 1 .. n |-> old.cabs[c]]
  BY <1>4, <1>5
<1>7. \A c \in 1 .. n : old.cabs[c] = MhyReadCab(before.inner, MhyCabAt(c))
  BY <1>5, <1>6
<1>8. ASSUME NEW c \in 1 .. n PROVE Cabs[c] = old.cabs[c]
  <2> DEFINE new == Cabs[c]
             cab == old.cabs[c]
  <2>1. new = [meta |-> new.meta, blk_off |-> new.blk_off, blk_sz |-> new.blk_sz]
    <3>1. new = [meta |-> Meta(c), blk_off |-> Before(CabSizesOf, c), blk_sz |-> size[c]]
      BY <1>3
    <3> HIDE DEF new
    <3> QED BY <3>1
  <2>2. cab = [meta |-> cab.meta, blk_off |-> cab.blk_off, blk_sz |-> cab.blk_sz]
    <3>1. cab = MhyReadCab(before.inner, MhyCabAt(c))
      BY <1>7
    <3> HIDE DEF cab
    <3> QED BY <3>1 DEF MhyReadCab
  <2>3. new.meta = cab.meta /\ new.blk_off = cab.blk_off /\ new.blk_sz = cab.blk_sz
    BY <1>4
  <2> HIDE DEF new, cab
  <2>4. new = cab
    BY <2>1, <2>2, <2>3
  <2> QED BY <2>4 DEF new, cab
<1>9. Cabs = old.cabs
  BY <1>3, <1>6, <1>8
<1> QED BY <1>9 DEF old

\* BytesKept: an mhy0 or mhy1 of at most 256 cabs that is unpacked, left alone and
\* packed to blocks of the same sizes has every byte of its three kinds of header
\* where it was, but for the byte after each name, which no one writes.
THEOREM KeepsBytes == Spec => []BytesKept
<1>1. HInv => BytesKept
  <2> DEFINE old == Reading(before)
             n == CabCount
             d == BlockCount(Total)
  <2> SUFFICES ASSUME HInv, Mhy, pc = "archive", packs > 0, ~edited, old.hdr.cab_cnt <= 256,
                      Reading(archive).blks = old.blks
               PROVE  /\ archive.outer = before.outer
                      /\ archive.blocks = before.blocks
                      /\ \A x \in DOMAIN before.inner :
                           (\A c \in DOMAIN meant.cabs : x # 6 + 275 * (c - 1) + 260) =>
                             Get(archive.inner, x) = before.inner[x]
    BY Zenon DEF BytesKept
  <2>1. Untouched /\ PackedFrom /\ WellFormed(format, before) /\ ReadsAs(format, archive, meant)
    BY DEF Untouched, HInv, ArchiveInv
  <2>2. Again(old, n, d, Keys(meant.blks)) /\ Cabs = old.cabs
    BY <2>1, Repacked, CabsAgain
  <2>3. Hdr = old.hdr /\ n = old.hdr.cab_cnt /\ DOMAIN old.cabs = 1 .. n /\ Keys(meant.blks) = old.keys
    BY <2>2 DEF Again
  <2>4. meant.blks = old.blks
    <3>1. Reading(archive).blks = meant.blks
      BY <2>1 DEF ReadsAs, Reading
    <3> QED BY <3>1
  <2>5. PackFits(meant.blks) /\ archive = Packed(Cabs, meant.blks) /\ meant.cabs = Cabs
    <3>1. meant = [cabs |-> Cabs, blks |-> meant.blks]
      BY <2>1 DEF PackedFrom
    <3>2. meant.cabs = Cabs
      BY <3>1
    <3> QED BY <2>1, <3>2 DEF PackedFrom
  <2>6. MhyGiven(old.cabs, old.blks, old.keys, n, d)
    <3>1. MhyGiven(Cabs, meant.blks, Keys(meant.blks), n, d)
      BY <2>5, MhyPackGiven
    <3> QED BY <2>2, <2>3, <2>4, <3>1
  <2> HIDE DEF n, d
  <2>7. SameBytes(archive, before, n)
    <3>1. CASE format = "mhy0"
      <4>1. archive = Mhy0Pack(Hdr, Cabs, Keys(meant.blks), meant.blks)
        BY <2>5, <3>1, Mhy0PackGiven
      <4>2. archive = Mhy0Pack(old.hdr, old.cabs, old.keys, old.blks)
        BY <2>2, <2>3, <2>4, <4>1
      <4>3. WellFormed("mhy0", before) /\ old = Mhy0Read(before)
        BY <2>1, <3>1, FormatNames DEF Reading
      <4> HIDE DEF old
      <4> QED BY <2>3, <2>6, <4>2, <4>3, Mhy0Same
    <3>2. CASE format = "mhy1"
      <4>1. archive = Mhy1Pack(Hdr, Cabs, Keys(meant.blks), meant.blks)
        BY <2>5, <3>2, Mhy1PackGiven
      <4>2. archive = Mhy1Pack(old.hdr, old.cabs, old.keys, old.blks)
        BY <2>2, <2>3, <2>4, <4>1
      <4>3. WellFormed("mhy1", before) /\ old = Mhy1Read(before)
        BY <2>1, <3>2, FormatNames DEF Reading
      <4> HIDE DEF old
      <4> QED BY <2>3, <2>6, <4>2, <4>3, Mhy1Same
    <3> QED BY <3>1, <3>2, FormatNames DEF Mhy
  <2>8. DOMAIN meant.cabs = 1 .. n
    BY <2>2, <2>3, <2>5
  <2>9. ASSUME NEW x \in DOMAIN before.inner,
               \A c \in DOMAIN meant.cabs : x # 6 + 275 * (c - 1) + 260
        PROVE  Get(archive.inner, x) = before.inner[x]
    <3>1. x \notin Holes(n)
      BY <2>8, <2>9 DEF Holes
    <3> QED BY <2>7, <3>1 DEF SameBytes
  <2> QED BY <2>7, <2>9 DEF SameBytes
<1> QED BY Invariant, <1>1, PTL
=============================================================================
