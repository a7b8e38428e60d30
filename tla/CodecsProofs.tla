---------------------------- MODULE CodecsProofs ----------------------------
(***************************************************************************)
(* What becomes of the bytes of a block: compressed and encrypted by a      *)
(* packer, decrypted and decompressed by the unpacker.                      *)
(*                                                                         *)
(* First LZ4, for every input, buffer, choice of matches and foreign block. *)
(* In order: the encoder keeps within its buffer; the decoder keeps within  *)
(* src and dst; each of the decoder's copies makes the text of the match;   *)
(* where the sequences of a block and of its text are; what the encoder has *)
(* made, the decoder turns back.                                            *)
(*                                                                         *)
(* Then the block ciphers: their two directions are inverse, and stay       *)
(* within the block. From the bits up: exclusive or and the field's         *)
(* products; the steps of aes, its rounds and its round keys; the rounds of *)
(* lookup tables with logarithms; rc4; memory that is rewritten in place;   *)
(* each cipher; and last the invariant of a block on its way through a file.*)
(***************************************************************************)
EXTENDS Codecs, Lz4, SumsProofs, FunctionTheorems

-----------------------------------------------------------------------------
(* The encoder. A sequence of lit literals and a match of at least four     *)
(* bytes takes at most lit \div 255 bytes more than it encodes, so that the *)
(* output is never ahead of the input by more than one byte in 255.         *)

\* The state as far as the bounds depend on it.
EncoderTypes ==
  /\ srcSize \in Nat /\ dstCapacity \in Int
  /\ anchor \in Nat /\ written \in Nat /\ wildEnd \in Nat
  /\ anchor <= srcSize
  /\ encoder \in {"parse", "full", "encoded"}

\* How far the output may be ahead while the parse goes on.
Expansion == encoder = "parse" => 255 * (written - anchor) <= anchor

EncoderInv == EncoderTypes /\ Expansion /\ WithinCapacity /\ BoundSuffices

\* What a length needs beyond the token: one byte for each 255 begun.
LEMMA ExtraBytesBounds ==
  ASSUME NEW n \in Nat
  PROVE  /\ ExtraBytes(n, 15) \in Nat
         /\ n < 15 => ExtraBytes(n, 15) = 0
         /\ n >= 15 => /\ 255 * ExtraBytes(n, 15) <= n + 240
                       /\ 255 * ExtraBytes(n, 15) > n - 15
         /\ ExtraBytes(n, 15) <= n \div 255 + 1
         /\ ExtraBytes(n, 15) <= n
BY SMT DEF ExtraBytes

\* The room that is checked for literals covers the steps of LZ4_wildCopy8.
LEMMA CopyEndBounds ==
  ASSUME NEW start \in Int, NEW n \in Nat
  PROVE  /\ CopyEnd(start, n, 8) \in Int
         /\ CopyEnd(start, n, 8) >= start + n
         /\ CopyEnd(start, n, 8) <= start + n + 8
         /\ n > 0 => CopyEnd(start, n, 8) <= start + n + 7
BY SMT DEF CopyEnd, Turns, Larger

\* A sequence encodes at least as many bytes as it takes, but for the bytes
\* that a long run of literals adds.
LEMMA SequenceExpansion ==
  ASSUME NEW lit \in Nat, NEW ml \in Nat, ml >= MINMATCH
  PROVE  255 * (1 + ExtraBytes(lit, 15) + lit + 2 + ExtraBytes(ml - 4, 15) - (lit + ml)) <= lit
<1>1. ml - 4 \in Nat
  BY DEF MINMATCH
<1>2. ExtraBytes(ml - 4, 15) \in Nat /\ ExtraBytes(ml - 4, 15) <= ml - 4
  BY <1>1, ExtraBytesBounds
<1>3. /\ ExtraBytes(lit, 15) \in Nat
      /\ lit < 15 => ExtraBytes(lit, 15) = 0
      /\ lit >= 15 => 255 * ExtraBytes(lit, 15) <= lit + 240
  BY ExtraBytesBounds
<1>4. CASE lit < 15
  BY <1>2, <1>3, <1>4, SMT
<1>5. CASE lit >= 15
  BY <1>2, <1>3, <1>5, SMT
<1> QED
  BY <1>4, <1>5

\* What is ahead of the input by one byte in 255 is within the bound: while
\* the parse goes on, and behind the last run with its own extra bytes.
LEMMA AheadWithinBound ==
  ASSUME NEW w \in Nat, NEW a \in Nat, NEW n \in Nat, NEW q \in Nat, NEW cap \in Int,
         255 * (w - a) <= a, a <= n - 5, 255 * q >= n - 254, cap >= n + q + 16
  PROVE  w <= cap
OBVIOUS

LEMMA LastWithinBound ==
  ASSUME NEW w \in Nat, NEW a \in Nat, NEW n \in Nat, NEW q \in Nat, NEW run \in Nat,
         255 * w <= 255 * (n + 1) + a + run + 240, a + run = n, 255 * q >= n - 254
  PROVE  w <= n + q + 16
OBVIOUS

-----------------------------------------------------------------------------
LEMMA InitEncoderInv == InitEncoder => EncoderInv
<1> SUFFICES ASSUME InitEncoder PROVE EncoderInv
  OBVIOUS
<1>1. srcSize \in Nat /\ dstCapacity \in Int
  BY Lz4EncoderAssumption, SMT DEF InitEncoder, LZ4_COMPRESSBOUND
<1>2. EncoderTypes
  BY <1>1 DEF InitEncoder, EncoderTypes
<1>3. Expansion /\ WithinCapacity /\ BoundSuffices
  BY <1>1, SMT DEF InitEncoder, Expansion, WithinCapacity, BoundSuffices, Larger
<1> QED
  BY <1>2, <1>3 DEF EncoderInv

\* What the output has grown to behind a sequence's literals, and how far the
\* wild copy of them reaches: within dst, whether the room was checked or not.
LEMMA LiteralsWithin ==
  ASSUME EncoderInv, Parsing, NEW lit \in LitLens, NEW off \in Offsets, NEW ml \in MatchLens,
         MatchAllowed(lit, off, ml), LiteralsFit(lit)
  PROVE  /\ AfterLiterals(lit) \in Nat
         /\ AfterLiterals(lit) + 2 <= dstCapacity
         /\ CopyEnd(AfterLiterals(lit) - lit, lit, WILDCOPYLENGTH) \in Int
         /\ CopyEnd(AfterLiterals(lit) - lit, lit, WILDCOPYLENGTH) <= dstCapacity
<1>1. lit \in Nat /\ ml \in Nat /\ ml >= 4
  BY Lz4EncoderAssumption DEF MINMATCH
<1>2. /\ ExtraBytes(lit, 15) \in Nat
      /\ lit < 15 => ExtraBytes(lit, 15) = 0
      /\ lit >= 15 => 255 * ExtraBytes(lit, 15) <= lit + 240
      /\ ExtraBytes(lit, 15) <= lit \div 255 + 1
  BY <1>1, ExtraBytesBounds
<1> DEFINE start == written + 1 + ExtraBytes(lit, 15)
<1>3. AfterLiterals(lit) = start + lit /\ start \in Nat
  BY <1>1, <1>2 DEF AfterLiterals, RUN_MASK, EncoderInv, EncoderTypes
<1>4. /\ CopyEnd(start, lit, 8) \in Int
      /\ CopyEnd(start, lit, 8) <= start + lit + 8
      /\ lit > 0 => CopyEnd(start, lit, 8) <= start + lit + 7
  <2> HIDE DEF start
  <2>1. start \in Int
    BY <1>3
  <2> QED
    BY <1>1, <2>1, CopyEndBounds
<1>5. start + lit + 8 - (IF lit >= 15 THEN 1 ELSE 0) <= dstCapacity
  <2>1. CASE limitedOutput
    <3>1. (written + 1) + lit \div 255 + lit + 8 <= dstCapacity
      BY <2>1 DEF LiteralsFit, LASTLITERALS
    <3> QED
      BY <1>1, <1>2, <3>1, SMT DEF EncoderInv, EncoderTypes
  <2>2. CASE ~limitedOutput
    <3>1. dstCapacity >= srcSize + srcSize \div 255 + 16
      BY <2>2, SMT DEF limitedOutput, LZ4_COMPRESSBOUND, EncoderInv, EncoderTypes
    <3>2. anchor + lit <= srcSize - 12
      BY DEF MatchAllowed, MFLIMIT
    <3>3. 255 * (written - anchor) <= anchor
      BY DEF Parsing, EncoderInv, Expansion
    <3>4. 255 * start <= 255 * (anchor + 1) + anchor + lit + 240
      BY <1>1, <1>2, <3>3, SMT DEF EncoderInv, EncoderTypes
    <3>5. 255 * (srcSize \div 255) >= srcSize - 254
      BY SMT DEF EncoderInv, EncoderTypes
    <3> QED
      BY <1>1, <1>3, <3>1, <3>2, <3>4, <3>5, SMT DEF EncoderInv, EncoderTypes
  <2> QED
    BY <2>1, <2>2
<1>6. CopyEnd(start, lit, 8) <= dstCapacity
  BY <1>1, <1>3, <1>4, <1>5, SMT DEF EncoderInv, EncoderTypes
<1>7. AfterLiterals(lit) - lit = start
  BY <1>1, <1>3
<1> QED
  BY <1>1, <1>3, <1>4, <1>5, <1>6, <1>7, SMT DEF WILDCOPYLENGTH, EncoderInv, EncoderTypes

\* A sequence that is written keeps all bounds.
LEMMA EncodeSequenceInv ==
  ASSUME EncoderInv, NEW lit \in LitLens, NEW off \in Offsets, NEW ml \in MatchLens,
         EncodeSequence(lit, off, ml)
  PROVE  EncoderInv'
<1> DEFINE extra == ExtraBytes(ml - 4, 15)
<1>1. lit \in Nat /\ ml \in Nat /\ ml >= 4
  BY Lz4EncoderAssumption DEF MINMATCH
<1>2. Parsing /\ MatchAllowed(lit, off, ml) /\ LiteralsFit(lit) /\ LengthFits(lit, ml)
  BY DEF EncodeSequence
<1>3. /\ AfterLiterals(lit) \in Nat
      /\ CopyEnd(AfterLiterals(lit) - lit, lit, WILDCOPYLENGTH) \in Int
      /\ CopyEnd(AfterLiterals(lit) - lit, lit, WILDCOPYLENGTH) <= dstCapacity
  BY <1>2, LiteralsWithin
<1>4. extra \in Nat /\ extra <= (ml - 4) \div 255 + 1
  <2>1. ml - 4 \in Nat
    BY <1>1
  <2> QED
    BY <2>1, ExtraBytesBounds
<1>5. /\ written' = AfterLiterals(lit) + 2 + extra
      /\ anchor' = anchor + lit + ml
      /\ wildEnd' = Larger(written', CopyEnd(AfterLiterals(lit) - lit, lit, WILDCOPYLENGTH))
      /\ UNCHANGED <<srcSize, dstCapacity, encoder>>
  BY DEF EncodeSequence, MINMATCH, ML_MASK
<1>6. /\ anchor' \in Nat /\ anchor' <= srcSize - 5
      /\ written' \in Nat
  BY <1>1, <1>2, <1>3, <1>4, <1>5 DEF MatchAllowed, LASTLITERALS, EncoderInv, EncoderTypes
<1>7. 255 * (written' - anchor') <= anchor'
  <2>1. 255 * (1 + ExtraBytes(lit, 15) + lit + 2 + extra - (lit + ml)) <= lit
    BY <1>1, SequenceExpansion DEF MINMATCH
  <2>2. ExtraBytes(lit, 15) \in Nat
    BY <1>1, ExtraBytesBounds
  <2>3. written' - anchor' =
          (written - anchor) + (1 + ExtraBytes(lit, 15) + lit + 2 + extra - (lit + ml))
    BY <1>1, <1>4, <1>5, <2>2 DEF AfterLiterals, RUN_MASK, EncoderInv, EncoderTypes
  <2>4. 255 * (written - anchor) <= anchor
    BY <1>2 DEF Parsing, EncoderInv, Expansion
  <2> HIDE DEF extra
  <2> QED
    BY <1>1, <1>4, <1>5, <2>1, <2>2, <2>3, <2>4, SMT DEF EncoderInv, EncoderTypes
<1>8. written' <= dstCapacity
  <2>1. CASE limitedOutput
    <3>1. AfterLiterals(lit) + 2 + (ml - 4) \div 255 + 6 <= dstCapacity
      BY <1>2, <2>1 DEF LengthFits, MINMATCH, LASTLITERALS
    <3> HIDE DEF extra
    <3> QED
      BY <1>1, <1>3, <1>4, <1>5, <3>1, SMT DEF EncoderInv, EncoderTypes
  <2>2. CASE ~limitedOutput
    <3>1. dstCapacity >= srcSize + srcSize \div 255 + 16
      BY <2>2, SMT DEF limitedOutput, LZ4_COMPRESSBOUND, EncoderInv, EncoderTypes
    <3> DEFINE q == srcSize \div 255
    <3>2. q \in Nat /\ 255 * q >= srcSize - 254
      BY SMT DEF EncoderInv, EncoderTypes
    <3>3. srcSize \in Nat /\ dstCapacity \in Int /\ dstCapacity >= srcSize + q + 16
      BY <3>1 DEF EncoderInv, EncoderTypes
    <3> HIDE DEF q
    <3> QED
      BY <1>6, <1>7, <3>2, <3>3, AheadWithinBound
  <2> QED
    BY <2>1, <2>2
<1>9. wildEnd' \in Nat /\ wildEnd' <= dstCapacity
  BY <1>3, <1>5, <1>6, <1>8, SMT DEF Larger, EncoderInv, EncoderTypes
<1>10. EncoderTypes'
  BY <1>5, <1>6, <1>9, SMT DEF EncoderInv, EncoderTypes
<1>11. WithinCapacity'
  BY <1>5, <1>9, SMT DEF WithinCapacity, Larger, EncoderInv, EncoderTypes
<1>12. BoundSuffices'
  BY <1>2, <1>5 DEF BoundSuffices, Parsing
<1> QED
  BY <1>7, <1>10, <1>11, <1>12 DEF EncoderInv, Expansion

\* So does one that does not fit, also when its literals are already written.
LEMMA EncodeOverflowInv ==
  ASSUME EncoderInv, NEW lit \in LitLens, NEW off \in Offsets, NEW ml \in MatchLens,
         EncodeOverflow(lit, off, ml)
  PROVE  EncoderInv'
<1>1. /\ encoder' = "full"
      /\ UNCHANGED <<srcSize, dstCapacity, anchor, written, sequences>>
      /\ Parsing /\ MatchAllowed(lit, off, ml)
  BY DEF EncodeOverflow
<1>2. limitedOutput
  BY DEF EncodeOverflow, LiteralsFit, LengthFits
<1>3. BoundSuffices'
  BY <1>1, <1>2 DEF BoundSuffices, limitedOutput
<1>4. wildEnd' \in Nat /\ wildEnd' <= Larger(dstCapacity, 0)
  <2>1. CASE UNCHANGED wildEnd
    BY <2>1 DEF EncoderInv, EncoderTypes, WithinCapacity
  <2>2. CASE /\ LiteralsFit(lit)
             /\ wildEnd' = Larger(AfterLiterals(lit) + 2,
                                  CopyEnd(AfterLiterals(lit) - lit, lit, WILDCOPYLENGTH))
    <3>1. /\ AfterLiterals(lit) \in Nat
          /\ AfterLiterals(lit) + 2 <= dstCapacity
          /\ CopyEnd(AfterLiterals(lit) - lit, lit, WILDCOPYLENGTH) \in Int
          /\ CopyEnd(AfterLiterals(lit) - lit, lit, WILDCOPYLENGTH) <= dstCapacity
      BY <1>1, <2>2, LiteralsWithin
    <3> QED
      BY <2>2, <3>1, SMT DEF Larger, EncoderInv, EncoderTypes
  <2> QED
    BY <2>1, <2>2 DEF EncodeOverflow
<1>5. EncoderTypes' /\ Expansion' /\ WithinCapacity'
  BY <1>1, <1>4 DEF EncoderInv, EncoderTypes, Expansion, WithinCapacity
<1> QED
  BY <1>3, <1>5 DEF EncoderInv

\* The last literals end the block within both bounds.
LEMMA LastLiteralsInv == EncoderInv /\ LastLiterals => EncoderInv'
<1> SUFFICES ASSUME EncoderInv, LastLiterals PROVE EncoderInv'
  OBVIOUS
<1>1. LastRun \in Nat
  BY SMT DEF LastRun, EncoderInv, EncoderTypes
<1>2. /\ ExtraBytes(LastRun, 15) \in Nat
      /\ LastRun < 15 => ExtraBytes(LastRun, 15) = 0
      /\ LastRun >= 15 => /\ 255 * ExtraBytes(LastRun, 15) <= LastRun + 240
                          /\ 255 * ExtraBytes(LastRun, 15) > LastRun - 15
  BY <1>1, ExtraBytesBounds
<1>3. /\ written' = written + 1 + ExtraBytes(LastRun, 15) + LastRun
      /\ wildEnd' = written' /\ encoder' = "encoded"
      /\ UNCHANGED <<srcSize, dstCapacity, anchor>>
      /\ limitedOutput => written + LastSize <= dstCapacity
      /\ Parsing
  BY DEF LastLiterals, RUN_MASK
<1>4. written' \in Nat
  BY <1>1, <1>2, <1>3 DEF EncoderInv, EncoderTypes
<1>5. written' <= LZ4_COMPRESSBOUND(srcSize)
  <2>1. 255 * (written - anchor) <= anchor
    BY <1>3 DEF Parsing, EncoderInv, Expansion
  <2> DEFINE q == srcSize \div 255
  <2>2. 255 * q >= srcSize - 254 /\ q \in Nat /\ srcSize \in Nat
    BY SMT DEF EncoderInv, EncoderTypes
  <2>3. LastRun = srcSize - anchor
    BY DEF LastRun
  <2>4. 255 * written' <= 255 * (srcSize + 1) + anchor + LastRun + 240
    BY <1>1, <1>2, <1>3, <2>1, <2>3, SMT DEF EncoderInv, EncoderTypes
  <2>5. anchor + LastRun = srcSize
    BY <2>3 DEF EncoderInv, EncoderTypes
  <2>6. anchor \in Nat /\ LZ4_COMPRESSBOUND(srcSize) = srcSize + q + 16
    BY DEF LZ4_COMPRESSBOUND, EncoderInv, EncoderTypes
  <2> HIDE DEF q
  <2>7. written' <= srcSize + q + 16
    BY <1>1, <1>4, <2>2, <2>4, <2>5, <2>6, LastWithinBound
  <2> QED
    BY <2>6, <2>7
<1>6. written' <= dstCapacity
  <2>1. CASE limitedOutput
    <3>1. LastSize = 1 + (LastRun + 240) \div 255 + LastRun
      BY <1>1, SMT DEF LastSize, RUN_MASK
    <3>2. ExtraBytes(LastRun, 15) <= (LastRun + 240) \div 255
      BY <1>1, SMT DEF ExtraBytes
    <3> QED
      BY <1>1, <1>2, <1>3, <2>1, <3>1, <3>2, SMT DEF EncoderInv, EncoderTypes
  <2>2. CASE ~limitedOutput
    BY <1>4, <1>5, <2>2, SMT DEF limitedOutput, LZ4_COMPRESSBOUND, EncoderInv, EncoderTypes
  <2> QED
    BY <2>1, <2>2
<1>7. EncoderTypes' /\ Expansion'
  BY <1>3, <1>4 DEF EncoderInv, EncoderTypes, Expansion
<1>8. WithinCapacity'
  BY <1>3, <1>4, <1>6, SMT DEF WithinCapacity, Larger, EncoderInv, EncoderTypes
<1>9. BoundSuffices'
  BY <1>3, <1>5 DEF BoundSuffices
<1> QED
  BY <1>7, <1>8, <1>9 DEF EncoderInv

LEMMA OtherStepsInv ==
  EncoderInv /\ (RefuseDst \/ EncodeNothing \/ LastOverflow) => EncoderInv'
<1> SUFFICES ASSUME EncoderInv, RefuseDst \/ EncodeNothing \/ LastOverflow PROVE EncoderInv'
  OBVIOUS
<1>1. CASE RefuseDst
  <2>1. srcSize \div 255 \in Nat
    BY SMT DEF EncoderInv, EncoderTypes
  <2>2. dstCapacity < LZ4_COMPRESSBOUND(srcSize)
    BY <1>1, <2>1, SMT DEF RefuseDst, LZ4_COMPRESSBOUND, EncoderInv, EncoderTypes
  <2> QED
    BY <1>1, <2>2 DEF RefuseDst, limitedOutput, EncoderInv, EncoderTypes, Expansion,
       WithinCapacity, BoundSuffices
<1>2. CASE EncodeNothing
  <2>1. /\ srcSize = 0 /\ dstCapacity >= 1 /\ written' = 1 /\ wildEnd' = 1
        /\ encoder' = "encoded" /\ UNCHANGED <<srcSize, dstCapacity, anchor>>
    BY <1>2 DEF EncodeNothing
  <2>2. WithinCapacity' /\ BoundSuffices'
    BY <2>1, SMT DEF WithinCapacity, BoundSuffices, LZ4_COMPRESSBOUND, Larger, EncoderInv,
       EncoderTypes
  <2> QED
    BY <2>1, <2>2 DEF EncoderInv, EncoderTypes, Expansion
<1>3. CASE LastOverflow
  BY <1>3 DEF LastOverflow, limitedOutput, EncoderInv, EncoderTypes, Expansion,
     WithinCapacity, BoundSuffices
<1> QED
  BY <1>1, <1>2, <1>3

-----------------------------------------------------------------------------
LEMMA EncoderInductive == SpecEncoder => []EncoderInv
<1>1. InitEncoder => EncoderInv
  BY InitEncoderInv
<1>2. EncoderInv /\ [NextEncoder]_encoderVars => EncoderInv'
  <2> SUFFICES ASSUME EncoderInv, [NextEncoder]_encoderVars PROVE EncoderInv'
    OBVIOUS
  <2>1. CASE NextEncoder
    <3>1. CASE RefuseDst \/ EncodeNothing \/ LastOverflow
      BY <3>1, OtherStepsInv
    <3>2. CASE \E lit \in LitLens, off \in Offsets, ml \in MatchLens :
                 EncodeSequence(lit, off, ml) \/ EncodeOverflow(lit, off, ml)
      BY <3>2, EncodeSequenceInv, EncodeOverflowInv
    <3>3. CASE LastLiterals
      BY <3>3, LastLiteralsInv
    <3> QED
      BY <2>1, <3>1, <3>2, <3>3 DEF NextEncoder
  <2>2. CASE UNCHANGED encoderVars
    BY <2>2 DEF encoderVars, EncoderInv, EncoderTypes, Expansion, WithinCapacity,
       BoundSuffices, limitedOutput
  <2> QED
    BY <2>1, <2>2
<1> QED
  BY <1>1, <1>2, PTL DEF SpecEncoder

\* LZ4HC_encodeSequence never stores a byte behind the end of dst, for inputs,
\* buffers and parses of any size; with a buffer of LZ4_compressBound it does
\* not even look.
THEOREM EncoderWithinCapacity == SpecEncoder => []WithinCapacity
<1>1. EncoderInv => WithinCapacity
  BY DEF EncoderInv
<1> QED
  BY <1>1, EncoderInductive, PTL

\* Compression succeeds whenever dst has the room of LZ4_compressBound, and
\* never needs more.
THEOREM EncoderBoundSuffices == SpecEncoder => []BoundSuffices
<1>1. EncoderInv => BoundSuffices
  BY DEF EncoderInv
<1> QED
  BY <1>1, EncoderInductive, PTL

\* The packers take a result of 0 for success, but they never see one: the
\* buffers of mhy0, mhy1 and encr have the room of LZ4_compressBound for every
\* block and for every header that lists a cab.
THEOREM PackersGiveRoom ==
  ASSUME NEW cabs \in Nat, NEW blks \in Nat, NEW names \in Nat
  PROVE  /\ MhyHeaderRoom(MhyHeaderSize(cabs, blks))
              >= LZ4_COMPRESSBOUND(MhyHeaderSize(cabs, blks))
         /\ cabs >= 1 /\ names >= cabs =>
              EncrHeaderRoom(EncrHeaderSize(cabs, names, blks))
                >= LZ4_COMPRESSBOUND(EncrHeaderSize(cabs, names, blks))
         /\ \A room \in BlockRooms, sz \in Nat :
              sz <= BlockSize => room >= LZ4_COMPRESSBOUND(sz)
<1>1. ASSUME NEW h \in Nat, h >= 12
      PROVE  (h * 25) \div 10 >= LZ4_COMPRESSBOUND(h)
  BY <1>1, SMT DEF LZ4_COMPRESSBOUND
<1>2. ASSUME NEW h \in Nat, h >= 29
      PROVE  (h * 25) \div 10 - 25 >= LZ4_COMPRESSBOUND(h)
  BY <1>2, SMT DEF LZ4_COMPRESSBOUND
<1>3. MhyHeaderSize(cabs, blks) \in Nat /\ MhyHeaderSize(cabs, blks) >= 12
  BY DEF MhyHeaderSize
<1>4. cabs >= 1 /\ names >= cabs =>
        /\ EncrHeaderSize(cabs, names, blks) \in Nat
        /\ EncrHeaderSize(cabs, names, blks) >= 29
  BY DEF EncrHeaderSize
<1>5. \A room \in BlockRooms, sz \in Nat :
              sz <= BlockSize => room >= LZ4_COMPRESSBOUND(sz)
  <2> SUFFICES ASSUME NEW room \in BlockRooms, NEW sz \in Nat, sz <= BlockSize
               PROVE  room >= LZ4_COMPRESSBOUND(sz)
    OBVIOUS
  <2>1. room \in Nat /\ room >= 300000
    BY DEF BlockRooms
  <2>2. sz <= 131072
    BY DEF BlockSize
  <2>3. sz \div 255 \in Nat /\ sz \div 255 <= sz
    BY <2>2, SMT
  <2> QED
    BY <2>1, <2>2, <2>3 DEF LZ4_COMPRESSBOUND
<1> QED
  BY <1>1, <1>2, <1>3, <1>4, <1>5 DEF MhyHeaderRoom, EncrHeaderRoom

-----------------------------------------------------------------------------
(* The decoder, for blocks and buffers of all sizes and whatever lengths    *)
(* and offsets the block holds. What has to be known at every label is how  *)
(* far ip and op are from their ends: the loops test that once, and the     *)
(* copies behind the test live on it.                                       *)

DecoderTypes ==
  /\ iend \in Nat /\ oend \in Nat /\ ip \in Nat /\ op \in Nat
  /\ length \in Nat /\ offset \in Nat /\ match \in Int
  /\ readEnd \in Nat /\ storeEnd \in Nat
  /\ at \in Labels

\* Room in src.
SrcRoom ==
  /\ at \in {"fast", "safe", "safe_match_copy"} => ip < iend
  /\ at \in {"fast_match", "shortcut", "safe_match"} => ip <= iend - 3
  /\ at = "safe_literal_copy" => ip <= iend

\* Room in dst.
DstRoom ==
  /\ op <= oend
  /\ at = "fast" => op <= oend - 64
  /\ at = "fast_match" => op <= oend - 32
  /\ at = "shortcut" => op <= oend - 18
  /\ at \in {"safe_match", "safe_match_copy"} => op <= oend - 12

DecoderInv ==
  /\ DecoderTypes /\ SrcRoom /\ DstRoom
  /\ at = "entry" => ip = 0 /\ op = 0
  /\ at = "safe_match_copy" => length >= MINMATCH
  /\ InBounds /\ MatchesInside

AnyMatchLens == {m \in Nat : m >= MINMATCH}

USE DEF MINMATCH, WILDCOPYLENGTH, LASTLITERALS, MFLIMIT, MATCH_SAFEGUARD_DISTANCE,
        FASTLOOP_SAFE_DISTANCE, ML_MASK, RUN_MASK

-----------------------------------------------------------------------------
\* A copy in steps of eight or thirty-two ends at most one step less a byte late.
LEMMA CopyEnd8 ==
  ASSUME NEW start \in Int, NEW n \in Int, n >= -8
  PROVE  /\ CopyEnd(start, n, 8) \in Int
         /\ CopyEnd(start, n, 8) >= start + 8
         /\ CopyEnd(start, n, 8) <= start + Larger(8, n + 7)
BY SMT DEF CopyEnd, Turns, Larger

LEMMA CopyEnd32 ==
  ASSUME NEW start \in Int, NEW n \in Nat
  PROVE  /\ CopyEnd(start, n, 32) \in Int
         /\ CopyEnd(start, n, 32) >= start + 32
         /\ CopyEnd(start, n, 32) <= start + Larger(32, n + 31)
BY SMT DEF CopyEnd, Turns, Larger

LEMMA ExtraBytesNat ==
  ASSUME NEW n \in Nat
  PROVE  /\ ExtraBytes(n, 15) \in Nat
         /\ n < 15 => ExtraBytes(n, 15) = 0
         /\ n >= 15 => ExtraBytes(n, 15) >= 1
BY SMT DEF ExtraBytes

\* What read_variable_length reads before it gives up is within src, given one
\* byte to read or a first look at the limit.
LEMMA LengthReadEndWithin ==
  ASSUME NEW p \in Nat, NEW x \in Nat, NEW lim \in Int, NEW e \in Nat, NEW check \in BOOLEAN,
         lim + 1 <= e, p + 1 <= e \/ (check /\ p <= e)
  PROVE  /\ LengthReadEnd(p, x, lim, check) \in Nat
         /\ LengthReadEnd(p, x, lim, check) <= e
BY SMT DEF LengthReadEnd, Larger, Lesser

-----------------------------------------------------------------------------
(* The ways on from a label, given the room that each of them needs.       *)

LEMMA RejectInv ==
  ASSUME DecoderInv, NEW e \in Nat, e <= iend, Reject(e)
  PROVE  DecoderInv'
BY DEF DecoderInv, DecoderTypes, SrcRoom, DstRoom, InBounds, MatchesInside, Reject, Reads,
   Stores, Dead, Frame, Labels

LEMMA TakeLiteralsInv ==
  ASSUME DecoderInv, NEW l \in Nat, NEW first \in Nat, NEW read \in Nat, NEW placed \in Nat,
         NEW label \in {"fast_match", "shortcut", "safe_match", "accepted"},
         TakeLiterals(l, first, read, placed, label),
         read <= iend, placed <= oend, op + l <= oend,
         label # "accepted" => first + l <= iend - 3,
         label = "fast_match" => op + l <= oend - 32,
         label = "shortcut" => op + l <= oend - 18,
         label = "safe_match" => op + l <= oend - 12
  PROVE  DecoderInv'
<1>1. /\ readEnd' = read /\ storeEnd' = placed /\ ip' = first + l /\ op' = op + l
      /\ at' = label /\ length' = 0 /\ offset' = 0 /\ match' = 0
      /\ UNCHANGED <<iend, oend>>
  BY DEF TakeLiterals, Reads, Stores, Dead, Frame
<1>2. DecoderTypes'
  BY <1>1 DEF DecoderInv, DecoderTypes, Labels
<1> QED
  BY <1>1, <1>2 DEF DecoderInv, DecoderTypes, SrcRoom, DstRoom, InBounds, MatchesInside

LEMMA DeferLiteralsInv ==
  ASSUME DecoderInv, NEW l \in Nat, NEW first \in Nat, DeferLiterals(l, first), first <= iend
  PROVE  DecoderInv'
<1>1. /\ readEnd' = first /\ storeEnd' = 0 /\ ip' = first /\ length' = l
      /\ at' = "safe_literal_copy" /\ UNCHANGED <<iend, oend, op, offset, match>>
  BY DEF DeferLiterals, Reads, Stores, Frame
<1>2. DecoderTypes'
  BY <1>1 DEF DecoderInv, DecoderTypes, Labels
<1> QED
  BY <1>1, <1>2 DEF DecoderInv, DecoderTypes, SrcRoom, DstRoom, InBounds, MatchesInside

LEMMA DeferMatchInv ==
  ASSUME DecoderInv, NEW off \in Nat, NEW m \in AnyMatchLens, NEW first \in Nat,
         DeferMatch(off, m, first), first < iend, op <= oend - 12
  PROVE  DecoderInv'
<1>1. /\ readEnd' = first /\ storeEnd' = 0 /\ ip' = first /\ length' = m /\ offset' = off
      /\ match' = op - off /\ at' = "safe_match_copy" /\ UNCHANGED <<iend, oend, op>>
  BY DEF DeferMatch, Reads, Stores, Frame
<1>2. DecoderTypes'
  BY <1>1 DEF DecoderInv, DecoderTypes, Labels, AnyMatchLens
<1> QED
  BY <1>1, <1>2 DEF DecoderInv, DecoderTypes, SrcRoom, DstRoom, InBounds, MatchesInside,
     AnyMatchLens

LEMMA TakeMatchInv ==
  ASSUME DecoderInv, NEW off \in Nat, NEW m \in AnyMatchLens, NEW first \in Nat,
         NEW placed \in Nat, NEW copied, NEW label \in {"fast", "safe"},
         TakeMatch(off, m, first, placed, copied, label),
         first < iend, placed <= oend, off <= op, op + m <= oend,
         label = "fast" => op + m <= oend - 64
  PROVE  DecoderInv'
<1>1. /\ readEnd' = first /\ storeEnd' = placed /\ ip' = first /\ op' = op + m
      /\ at' = label /\ length' = 0 /\ offset' = 0 /\ match' = op - off
      /\ UNCHANGED <<iend, oend>>
  BY DEF TakeMatch, Reads, Stores, Frame
<1>2. DecoderTypes'
  BY <1>1 DEF DecoderInv, DecoderTypes, Labels, AnyMatchLens
<1> QED
  BY <1>1, <1>2 DEF DecoderInv, DecoderTypes, SrcRoom, DstRoom, InBounds, MatchesInside,
     AnyMatchLens

-----------------------------------------------------------------------------
(* The steps                                                               *)

LEMMA EnterInv ==
  ASSUME DecoderInv, NEW l \in Nat, NEW m \in AnyMatchLens, Enter(l, m)
  PROVE  DecoderInv'
<1>1. /\ readEnd' = (IF oend = 0 /\ iend = 1 THEN 1 ELSE 0)
      /\ storeEnd' = 0 /\ at = "entry"
      /\ UNCHANGED <<iend, oend, ip, op, length, offset, match>>
  BY DEF Enter, Reads, Stores, Frame
<1>2. \/ at' \in {"accepted", "rejected"}
      \/ at' = "safe" /\ oend > 0 /\ iend > 0
      \/ at' = "fast" /\ oend >= 64 /\ iend > 0
  BY DEF Enter, DecoderInv, DecoderTypes
<1>3. ip = 0 /\ op = 0
  BY <1>1 DEF DecoderInv
<1> QED
  BY <1>1, <1>2, <1>3 DEF DecoderInv, DecoderTypes, SrcRoom, DstRoom, InBounds,
     MatchesInside, Labels

LEMMA FastLiteralsInv ==
  ASSUME DecoderInv, NEW l \in Nat, FastLiterals(l)
  PROVE  DecoderInv'
<1> DEFINE x == LitExtra(l)
           first == ip + 1 + x
<1>1. /\ at = "fast" /\ ip < iend /\ op <= oend - 64
      /\ ip \in Nat /\ op \in Nat /\ iend \in Nat /\ oend \in Nat
  BY DEF FastLiterals, DecoderInv, DecoderTypes, SrcRoom, DstRoom
<1>2. x \in Nat /\ (l < 15 => x = 0)
  BY ExtraBytesNat DEF LitExtra
<1>3. first \in Nat
  BY <1>1, <1>2
<1>4. CASE l >= RUN_MASK
  <2>1. CASE Reject(LengthReadEnd(ip + 1, x, LitLimit, TRUE))
    <3>1. /\ LengthReadEnd(ip + 1, x, LitLimit, TRUE) \in Nat
          /\ LengthReadEnd(ip + 1, x, LitLimit, TRUE) <= iend
      <4>1. LitLimit \in Int /\ LitLimit + 1 <= iend /\ ip + 1 \in Nat /\ ip + 1 <= iend
        BY <1>1 DEF LitLimit
      <4> HIDE DEF x
      <4> QED
        BY <1>1, <1>2, <4>1, LengthReadEndWithin
    <3> QED
      BY <2>1, <3>1, RejectInv
  <2>2. CASE FastWildFits(l, first)
             /\ TakeLiterals(l, first, CopyEnd(first, l, 32), CopyEnd(op, l, 32), "fast_match")
    <3>1. op + l <= oend - 32 /\ first + l <= iend - 32
      BY <2>2 DEF FastWildFits
    <3>2. /\ CopyEnd(first, l, 32) \in Int /\ CopyEnd(first, l, 32) >= first + 32
          /\ CopyEnd(first, l, 32) <= first + Larger(32, l + 31)
      <4> HIDE DEF first
      <4>1. first \in Int
        BY <1>3
      <4> QED
        BY <4>1, CopyEnd32
    <3>3. /\ CopyEnd(op, l, 32) \in Int /\ CopyEnd(op, l, 32) >= op + 32
          /\ CopyEnd(op, l, 32) <= op + Larger(32, l + 31)
      <4>1. op \in Int
        BY <1>1
      <4> QED
        BY <4>1, CopyEnd32
    <3> HIDE DEF first
    <3>4. /\ CopyEnd(first, l, 32) \in Nat /\ CopyEnd(first, l, 32) <= iend
          /\ CopyEnd(op, l, 32) \in Nat /\ CopyEnd(op, l, 32) <= oend
      BY <1>1, <1>3, <3>1, <3>2, <3>3 DEF Larger
    <3> QED
      BY <1>1, <1>3, <2>2, <3>1, <3>4, TakeLiteralsInv
  <2>3. CASE ReadsLength(ip + 1, x, LitLimit, TRUE) /\ DeferLiterals(l, first)
    <3>1. first <= iend
      BY <1>1, <1>2, <2>3 DEF ReadsLength, LitLimit
    <3> HIDE DEF first
    <3> QED
      BY <1>3, <2>3, <3>1, DeferLiteralsInv
  <2> QED
    BY <1>4, <2>1, <2>2, <2>3 DEF FastLiterals
<1>5. CASE ~(l >= RUN_MASK)
  <2>1. CASE first <= iend - 17 /\ TakeLiterals(l, first, first + 16, op + 16, "fast_match")
    <3> HIDE DEF first
    <3>1. first + 16 \in Nat /\ op + 16 \in Nat
      BY <1>1, <1>3
    <3>2. /\ first + 16 <= iend /\ op + 16 <= oend /\ op + l <= oend - 32
          /\ first + l <= iend - 3 /\ op + l <= oend
      BY <1>1, <1>3, <1>5, <2>1
    <3> QED
      BY <1>3, <2>1, <3>1, <3>2, TakeLiteralsInv
  <2>2. CASE DeferLiterals(l, first)
    <3>1. first <= iend
      BY <1>1, <1>2, <1>5
    <3> HIDE DEF first
    <3> QED
      BY <1>3, <2>2, <3>1, DeferLiteralsInv
  <2> QED
    BY <1>5, <2>1, <2>2 DEF FastLiterals
<1> QED
  BY <1>4, <1>5

LEMMA SafeLiteralsInv ==
  ASSUME DecoderInv, NEW l \in Nat, SafeLiterals(l)
  PROVE  DecoderInv'
<1> DEFINE x == LitExtra(l)
           first == ip + 1 + x
<1>1. /\ at = "safe" /\ ip < iend /\ op <= oend
      /\ ip \in Nat /\ op \in Nat /\ iend \in Nat /\ oend \in Nat
  BY DEF SafeLiterals, DecoderInv, DecoderTypes, SrcRoom, DstRoom
<1>2. x \in Nat /\ (l < 15 => x = 0)
  BY ExtraBytesNat DEF LitExtra
<1>3. first \in Nat
  BY <1>1, <1>2
<1>4. CASE l < RUN_MASK /\ ShortcutFits
  <2>1. TakeLiterals(l, first, first + 16, op + 16, "shortcut")
    BY <1>4 DEF SafeLiterals
  <2>2. ip + 1 < iend - 16 /\ op <= oend - 32
    BY <1>1, <1>4 DEF ShortcutFits
  <2>3. /\ first + 16 <= iend /\ op + 16 <= oend /\ op + l <= oend
        /\ first + l <= iend - 3 /\ op + l <= oend - 18
    BY <1>1, <1>2, <1>4, <2>2
  <2> HIDE DEF first
  <2>4. first + 16 \in Nat /\ op + 16 \in Nat
    BY <1>1, <1>3
  <2> QED
    BY <1>3, <2>1, <2>3, <2>4, TakeLiteralsInv
<1>5. CASE ~(l < RUN_MASK /\ ShortcutFits)
           /\ (l >= RUN_MASK /\ ~ReadsLength(ip + 1, x, LitLimit, TRUE))
  <2>1. Reject(LengthReadEnd(ip + 1, x, LitLimit, TRUE))
    BY <1>5 DEF SafeLiterals
  <2>2. LitLimit \in Int /\ LitLimit + 1 <= iend /\ ip + 1 \in Nat /\ ip + 1 <= iend
    BY <1>1 DEF LitLimit
  <2> HIDE DEF x
  <2>3. /\ LengthReadEnd(ip + 1, x, LitLimit, TRUE) \in Nat
        /\ LengthReadEnd(ip + 1, x, LitLimit, TRUE) <= iend
    BY <1>1, <1>2, <2>2, LengthReadEndWithin
  <2> QED
    BY <2>1, <2>3, RejectInv
<1>6. CASE ~(l < RUN_MASK /\ ShortcutFits)
           /\ ~(l >= RUN_MASK /\ ~ReadsLength(ip + 1, x, LitLimit, TRUE))
  <2>1. DeferLiterals(l, first)
    BY <1>6 DEF SafeLiterals
  <2>2. first <= iend
    <3>1. CASE l < RUN_MASK
      BY <1>1, <1>2, <3>1
    <3>2. CASE ~(l < RUN_MASK)
      BY <1>1, <1>2, <1>6, <3>2 DEF ReadsLength, LitLimit
    <3> QED
      BY <3>1, <3>2
  <2> HIDE DEF first
  <2> QED
    BY <1>3, <2>1, <2>2, DeferLiteralsInv
<1> QED
  BY <1>4, <1>5, <1>6

LEMMA SafeLiteralCopyInv ==
  ASSUME DecoderInv, SafeLiteralCopy
  PROVE  DecoderInv'
<1>1. /\ at = "safe_literal_copy" /\ ip <= iend /\ op <= oend /\ length \in Nat
      /\ ip \in Nat /\ op \in Nat /\ iend \in Nat /\ oend \in Nat
  BY DEF SafeLiteralCopy, DecoderInv, DecoderTypes, SrcRoom, DstRoom
<1>2. CASE ~LastRunOnly
  <2>1. TakeLiterals(length, ip, CopyEnd(ip, length, 8), CopyEnd(op, length, 8), "safe_match")
    BY <1>2 DEF SafeLiteralCopy
  <2>2. op + length <= oend - 12 /\ ip + length <= iend - 8
    BY <1>1, <1>2 DEF LastRunOnly
  <2>3. /\ CopyEnd(ip, length, 8) \in Int /\ CopyEnd(ip, length, 8) >= ip + 8
        /\ CopyEnd(ip, length, 8) <= ip + Larger(8, length + 7)
        /\ CopyEnd(op, length, 8) \in Int /\ CopyEnd(op, length, 8) >= op + 8
        /\ CopyEnd(op, length, 8) <= op + Larger(8, length + 7)
    <3>1. ip \in Int /\ op \in Int /\ length \in Int /\ length >= -8
      BY <1>1
    <3> QED
      BY <3>1, CopyEnd8
  <2>4. /\ CopyEnd(ip, length, 8) \in Nat /\ CopyEnd(ip, length, 8) <= iend
        /\ CopyEnd(op, length, 8) \in Nat /\ CopyEnd(op, length, 8) <= oend
    BY <1>1, <2>2, <2>3 DEF Larger
  <2>5. ip + length <= iend - 3 /\ op + length <= oend
    BY <1>1, <2>2
  <2> QED
    BY <1>1, <2>1, <2>2, <2>4, <2>5, TakeLiteralsInv
<1>3. CASE LastRunOnly /\ (ip + length # iend \/ op + length > oend)
  <2>1. Reject(0)
    BY <1>3 DEF SafeLiteralCopy
  <2> QED
    BY <1>1, <2>1, RejectInv
<1>4. CASE LastRunOnly /\ ~(ip + length # iend \/ op + length > oend)
  <2>1. TakeLiterals(length, ip, ip + length, op + length, "accepted")
    BY <1>4 DEF SafeLiteralCopy
  <2>2. /\ ip + length \in Nat /\ op + length \in Nat
        /\ ip + length <= iend /\ op + length <= oend
    BY <1>1, <1>4
  <2> QED
    BY <1>1, <2>1, <2>2, TakeLiteralsInv
<1> QED
  BY <1>2, <1>3, <1>4

\* Where the length of a match ends, or reading it does.
LEMMA MatchLength ==
  ASSUME NEW m \in AnyMatchLens, ip \in Nat, iend \in Nat, ip <= iend - 3
  PROVE  /\ MatchExtra(m) \in Nat
         /\ ip + 2 + MatchExtra(m) \in Nat
         /\ ~LongMatchRejected(ip + 2, m) => ip + 2 + MatchExtra(m) < iend
         /\ LengthReadEnd(ip + 2, MatchExtra(m), MatchLimit, FALSE) \in Nat
         /\ LengthReadEnd(ip + 2, MatchExtra(m), MatchLimit, FALSE) <= iend
<1>1. m - 4 \in Nat
  BY DEF AnyMatchLens
<1>2. MatchExtra(m) \in Nat /\ (m - 4 < 15 => MatchExtra(m) = 0)
  BY <1>1, ExtraBytesNat DEF MatchExtra
<1>3. MatchLimit \in Int /\ MatchLimit + 1 <= iend /\ ip + 2 \in Nat /\ (ip + 2) + 1 <= iend
  BY DEF MatchLimit
<1>4. /\ LengthReadEnd(ip + 2, MatchExtra(m), MatchLimit, FALSE) \in Nat
      /\ LengthReadEnd(ip + 2, MatchExtra(m), MatchLimit, FALSE) <= iend
  BY <1>2, <1>3, LengthReadEndWithin
<1>5. ~LongMatchRejected(ip + 2, m) => ip + 2 + MatchExtra(m) < iend
  <2>1. CASE m - 4 < 15
    BY <1>2, <2>1
  <2>2. CASE ~(m - 4 < 15)
    BY <1>1, <1>2, <2>2 DEF LongMatchRejected, ReadsLength, MatchLimit
  <2> QED
    BY <2>1, <2>2
<1>6. ip + 2 + MatchExtra(m) \in Nat
  BY <1>2
<1> QED
  BY <1>2, <1>4, <1>5, <1>6, Zenon

LEMMA FastMatchInv ==
  ASSUME DecoderInv, NEW off \in Nat, NEW m \in AnyMatchLens, FastMatch(off, m)
  PROVE  DecoderInv'
<1> DEFINE first == ip + 2 + MatchExtra(m)
<1>1. /\ at = "fast_match" /\ ip <= iend - 3 /\ op <= oend - 32
      /\ ip \in Nat /\ op \in Nat /\ iend \in Nat /\ oend \in Nat
  BY DEF FastMatch, DecoderInv, DecoderTypes, SrcRoom, DstRoom
<1>2. m \in Nat /\ m >= 4
  BY DEF AnyMatchLens
<1>3. /\ first \in Nat
      /\ ~LongMatchRejected(ip + 2, m) => first < iend
      /\ LengthReadEnd(ip + 2, MatchExtra(m), MatchLimit, FALSE) \in Nat
      /\ LengthReadEnd(ip + 2, MatchExtra(m), MatchLimit, FALSE) <= iend
  BY <1>1, MatchLength
<1>4. CASE LongMatchRejected(ip + 2, m)
  <2>1. Reject(LengthReadEnd(ip + 2, MatchExtra(m), MatchLimit, FALSE))
    BY <1>4 DEF FastMatch
  <2> QED
    BY <1>3, <2>1, RejectInv
<1>5. CASE ~LongMatchRejected(ip + 2, m)
  <2> HIDE DEF first
  <2>1. CASE op + m >= oend - FASTLOOP_SAFE_DISTANCE
    <3>1. DeferMatch(off, m, first)
      BY <1>5, <2>1 DEF FastMatch, first
    <3> QED
      BY <1>1, <1>3, <1>5, <3>1, DeferMatchInv
  <2>2. CASE /\ ~(op + m >= oend - FASTLOOP_SAFE_DISTANCE)
             /\ m - MINMATCH < ML_MASK /\ ShortMatch(off)
    <3>1. TakeMatch(off, m, first, op + 18, Eighteen(dst, op, op - off), "fast")
      BY <1>5, <2>2 DEF FastMatch, first
    <3>2. off <= op /\ op + m <= oend - 64 /\ op + m <= oend /\ op + 18 <= oend
          /\ op + 18 \in Nat
      BY <1>1, <1>2, <2>2 DEF ShortMatch
    <3> QED
      BY <1>3, <1>5, <3>1, <3>2, TakeMatchInv
  <2>3. CASE /\ ~(op + m >= oend - FASTLOOP_SAFE_DISTANCE)
             /\ ~(m - MINMATCH < ML_MASK /\ ShortMatch(off)) /\ off > op
    <3>1. Reject(first)
      BY <1>5, <2>3 DEF FastMatch, first
    <3> QED
      BY <1>1, <1>3, <1>5, <3>1, RejectInv
  <2>4. CASE /\ ~(op + m >= oend - FASTLOOP_SAFE_DISTANCE)
             /\ ~(m - MINMATCH < ML_MASK /\ ShortMatch(off)) /\ ~(off > op)
    <3>1. TakeMatch(off, m, first, FastCopyEnd(m, off), FastCopy(m, off), "fast")
      BY <1>5, <2>4 DEF FastMatch, first
    <3>2. off <= op /\ op + m <= oend - 64 /\ op + m <= oend
      BY <1>1, <1>2, <2>4
    <3>3. /\ CopyEnd(op, m, 8) \in Int /\ CopyEnd(op, m, 8) >= op + 8
          /\ CopyEnd(op, m, 8) <= op + Larger(8, m + 7)
      <4>1. op \in Int /\ m \in Int /\ m >= -8
        BY <1>1, <1>2
      <4> QED
        BY <4>1, CopyEnd8
    <3>4. /\ CopyEnd(op + 8, m - 8, 8) \in Int /\ CopyEnd(op + 8, m - 8, 8) >= op + 16
          /\ CopyEnd(op + 8, m - 8, 8) <= op + 8 + Larger(8, m - 1)
      <4> DEFINE o == op + 8
                 n == m - 8
      <4>1. o \in Int /\ n \in Int /\ n >= -8 /\ o + 8 = op + 16 /\ n + 7 = m - 1
        BY <1>1, <1>2
      <4> HIDE DEF o, n
      <4>2. /\ CopyEnd(o, n, 8) \in Int /\ CopyEnd(o, n, 8) >= o + 8
            /\ CopyEnd(o, n, 8) <= o + Larger(8, n + 7)
        BY <4>1, CopyEnd8
      <4> QED
        BY <4>1, <4>2 DEF o, n
    <3>5. /\ CopyEnd(op, m, 32) \in Int /\ CopyEnd(op, m, 32) >= op + 32
          /\ CopyEnd(op, m, 32) <= op + Larger(32, m + 31)
      <4>1. op \in Int
        BY <1>1
      <4> QED
        BY <1>2, <4>1, CopyEnd32
    <3>6. /\ FastCopyEnd(m, off) \in Nat
          /\ FastCopyEnd(m, off) <= oend
      BY <1>1, <1>2, <3>2, <3>3, <3>4, <3>5 DEF FastCopyEnd, UsingOffsetEnd, Larger
    <3> QED
      BY <1>3, <1>5, <3>1, <3>2, <3>6, TakeMatchInv
  <2> QED
    BY <2>1, <2>2, <2>3, <2>4
<1> QED
  BY <1>4, <1>5

LEMMA SafeMatchInv ==
  ASSUME DecoderInv, NEW off \in Nat, NEW m \in AnyMatchLens, SafeMatch(off, m)
  PROVE  DecoderInv'
<1> DEFINE first == ip + 2 + MatchExtra(m)
           short == at = "shortcut" /\ m - MINMATCH < ML_MASK /\ ShortMatch(off)
<1>1. /\ at \in {"shortcut", "safe_match"} /\ ip <= iend - 3 /\ op <= oend - 12
      /\ at = "shortcut" => op <= oend - 18
      /\ ip \in Nat /\ op \in Nat /\ iend \in Nat /\ oend \in Nat
  BY DEF SafeMatch, DecoderInv, DecoderTypes, SrcRoom, DstRoom
<1>2. m \in Nat /\ m >= 4
  BY DEF AnyMatchLens
<1>3. /\ first \in Nat
      /\ ~LongMatchRejected(ip + 2, m) => first < iend
      /\ LengthReadEnd(ip + 2, MatchExtra(m), MatchLimit, FALSE) \in Nat
      /\ LengthReadEnd(ip + 2, MatchExtra(m), MatchLimit, FALSE) <= iend
  BY <1>1, MatchLength
<1>4. CASE short
  <2>1. TakeMatch(off, m, first, op + 18, Eighteen(dst, op, op - off), "safe")
    BY <1>4 DEF SafeMatch
  <2>2. ~LongMatchRejected(ip + 2, m)
    <3>1. ~(m - 4 >= 15)
      BY <1>2, <1>4
    <3> QED
      BY <3>1 DEF LongMatchRejected
  <2>3. off <= op /\ op + m <= oend /\ op + 18 <= oend /\ op + 18 \in Nat
    BY <1>1, <1>2, <1>4 DEF ShortMatch
  <2> HIDE DEF first
  <2> QED
    BY <1>3, <2>1, <2>2, <2>3, TakeMatchInv
<1>5. CASE ~short /\ LongMatchRejected(ip + 2, m)
  <2>1. Reject(LengthReadEnd(ip + 2, MatchExtra(m), MatchLimit, FALSE))
    BY <1>5 DEF SafeMatch
  <2> QED
    BY <1>3, <2>1, RejectInv
<1>6. CASE ~short /\ ~LongMatchRejected(ip + 2, m)
  <2>1. DeferMatch(off, m, first)
    BY <1>6 DEF SafeMatch
  <2> HIDE DEF first
  <2> QED
    BY <1>1, <1>3, <1>6, <2>1, DeferMatchInv
<1> QED
  BY <1>4, <1>5, <1>6

LEMMA SafeMatchCopyInv ==
  ASSUME DecoderInv, SafeMatchCopy
  PROVE  DecoderInv'
<1>1. /\ at = "safe_match_copy" /\ ip < iend /\ op <= oend - 12 /\ length >= 4
      /\ ip \in Nat /\ op \in Nat /\ iend \in Nat /\ oend \in Nat /\ length \in Nat
      /\ match \in Int
  BY DEF SafeMatchCopy, DecoderInv, DecoderTypes, SrcRoom, DstRoom
<1>2. CASE match < 0
  <2>1. Reject(0)
    BY <1>2 DEF SafeMatchCopy
  <2> QED
    BY <1>1, <2>1, RejectInv
<1>3. CASE ~(match < 0) /\ NearEnd /\ op + length > oend - LASTLITERALS
  <2>1. /\ at' = "rejected" /\ readEnd' = 0 /\ storeEnd' = op + 8
        /\ UNCHANGED <<iend, oend, ip, op, length, offset, match>>
    BY <1>3 DEF SafeMatchCopy, Reads, Stores, Frame
  <2> QED
    BY <1>1, <1>3, <2>1 DEF DecoderInv, DecoderTypes, SrcRoom, DstRoom, InBounds,
       MatchesInside, Labels
<1>4. CASE ~(match < 0) /\ ~(NearEnd /\ op + length > oend - LASTLITERALS)
  <2>1. /\ storeEnd' = IF NearEnd THEN EndStore ELSE MidStore
        /\ readEnd' = 0 /\ op' = op + length /\ at' = "safe" /\ length' = 0 /\ offset' = 0
        /\ UNCHANGED <<iend, oend, ip, match>>
    BY <1>4 DEF SafeMatchCopy, Reads, Stores, Frame
  <2>2. op + length <= oend - 5
    BY <1>1, <1>4 DEF NearEnd
  <2>3. EndStore \in Nat /\ EndStore <= oend
    <3>1. CASE op + 8 < oCopyLimit
      <4> DEFINE o == op + 8
                 n == oCopyLimit - (op + 8)
      <4>1. o \in Int /\ n \in Int /\ n >= -8 /\ n >= 1 /\ o + n = oend - 7
        BY <1>1, <3>1 DEF oCopyLimit
      <4> HIDE DEF o, n
      <4>2. /\ CopyEnd(o, n, 8) \in Int /\ CopyEnd(o, n, 8) >= o + 8
            /\ CopyEnd(o, n, 8) <= o + Larger(8, n + 7)
        BY <4>1, CopyEnd8
      <4>3. CopyEnd(o, n, 8) <= oend
        BY <1>1, <4>1, <4>2 DEF Larger
      <4>4. EndStore = Larger(CopyEnd(o, n, 8), op + length)
        BY <3>1 DEF EndStore, o, n
      <4> QED
        BY <1>1, <2>2, <4>1, <4>2, <4>3, <4>4 DEF Larger
    <3>2. CASE ~(op + 8 < oCopyLimit)
      BY <1>1, <2>2, <3>2 DEF EndStore, Larger
    <3> QED
      BY <3>1, <3>2
  <2>4. ASSUME ~NearEnd
        PROVE  MidStore \in Nat /\ MidStore <= oend
    <3>1. op + length <= oend - 12
      BY <1>1, <2>4 DEF NearEnd
    <3>2. CASE length > 16
      <4> DEFINE o == op + 16
                 n == length - 16
      <4>1. o \in Int /\ n \in Int /\ n >= -8 /\ n >= 1 /\ o + n = op + length
        BY <1>1, <3>2
      <4> HIDE DEF o, n
      <4>2. /\ CopyEnd(o, n, 8) \in Int /\ CopyEnd(o, n, 8) >= o + 8
            /\ CopyEnd(o, n, 8) <= o + Larger(8, n + 7)
        BY <4>1, CopyEnd8
      <4>3. MidStore = CopyEnd(o, n, 8)
        BY <3>2 DEF MidStore, o, n
      <4>4. o \in Nat
        BY <1>1 DEF o
      <4> QED
        BY <1>1, <3>1, <4>1, <4>2, <4>3, <4>4 DEF Larger
    <3>3. CASE ~(length > 16)
      BY <1>1, <3>1, <3>3 DEF MidStore
    <3> QED
      BY <3>2, <3>3
  <2>5. storeEnd' \in Nat /\ storeEnd' <= oend
    BY <2>1, <2>3, <2>4
  <2>6. DecoderTypes'
    BY <1>1, <2>1, <2>5 DEF DecoderTypes, Labels
  <2> QED
    BY <1>1, <1>4, <2>1, <2>2, <2>5, <2>6 DEF DecoderInv, SrcRoom, DstRoom, InBounds,
       MatchesInside
<1> QED
  BY <1>2, <1>3, <1>4

-----------------------------------------------------------------------------
LEMMA DecoderInductive == SpecAnyBlock => []DecoderInv
<1>1. InitAnyBlock => DecoderInv
  BY DEF InitAnyBlock, InitDecoder, DecoderInv, DecoderTypes, SrcRoom, DstRoom, InBounds,
     MatchesInside, Labels
<1>2. DecoderInv /\ [NextDecoder(Nat, Nat, {m \in Nat : m >= MINMATCH})]_decoderVars
        => DecoderInv'
  <2> SUFFICES ASSUME DecoderInv,
                      [NextDecoder(Nat, Nat, {m \in Nat : m >= MINMATCH})]_decoderVars
               PROVE  DecoderInv'
    OBVIOUS
  <2>1. ASSUME NextDecoder(Nat, Nat, AnyMatchLens) PROVE DecoderInv'
    <3>1. CASE \E l \in Nat, m \in AnyMatchLens : Enter(l, m)
      BY <3>1, EnterInv
    <3>2. CASE \E l \in Nat : ReadLiterals(l)
      BY <3>2, FastLiteralsInv, SafeLiteralsInv DEF ReadLiterals
    <3>3. CASE \E off \in Nat, m \in AnyMatchLens : ReadMatch(off, m)
      BY <3>3, FastMatchInv, SafeMatchInv DEF ReadMatch
    <3>4. CASE Copy
      BY <3>4, SafeLiteralCopyInv, SafeMatchCopyInv DEF Copy
    <3> QED
      BY <2>1, <3>1, <3>2, <3>3, <3>4 DEF NextDecoder
  <2>2. CASE UNCHANGED decoderVars
    BY <2>2 DEF decoderVars, DecoderInv, DecoderTypes, SrcRoom, DstRoom, InBounds,
       MatchesInside
  <2> QED
    BY <2>1, <2>2 DEF AnyMatchLens
<1> QED
  BY <1>1, <1>2, PTL DEF SpecAnyBlock

\* No block makes LZ4_decompress_safe read behind src or store behind dst, with
\* all that its wild copies overshoot.
THEOREM DecoderInBounds == SpecAnyBlock => []InBounds
<1>1. DecoderInv => InBounds
  BY DEF DecoderInv
<1> QED
  BY <1>1, DecoderInductive, PTL

\* No block makes it copy from before dst, not even on the paths that copy
\* ahead of the check of the offset.
THEOREM DecoderMatchesInside == SpecAnyBlock => []MatchesInside
<1>1. DecoderInv => MatchesInside
  BY DEF DecoderInv
<1> QED
  BY <1>1, DecoderInductive, PTL

\* The assertions in its loops hold for every block.
THEOREM DecoderLoopAssertions == SpecAnyBlock => []LoopAssertions
<1>1. DecoderInv => LoopAssertions
  BY DEF DecoderInv, DecoderTypes, SrcRoom, DstRoom, LoopAssertions
<1> QED
  BY <1>1, DecoderInductive, PTL

-----------------------------------------------------------------------------
(* Copies of a match. Each lemma says of a copy that starts at d, behind    *)
(* what dst holds of the text, that dst then holds the text as far as the   *)
(* match goes (e) or the copy stores.                                       *)

\* dst with n bytes.
Memory(n) == [0 .. n - 1 -> Nat \cup {Junk}]

\* b holds the text t up to e.
Holds(b, t, e) == \A i \in DOMAIN b : i < e => b[i] = t[i]

\* From d to e the text is what it is dist bytes before.
Repeats(t, d, e, dist) == \A i \in Int : d <= i /\ i < e => t[i] = t[i - dist]

\* One step of a copy that does not read what it stores.
LEMMA ChunkHolds ==
  ASSUME NEW n \in Nat, NEW b \in Memory(n), NEW t, NEW d \in Nat, NEW s \in Nat,
         NEW w \in Nat, NEW e \in Int, s + w <= d,
         Holds(b, t, Lesser(e, d)), Repeats(t, d, e, d - s)
  PROVE  /\ Chunk(b, d, s, w) \in Memory(n)
         /\ Holds(Chunk(b, d, s, w), t, Lesser(e, d + w))
<1> DEFINE c == Chunk(b, d, s, w)
<1>1. DOMAIN b = 0 .. n - 1 /\ \A i \in 0 .. n - 1 : b[i] \in Nat \cup {Junk}
  BY DEF Memory
<1>2. /\ c = [i \in 0 .. n - 1 |-> IF i \in d .. d + w - 1 THEN b[s + (i - d)] ELSE b[i]]
      /\ DOMAIN c = 0 .. n - 1
  BY <1>1 DEF Chunk
<1>3. \A i \in 0 .. n - 1 : i \in d .. d + w - 1 =>
        s + (i - d) \in 0 .. n - 1 /\ s + (i - d) < d /\ s + (i - d) <= i /\ s + (i - d) = i - (d - s)
  OBVIOUS
<1>4. c \in Memory(n)
  BY <1>1, <1>2, <1>3 DEF Memory
<1>5. ASSUME NEW i \in 0 .. n - 1, i < e, i < d + w PROVE c[i] = t[i]
  <2>1. CASE i < d
    <3>1. i < Lesser(e, d) /\ i \notin d .. d + w - 1
      BY <1>5, <2>1 DEF Lesser
    <3> QED BY <1>1, <1>2, <3>1 DEF Holds
  <2>2. CASE i >= d
    <3>1. i \in d .. d + w - 1
      BY <1>5, <2>2
    <3>2. c[i] = b[s + (i - d)]
      BY <1>2, <3>1
    <3>3. s + (i - d) \in DOMAIN b /\ s + (i - d) < Lesser(e, d)
      BY <1>1, <1>3, <1>5, <3>1 DEF Lesser
    <3>4. b[s + (i - d)] = t[i - (d - s)]
      BY <1>3, <3>1, <3>3 DEF Holds
    <3>5. t[i] = t[i - (d - s)]
      BY <1>5, <2>2 DEF Repeats
    <3> QED BY <3>2, <3>4, <3>5
  <2> QED BY <2>1, <2>2
<1>6. \A i \in Int : i < Lesser(e, d + w) => i < e /\ i < d + w
  BY DEF Lesser
<1> HIDE DEF c
<1>7. Holds(c, t, Lesser(e, d + w))
  BY <1>2, <1>5, <1>6 DEF Holds
<1> QED BY <1>4, <1>7 DEF c

\* The loop of a copy in steps of w bytes.
LEMMA ChunksHold ==
  ASSUME NEW n \in Nat, NEW b \in Memory(n), NEW t, NEW d \in Nat, NEW s \in Nat,
         NEW w \in Nat, NEW m \in Nat, NEW e \in Int, s + w <= d,
         Holds(b, t, Lesser(e, d)), Repeats(t, d, e, d - s),
         NEW z \in Int, z <= e, z <= d + w * m
  PROVE  /\ Chunks(b, d, s, w, m) \in Memory(n)
         /\ Holds(Chunks(b, d, s, w, m), t, z)
<1>1. /\ \A k \in Nat : w * k \in Nat /\ w * (k + 1) = w * k + w
      /\ w * 0 = 0
  OBVIOUS
<1> DEFINE far(k) == w * k
           R(u) == u = [k \in 0 .. m |-> IF k = 0 THEN b
                          ELSE Chunk(u[k - 1], d + far(k - 1), s + far(k - 1), w)]
           step == [k \in 1 .. m |->
                      [x \in Memory(n) |-> Chunk(x, d + far(k - 1), s + far(k - 1), w)]]
           after == CHOOSE u : R(u)
<1>2. /\ \A k \in Nat : far(k) \in Nat /\ far(k + 1) = far(k) + w
      /\ far(0) = 0
  BY <1>1
<1>3. Chunks(b, d, s, w, m) = after[m] /\ w * m = far(m)
  BY DEF Chunks
<1> HIDE DEF far
<1>4. \A k \in 1 .. m : far(k - 1) \in Nat
  BY <1>2
<1>5. ASSUME NEW k \in 1 .. m, NEW x \in Memory(n)
      PROVE  Chunk(x, d + far(k - 1), s + far(k - 1), w) \in Memory(n)
  <2> DEFINE T == [i \in 0 .. n - 1 |-> x[i]]
  <2>1. DOMAIN x = 0 .. n - 1 /\ \A i \in 0 .. n - 1 : x[i] \in Nat \cup {Junk}
    BY DEF Memory
  <2>2. /\ d + far(k - 1) \in Nat /\ s + far(k - 1) \in Nat
        /\ s + far(k - 1) <= d + far(k - 1)
    BY <1>4
  <2> QED BY <2>1, <2>2 DEF Chunk, Memory
<1>6. step \in [1 .. m -> [Memory(n) -> Memory(n)]]
  BY <1>5
<1>7. PICK f \in [0 .. m -> Memory(n)] : Recurs(f, m, b, step)
  <2> HIDE DEF step
  <2> QED BY <1>6, Recursion
<1>8. R(f)
  <2>1. f = [k \in 0 .. m |-> IF k = 0 THEN b ELSE step[k][f[k - 1]]]
    BY <1>7 DEF Recurs
  <2>2. \A k \in 0 .. m : k # 0 =>
          step[k][f[k - 1]] = Chunk(f[k - 1], d + far(k - 1), s + far(k - 1), w)
    <3>1. \A k \in 0 .. m : k # 0 => k \in 1 .. m /\ k - 1 \in 0 .. m
      OBVIOUS
    <3> QED BY <3>1
  <2> HIDE DEF step
  <2>3. \A k \in 0 .. m : f[k] = IF k = 0 THEN b
                                 ELSE Chunk(f[k - 1], d + far(k - 1), s + far(k - 1), w)
    BY <2>1, <2>2
  <2> QED BY <2>3
<1>9. R(after)
  <2> HIDE DEF R
  <2> QED BY <1>8
<1> HIDE DEF step, after
<1> DEFINE G == {k \in 0 .. m : after[k] \in Memory(n)
                                /\ Holds(after[k], t, Lesser(e, d + far(k)))}
<1>10. 0 \in G
  BY <1>2, <1>9
<1>11. ASSUME NEW k \in 0 .. m - 1, k \in G PROVE k + 1 \in G
  <2>1. k + 1 \in 0 .. m /\ k + 1 # 0 /\ (k + 1) - 1 = k
    OBVIOUS
  <2>2. after[k + 1] = Chunk(after[k], d + far(k), s + far(k), w)
    BY <1>9, <2>1
  <2>3. /\ d + far(k) \in Nat /\ s + far(k) \in Nat
        /\ s + far(k) + w <= d + far(k)
        /\ (d + far(k)) - (s + far(k)) = d - s
        /\ (d + far(k)) + w = d + far(k + 1)
    <3>0. k \in Nat
      OBVIOUS
    <3>1. k \in Nat /\ far(k) \in Nat /\ far(k + 1) = far(k) + w
      BY <1>2, <3>0, Zenon
    <3> QED BY <3>1
  <2>4. Repeats(t, d + far(k), e, d - s)
    <3>0. k \in Nat
      OBVIOUS
    <3>1. far(k) \in Nat
      BY <1>2, <3>0, Zenon
    <3>2. \A i \in Int : d + far(k) <= i => d <= i
      BY <3>1
    <3> QED BY <3>2 DEF Repeats
  <2>5. after[k] \in Memory(n) /\ Holds(after[k], t, Lesser(e, d + far(k)))
    BY <1>11
  <2> DEFINE dk == d + far(k)
             sk == s + far(k)
  <2>6. Chunk(after[k], dk, sk, w) \in Memory(n)
        /\ Holds(Chunk(after[k], dk, sk, w), t, Lesser(e, dk + w))
    <3>1. /\ dk \in Nat /\ sk \in Nat /\ sk + w <= dk
          /\ Holds(after[k], t, Lesser(e, dk)) /\ Repeats(t, dk, e, dk - sk)
      BY <2>3, <2>4, <2>5
    <3> HIDE DEF dk, sk
    <3> QED BY <2>5, <3>1, ChunkHolds
  <2> QED BY <2>1, <2>2, <2>3, <2>6
<1>12. 0 .. m \subseteq G
  <2> HIDE DEF G
  <2> QED BY <1>10, <1>11, UpTo
<1>13. after[m] \in Memory(n) /\ Holds(after[m], t, Lesser(e, d + far(m)))
  BY <1>12
<1>14. \A i \in Int : i < z => i < Lesser(e, d + far(m))
  <2>1. far(m) \in Nat
    BY <1>2, Zenon
  <2> QED BY <1>3, <2>1 DEF Lesser
<1>15. \A i \in DOMAIN after[m] : i \in Int
  BY <1>13 DEF Memory
<1>16. Holds(after[m], t, z)
  BY <1>13, <1>14, <1>15 DEF Holds
<1> QED BY <1>3, <1>13, <1>16

\* Going back twice.
LEMMA RepeatsSum ==
  ASSUME NEW t, NEW d \in Int, NEW f \in Int, NEW g \in Int, NEW e \in Int,
         NEW a \in Nat, NEW c \in Nat,
         Repeats(t, d, e, a), Repeats(t, f, e, c), g >= d, g >= f + a
  PROVE  Repeats(t, g, e, a + c)
<1> SUFFICES ASSUME NEW i \in Int, g <= i, i < e PROVE t[i] = t[i - (a + c)]
  BY DEF Repeats
<1>1. t[i] = t[i - a]
  BY DEF Repeats
<1>2. i - a \in Int /\ f <= i - a /\ i - a < e
  OBVIOUS
<1>3. t[i - a] = t[(i - a) - c]
  BY <1>2 DEF Repeats
<1>4. (i - a) - c = i - (a + c)
  OBVIOUS
<1> QED BY <1>1, <1>3, <1>4

\* The tables let a copy in steps of four and of eight go on at a multiple of the
\* offset that is no less than the step.
LEMMA Distances ==
  ASSUME NEW t, NEW d \in Nat, NEW e \in Int, NEW off \in 1 .. 7, Repeats(t, d, e, off)
  PROVE  LET near == 4 + off - inc32table[off + 1]
             far  == 8 + off - inc32table[off + 1] + dec64table[off + 1]
         IN  /\ near \in 4 .. 8 /\ near <= 4 + off /\ far \in 8 .. 14 /\ far <= 8 + off
             /\ Repeats(t, d + 4, e, near) /\ Repeats(t, d + 8, e, far)
<1> DEFINE near == 4 + off - inc32table[off + 1]
           far  == 8 + off - inc32table[off + 1] + dec64table[off + 1]
<1>1. Repeats(t, d + off, e, off + off)
  BY RepeatsSum
<1>2. Repeats(t, d + 2 * off, e, off + off + off)
  BY <1>1, RepeatsSum
<1>3. Repeats(t, d + 3 * off, e, (off + off) + (off + off))
  BY <1>1, RepeatsSum
<1>4. Repeats(t, d + 7 * off, e, ((off + off) + (off + off)) + ((off + off) + (off + off)))
  BY <1>3, RepeatsSum
<1>5. ASSUME NEW f \in Int, NEW g \in Int, NEW c, Repeats(t, f, e, c), g >= f
      PROVE  Repeats(t, g, e, c)
  BY <1>5 DEF Repeats
<1>6. off \in {1, 2, 3, 4, 5, 6, 7}
  OBVIOUS
<1>7. CASE off = 1
  <2>1. near = 4 /\ far = 8
    BY <1>7 DEF inc32table, dec64table
  <2>2. Repeats(t, d + 3, e, 4) /\ Repeats(t, d + 7, e, 8)
    BY <1>3, <1>4, <1>7
  <2> QED BY <1>5, <1>7, <2>1, <2>2
<1>8. CASE off = 2
  <2>1. near = 4 /\ far = 8
    BY <1>8 DEF inc32table, dec64table
  <2>2. Repeats(t, d + 2, e, 4) /\ Repeats(t, d + 6, e, 8)
    BY <1>1, <1>3, <1>8
  <2> QED BY <1>5, <1>8, <2>1, <2>2
<1>9. CASE off = 3
  <2>1. near = 6 /\ far = 9
    BY <1>9 DEF inc32table, dec64table
  <2>2. Repeats(t, d + 3, e, 6) /\ Repeats(t, d + 6, e, 9)
    BY <1>1, <1>2, <1>9
  <2> QED BY <1>5, <1>9, <2>1, <2>2
<1>10. CASE off = 4
  <2>1. near = 8 /\ far = 8
    BY <1>10 DEF inc32table, dec64table
  <2>2. Repeats(t, d + 4, e, 8)
    BY <1>1, <1>10
  <2> QED BY <1>5, <1>10, <2>1, <2>2
<1>11. CASE off \in {5, 6, 7}
  <2>1. near = off /\ far = off + off
    BY <1>11 DEF inc32table, dec64table
  <2>2. Repeats(t, d, e, near) /\ Repeats(t, d + off, e, far)
    BY <1>1, <2>1
  <2>3. Repeats(t, d + 4, e, near) /\ Repeats(t, d + 8, e, far)
    <3> HIDE DEF near, far
    <3> QED BY <1>5, <1>11, <2>2
  <2> QED BY <1>11, <2>1, <2>3
<1> QED BY <1>6, <1>7, <1>8, <1>9, <1>10, <1>11

\* LZ4_wildCopy8 and LZ4_wildCopy32.
LEMMA WildCopyHolds ==
  ASSUME NEW n \in Nat, NEW b \in Memory(n), NEW t, NEW d \in Nat, NEW s \in Nat,
         NEW w \in {8, 32}, NEW len \in Int, NEW e \in Int,
         s + 8 <= d, w = 32 => s + 16 <= d, e <= d + len,
         Holds(b, t, Lesser(e, d)), Repeats(t, d, e, d - s)
  PROVE  /\ WildCopy(b, d, s, len, w) \in Memory(n)
         /\ Holds(WildCopy(b, d, s, len, w), t, e)
<1> DEFINE width == IF w = 8 THEN 8 ELSE 16
           m == IF w = 8 THEN Turns(len, 8) ELSE 2 * Turns(len, 32)
<1>1. WildCopy(b, d, s, len, w) = Chunks(b, d, s, width, m)
  BY DEF WildCopy
<1>2. width \in Nat /\ m \in Nat /\ s + width <= d /\ e <= d + width * m
  <2>1. CASE w = 8
    <3>1. Turns(len, 8) \in Nat /\ 8 * Turns(len, 8) >= len
      BY DEF Turns, Larger
    <3> QED BY <2>1, <3>1
  <2>2. CASE w = 32
    <3>1. Turns(len, 32) \in Nat /\ 16 * (2 * Turns(len, 32)) >= len
      BY DEF Turns, Larger
    <3> QED BY <2>2, <3>1
  <2> QED BY <2>1, <2>2
<1> HIDE DEF width, m
<1>3. Chunks(b, d, s, width, m) \in Memory(n) /\ Holds(Chunks(b, d, s, width, m), t, e)
  <2>1. e <= e /\ e \in Int
    OBVIOUS
  <2> QED BY <1>2, <2>1, ChunksHold, Zenon
<1> QED BY <1>1, <1>3

\* What a copy of a match of at least four bytes starts from: what is before d is
\* text, and the match repeats it.
Matches(b, t, d, e, off) ==
  /\ off >= 1 /\ off <= d /\ e >= d + MINMATCH
  /\ Holds(b, t, d) /\ Repeats(t, d, e, off)

\* The first eight bytes of a match, and where the rest is read.
LEMMA SpreadHolds ==
  ASSUME NEW n \in Nat, NEW b \in Memory(n), NEW t, NEW d \in Nat, NEW e \in Int,
         NEW off \in Nat, Matches(b, t, d, e, off)
  PROVE  LET c == Spread(b, d, d - off, off)
             r == ReadsOn(d - off, off)
         IN  /\ c \in Memory(n) /\ Holds(c, t, Lesser(e, d + 8))
             /\ r \in Nat /\ r + 8 <= d + 8 /\ Repeats(t, d + 8, e, (d + 8) - r)
<1> DEFINE c == Spread(b, d, d - off, off)
           r == ReadsOn(d - off, off)
<1>1. /\ off >= 1 /\ off <= d /\ e >= d + 4 /\ d - off \in Nat /\ d - (d - off) = off
      /\ Holds(b, t, d) /\ Repeats(t, d, e, off) /\ Lesser(e, d) = d
  BY DEF Matches, Lesser
<1>2. CASE off >= 8
  <2>1. c = Chunk(b, d, d - off, 8) /\ r = (d - off) + 8
    BY <1>2 DEF Spread, ReadsOn
  <2>2. c \in Memory(n) /\ Holds(c, t, Lesser(e, d + 8))
    <3>1. (d - off) + 8 <= d
      BY <1>1, <1>2
    <3> QED BY <1>1, <2>1, <3>1, ChunkHolds
  <2>3. (d + 8) - r = off
    BY <1>1, <2>1
  <2>4. Repeats(t, d + 8, e, off)
    BY <1>1 DEF Repeats
  <2> QED BY <1>1, <1>2, <2>1, <2>2, <2>3, <2>4
<1>3. CASE off < 8
  <2> DEFINE inc == inc32table[off + 1]
             dec == dec64table[off + 1]
             near == 4 + off - inc
             far  == 8 + off - inc + dec
             first == Chunks(b, d, d - off, 1, 4)
  <2>1. /\ near \in 4 .. 8 /\ near <= 4 + off /\ far \in 8 .. 14 /\ far <= 8 + off
        /\ Repeats(t, d + 4, e, near) /\ Repeats(t, d + 8, e, far)
    <3>1. off \in 1 .. 7
      BY <1>1, <1>3
    <3> HIDE DEF inc, dec
    <3> QED BY <1>1, <3>1, Distances DEF inc, dec
  <2>2. inc \in Int /\ dec \in Int
    <3>1. off \in {1, 2, 3, 4, 5, 6, 7}
      BY <1>1, <1>3
    <3> QED BY <3>1 DEF inc32table, dec64table
  <2>3. c = Chunk(first, d + 4, (d - off) + inc, 4) /\ r = (d - off) + inc - dec
    BY <1>3 DEF Spread, ReadsOn
  <2> HIDE DEF inc, dec, first, c, r
  <2>4. (d - off) + inc = (d + 4) - near /\ r = (d + 8) - far
    BY <1>1, <2>2, <2>3
  <2>5. (d - off) + inc \in Nat /\ ((d - off) + inc) + 4 <= d + 4
        /\ (d + 4) - ((d - off) + inc) = near /\ r \in Nat /\ r + 8 <= d + 8
        /\ (d + 8) - r = far
    BY <1>1, <2>1, <2>2, <2>4
  <2> HIDE DEF near, far
  <2>6. first \in Memory(n) /\ Holds(first, t, d + 4)
    <3>1. d + 4 <= d + 1 * 4 /\ d + 4 <= e /\ (d - off) + 1 <= d /\ d + 4 \in Int
      BY <1>1
    <3> QED BY <1>1, <3>1, ChunksHold DEF first
  <2>7. c \in Memory(n) /\ Holds(c, t, Lesser(e, (d + 4) + 4))
    <3> DEFINE here  == d + 4
               there == (d - off) + inc
               width == 4
    <3>1. /\ here \in Nat /\ there \in Nat /\ width \in Nat /\ there + width <= here
          /\ here - there = near /\ Holds(first, t, Lesser(e, here)) /\ Repeats(t, here, e, near)
      BY <1>1, <2>1, <2>5, <2>6 DEF Lesser
    <3>2. c = Chunk(first, here, there, width) /\ (d + 4) + 4 = here + width
      BY <2>3
    <3> HIDE DEF here, there, width
    <3> QED BY <2>6, <3>1, <3>2, ChunkHolds
  <2> QED BY <2>1, <2>5, <2>7 DEF c, r
<1> QED BY <1>1, <1>2, <1>3

\* What every complete copy of a match leaves: text up to e.
Copied(c, n, t, e) == c \in Memory(n) /\ Holds(c, t, e)

\* A pattern of one, two or four bytes, repeated.
LEMMA PatternHolds ==
  ASSUME NEW n \in Nat, NEW b \in Memory(n), NEW t, NEW d \in Nat, NEW len \in Nat,
         NEW off \in {1, 2, 4}, Matches(b, t, d, d + len, off)
  PROVE  Copied(UsingOffset(b, d, d - off, len, off), n, t, d + len)
<1> DEFINE c == UsingOffset(b, d, d - off, len, off)
           z == CopyEnd(d, len, 8)
           from(i) == (d - off) + ((i - d) % off)
<1>1. /\ off <= d /\ DOMAIN b = 0 .. n - 1 /\ \A i \in 0 .. n - 1 : b[i] \in Nat \cup {Junk}
      /\ Holds(b, t, d) /\ Repeats(t, d, d + len, off)
  BY DEF Matches, Memory
<1>2. c = [i \in 0 .. n - 1 |-> IF i \in d .. z - 1 THEN b[from(i)] ELSE b[i]]
  BY <1>1 DEF UsingOffset
<1>3. z \in Int /\ z >= d + len
  BY DEF CopyEnd, Turns, Larger
<1>4. \A k \in Nat : /\ k % off \in 0 .. off - 1 /\ k % off <= k
                     /\ k < off => k % off = k
                     /\ k >= off => (k - off) % off = k % off
  <2>1. CASE off = 1
    BY <2>1
  <2>2. CASE off = 2
    BY <2>2
  <2>3. CASE off = 4
    BY <2>3
  <2> QED BY <2>1, <2>2, <2>3
<1>5. \A i \in 0 .. n - 1 : i >= d => from(i) \in 0 .. n - 1 /\ from(i) < d
  <2> SUFFICES ASSUME NEW i \in 0 .. n - 1, i >= d PROVE from(i) \in 0 .. n - 1 /\ from(i) < d
    OBVIOUS
  <2>1. i - d \in Nat
    OBVIOUS
  <2> DEFINE r == (i - d) % off
  <2>2. r \in 0 .. off - 1 /\ r <= i - d
    BY <1>4, <2>1
  <2> HIDE DEF r
  <2>3. (d - off) + r \in 0 .. n - 1 /\ (d - off) + r < d
    BY <1>1, <2>2
  <2> QED BY <2>3 DEF r
<1> HIDE DEF z
<1>6. c \in Memory(n)
  <2>1. \A i \in 0 .. n - 1 : i \in d .. z - 1 => from(i) \in 0 .. n - 1
    BY <1>3, <1>5
  <2> HIDE DEF c, from
  <2> QED BY <1>1, <1>2, <2>1 DEF Memory
<1> DEFINE G == {k \in 0 .. len : \A j \in 0 .. k - 1 : t[d + j] = t[from(d + j)]}
<1>7. 0 \in G
  OBVIOUS
<1>8. ASSUME NEW k \in 0 .. len - 1, k \in G PROVE k + 1 \in G
  <2>1. t[d + k] = t[(d + k) - off]
    BY <1>1 DEF Repeats
  <2>2. t[d + k] = t[from(d + k)]
    <3>1. (d + k) - d = k
      OBVIOUS
    <3>2. CASE k < off
      <4>0. from(d + k) = (d - off) + (k % off)
        BY <3>1, Zenon
      <4>1. from(d + k) = (d - off) + k
        <5>1. k % off = k
          BY <1>4, <3>2
        <5> QED BY <4>0, <5>1, Zenon
      <4> QED BY <2>1, <4>1
    <3>3. CASE k >= off
      <4>1. k - off \in 0 .. k - 1 /\ (d + k) - off = d + (k - off) /\ (d + (k - off)) - d = k - off
        BY <3>3
      <4>2. t[d + (k - off)] = t[from(d + (k - off))]
        BY <1>8, <4>1
      <4>3. from(d + (k - off)) = from(d + k)
        <5>1. from(d + k) = (d - off) + (k % off)
          BY <3>1, Zenon
        <5>2. from(d + (k - off)) = (d - off) + ((k - off) % off)
          BY <4>1, Zenon
        <5>3. (k - off) % off = k % off
          <6>1. k \in Nat
            OBVIOUS
          <6> QED BY <1>4, <3>3, <6>1, Zenon
        <5> QED BY <5>1, <5>2, <5>3, Zenon
      <4> QED BY <2>1, <4>1, <4>2, <4>3
    <3> QED BY <3>2, <3>3
  <2>3. \A j \in 0 .. (k + 1) - 1 : j \in 0 .. k - 1 \/ j = k
    OBVIOUS
  <2> HIDE DEF from
  <2> QED BY <1>8, <2>2, <2>3
<1>9. 0 .. len \subseteq G
  <2> HIDE DEF G
  <2> QED BY <1>7, <1>8, UpTo
<1>10. \A j \in 0 .. len - 1 : t[d + j] = t[from(d + j)]
  BY <1>9
<1>11. Holds(c, t, d + len)
  <2> SUFFICES ASSUME NEW i \in 0 .. n - 1, i < d + len PROVE c[i] = t[i]
    <3>1. DOMAIN c = 0 .. n - 1
      BY <1>2
    <3> HIDE DEF c
    <3> QED BY <3>1 DEF Holds
  <2>1. CASE i < d
    <3>1. c[i] = b[i]
      BY <1>2, <1>3, <2>1
    <3> QED BY <1>1, <2>1, <3>1 DEF Holds
  <2>2. CASE i >= d
    <3>1. i \in d .. z - 1
      BY <1>3, <2>2
    <3>2. c[i] = b[from(i)]
      BY <1>2, <3>1
    <3>3. from(i) \in DOMAIN b /\ from(i) < d
      BY <1>1, <1>5, <2>2
    <3>4. i - d \in 0 .. len - 1 /\ d + (i - d) = i
      BY <2>2
    <3>5. t[i] = t[from(i)]
      <4> HIDE DEF from
      <4> QED BY <1>10, <3>4
    <3> HIDE DEF from
    <3> QED BY <1>1, <3>2, <3>3, <3>5 DEF Holds
  <2> QED BY <2>1, <2>2
<1> QED BY <1>6, <1>11 DEF Copied

\* LZ4_memcpy_using_offset.
LEMMA UsingOffsetHolds ==
  ASSUME NEW n \in Nat, NEW b \in Memory(n), NEW t, NEW d \in Nat, NEW len \in Nat,
         NEW off \in Nat, Matches(b, t, d, d + len, off)
  PROVE  Copied(UsingOffset(b, d, d - off, len, off), n, t, d + len)
<1>1. CASE off \in {1, 2, 4}
  BY <1>1, PatternHolds
<1>2. CASE off \notin {1, 2, 4}
  <2> DEFINE c == Spread(b, d, d - off, off)
             r == ReadsOn(d - off, off)
             e == d + len
             next == d + 8
             rest == len - 8
             w == 8
  <2>1. /\ c \in Memory(n) /\ Holds(c, t, Lesser(e, next))
        /\ r \in Nat /\ r + 8 <= next /\ Repeats(t, next, e, next - r)
    BY SpreadHolds
  <2>2. UsingOffset(b, d, d - off, len, off) = WildCopy(c, next, r, rest, w)
    BY <1>2 DEF UsingOffset
  <2>3. /\ next \in Nat /\ rest \in Int /\ e \in Int /\ e <= next + rest
        /\ w \in {8, 32} /\ (w = 32 => r + 16 <= next)
    OBVIOUS
  <2> HIDE DEF c, r, e, next, rest, w
  <2>4. WildCopy(c, next, r, rest, w) \in Memory(n)
        /\ Holds(WildCopy(c, next, r, rest, w), t, e)
    BY <2>1, <2>3, WildCopyHolds
  <2> QED BY <2>2, <2>4 DEF Copied, e
<1> QED BY <1>1, <1>2

\* Eight, eight and two bytes.
LEMMA EighteenHolds ==
  ASSUME NEW n \in Nat, NEW b \in Memory(n), NEW t, NEW d \in Nat, NEW len \in Nat,
         NEW off \in Nat, Matches(b, t, d, d + len, off), off >= 8, len <= 18
  PROVE  Copied(Eighteen(b, d, d - off), n, t, d + len)
<1> DEFINE s == d - off
           e == d + len
           first == Chunks(b, d, s, 8, 2)
           mid == Lesser(e, d + 16)
           w == 8
           m == 2
<1>1. /\ s \in Nat /\ s + w <= d /\ d - s = off /\ e \in Int /\ w \in Nat /\ m \in Nat
      /\ Holds(b, t, Lesser(e, d)) /\ Repeats(t, d, e, off)
      /\ mid \in Int /\ mid <= e /\ mid <= d + w * m
  BY DEF Matches, Lesser
<1>2. first = Chunks(b, d, s, w, m)
  OBVIOUS
<1>3. first \in Memory(n) /\ Holds(first, t, mid)
  <2> HIDE DEF s, e, first, mid, w, m
  <2> QED BY <1>1, <1>2, ChunksHold
<1> DEFINE d2 == d + 16
           s2 == s + 16
           v == 2
<1>4. /\ d2 \in Nat /\ s2 \in Nat /\ v \in Nat /\ s2 + v <= d2 /\ d2 - s2 = off
      /\ mid = Lesser(e, d2) /\ Lesser(e, d2 + v) = e
  BY <1>1 DEF Lesser
<1>5. Repeats(t, d2, e, off)
  BY <1>1 DEF Repeats
<1>6. Eighteen(b, d, d - off) = Chunk(first, d2, s2, v)
  BY DEF Eighteen
<1>7. Chunk(first, d2, s2, v) \in Memory(n) /\ Holds(Chunk(first, d2, s2, v), t, Lesser(e, d2 + v))
  <2> HIDE DEF s, e, first, mid, d2, s2, v
  <2> QED BY <1>1, <1>3, <1>4, <1>5, ChunkHolds
<1> QED BY <1>4, <1>6, <1>7 DEF Copied

\* The copy of _copy_match with room behind it.
LEMMA MidCopyHolds ==
  ASSUME NEW n \in Nat, dst \in Memory(n), NEW t, op \in Nat, length \in Nat, offset \in Nat,
         match = op - offset, Matches(dst, t, op, op + length, offset)
  PROVE  Copied(MidCopy, n, t, op + length)
<1> DEFINE c == Spread(dst, op, op - offset, offset)
           r == ReadsOn(op - offset, offset)
           e == op + length
           next == op + 8
           w == 8
           more == Chunk(c, next, r, w)
<1>1. /\ c \in Memory(n) /\ Holds(c, t, Lesser(e, next))
      /\ r \in Nat /\ r + w <= next /\ Repeats(t, next, e, next - r)
  BY SpreadHolds
<1>2. next \in Nat /\ w \in Nat /\ e \in Int
  OBVIOUS
<1>3. more \in Memory(n) /\ Holds(more, t, Lesser(e, next + w))
  <2> HIDE DEF c, r, e, next, w
  <2> QED BY <1>1, <1>2, ChunkHolds
<1>4. MidCopy = IF length > 16 THEN WildCopy(more, op + 16, r + 8, length - 16, 8) ELSE more
  BY DEF MidCopy
<1>5. CASE length > 16
  <2> DEFINE last == op + 16
             from == r + 8
             rest == length - 16
  <2>1. /\ last \in Nat /\ from \in Nat /\ rest \in Int /\ w \in {8, 32}
        /\ from + 8 <= last /\ (w = 32 => from + 16 <= last) /\ e <= last + rest
        /\ last - from = next - r /\ next + w = last /\ last >= next
    BY <1>1
  <2>2. Repeats(t, last, e, last - from)
    <3> HIDE DEF c, r, e, next, w, last, from
    <3> QED BY <1>1, <1>2, <2>1 DEF Repeats
  <2>3. MidCopy = WildCopy(more, last, from, rest, w)
    BY <1>4, <1>5
  <2>4. Holds(more, t, Lesser(e, last))
    <3> HIDE DEF c, r, e, next, w, last, from, more
    <3> QED BY <1>3, <2>1
  <2> HIDE DEF c, r, e, next, w, last, from, rest, more
  <2>5. WildCopy(more, last, from, rest, w) \in Memory(n)
        /\ Holds(WildCopy(more, last, from, rest, w), t, e)
    BY <1>2, <1>3, <2>1, <2>2, <2>4, WildCopyHolds
  <2> QED BY <2>3, <2>5 DEF Copied, e
<1>6. CASE length <= 16
  <2>1. Lesser(e, next + w) = e
    BY <1>6 DEF Lesser
  <2>2. MidCopy = more
    BY <1>4, <1>6
  <2> HIDE DEF more, c, r
  <2> QED BY <1>3, <2>1, <2>2 DEF Copied
<1> QED BY <1>5, <1>6

\* The copy near the end of dst: in steps of eight as far as they fit, then byte by byte.
LEMMA EndCopyHolds ==
  ASSUME NEW n \in Nat, dst \in Memory(n), NEW t, op \in Nat, length \in Nat, offset \in Nat,
         oend \in Nat, match = op - offset, Matches(dst, t, op, op + length, offset)
  PROVE  Copied(EndCopy, n, t, op + length)
<1> DEFINE c == Spread(dst, op, match, offset)
           r == ReadsOn(match, offset)
           e == op + length
           first == op + 8
           limit == oCopyLimit
           rest == limit - first
           eight == 8
           mid == IF first < limit THEN WildCopy(c, first, r, rest, eight) ELSE c
           tail == Larger(first, limit)
           source == r + (tail - first)
           one == 1
           many == Larger(0, op + (length - tail))
<1>1. /\ c \in Memory(n) /\ Holds(c, t, Lesser(e, first))
      /\ r \in Nat /\ r + 8 <= first /\ Repeats(t, first, e, first - r)
  <2>1. /\ Spread(dst, op, match, offset) = Spread(dst, op, op - offset, offset)
        /\ ReadsOn(match, offset) = ReadsOn(op - offset, offset)
    OBVIOUS
  <2>2. Holds(Spread(dst, op, op - offset, offset), t, Lesser(e, first))
        /\ Spread(dst, op, op - offset, offset) \in Memory(n)
    BY SpreadHolds
  <2>3. /\ ReadsOn(op - offset, offset) \in Nat /\ ReadsOn(op - offset, offset) + 8 <= first
        /\ Repeats(t, first, e, first - ReadsOn(op - offset, offset))
    BY SpreadHolds
  <2> QED BY <2>1, <2>2, <2>3
<1>2. EndCopy = Chunks(mid, tail, source, one, many)
  BY DEF EndCopy
<1>3. /\ limit \in Int /\ first \in Nat /\ e \in Int /\ rest \in Int /\ rest = limit - first
      /\ eight \in {8, 32} /\ eight # 32
      /\ tail \in Nat /\ tail >= first /\ (first < limit => tail = limit)
      /\ (~(first < limit) => tail = first)
      /\ one \in Nat /\ one = 1 /\ many \in Nat /\ e <= tail + one * many
  BY DEF oCopyLimit, Larger
<1>4. source \in Nat /\ source + one <= tail /\ tail - source = first - r /\ source + 8 <= tail
  <2> HIDE DEF r, first, tail, many, c
  <2> QED BY <1>1, <1>3
<1>5. Repeats(t, tail, e, tail - source)
  <2> HIDE DEF c, r, e, first, tail, source
  <2> QED BY <1>1, <1>3, <1>4 DEF Repeats
<1>6. mid \in Memory(n) /\ Holds(mid, t, Lesser(e, tail))
  <2>1. CASE first < limit
    <3> DEFINE z == Lesser(e, limit)
    <3>1. /\ z \in Int /\ z <= e /\ z <= first + rest /\ Lesser(z, first) = Lesser(e, first)
      <4> HIDE DEF first, limit, e, rest
      <4> QED BY <1>3, <2>1 DEF Lesser
    <3>2. Repeats(t, first, z, first - r)
      <4> HIDE DEF c, r, e, first, z
      <4> QED BY <1>1, <1>3, <3>1 DEF Repeats
    <3>3. Holds(c, t, Lesser(z, first))
      <4> HIDE DEF c, r, e, first, z
      <4> QED BY <1>1, <3>1
    <3> HIDE DEF c, r, e, first, z, rest, eight, limit
    <3>4. WildCopy(c, first, r, rest, eight) \in Memory(n)
          /\ Holds(WildCopy(c, first, r, rest, eight), t, z)
      <4>1. eight = 32 => r + 16 <= first
        BY <1>3
      <4>2. c \in Memory(n) /\ first \in Nat /\ r \in Nat /\ r + 8 <= first
        BY <1>1, <1>3, Zenon
      <4>3. eight \in {8, 32} /\ rest \in Int /\ z \in Int /\ z <= first + rest
        BY <1>3, <3>1, Zenon
      <4> QED BY <3>2, <3>3, <4>1, <4>2, <4>3, WildCopyHolds, Zenon
    <3>5. mid = WildCopy(c, first, r, rest, eight) /\ z = Lesser(e, tail)
      BY <1>3, <2>1 DEF z
    <3> QED BY <3>4, <3>5
  <2>2. CASE ~(first < limit)
    <3>1. mid = c /\ tail = first
      BY <1>3, <2>2
    <3> HIDE DEF mid, c, tail, first, e
    <3> QED BY <1>1, <3>1
  <2> QED BY <2>1, <2>2
<1>7. Chunks(mid, tail, source, one, many) \in Memory(n)
      /\ Holds(Chunks(mid, tail, source, one, many), t, e)
  <2>1. e <= e
    BY <1>3
  <2> HIDE DEF mid, tail, source, one, many, e, first, r
  <2> QED BY <1>3, <1>4, <1>5, <1>6, <2>1, ChunksHold, Zenon
<1> QED BY <1>2, <1>7 DEF Copied

\* The copy of the fast loop.
LEMMA FastCopyHolds ==
  ASSUME NEW n \in Nat, dst \in Memory(n), NEW t, op \in Nat, NEW len \in Nat,
         NEW off \in Nat, Matches(dst, t, op, op + len, off)
  PROVE  Copied(FastCopy(len, off), n, t, op + len)
<1>1. CASE off < 16
  <2>1. FastCopy(len, off) = UsingOffset(dst, op, op - off, len, off)
    BY <1>1 DEF FastCopy
  <2> QED BY <2>1, UsingOffsetHolds
<1>2. CASE off >= 16
  <2> DEFINE s == op - off
             e == op + len
             w == 32
  <2>1. FastCopy(len, off) = WildCopy(dst, op, s, len, w)
    BY <1>2 DEF FastCopy
  <2>2. /\ s \in Nat /\ e \in Int /\ w \in {8, 32} /\ s + 8 <= op /\ (w = 32 => s + 16 <= op)
        /\ e <= op + len /\ Holds(dst, t, Lesser(e, op)) /\ Repeats(t, op, e, op - s)
        /\ len \in Int
    BY <1>2 DEF Matches, Lesser
  <2> HIDE DEF s, e, w
  <2>3. WildCopy(dst, op, s, len, w) \in Memory(n) /\ Holds(WildCopy(dst, op, s, len, w), t, e)
    BY <2>2, WildCopyHolds, Zenon
  <2> QED BY <2>1, <2>3 DEF Copied, e
<1> QED BY <1>1, <1>2

-----------------------------------------------------------------------------
(* Where the sequences of a block and of its text are.                      *)

\* A function on an interval is a sequence.
LEMMA IsSeq ==
  ASSUME NEW n \in Nat, NEW S, NEW f, f = [j \in 1 .. n |-> f[j]], \A j \in 1 .. n : f[j] \in S
  PROVE  f \in Seq(S) /\ Len(f) = n
OBVIOUS

\* What Append makes.
LEMMA AppendIs ==
  ASSUME NEW S, NEW seq \in Seq(S), NEW x \in S
  PROVE  Append(seq, x) =
           [j \in 1 .. Len(seq) + 1 |-> IF j = Len(seq) + 1 THEN x ELSE seq[j]]
<1> DEFINE more == Append(seq, x)
<1>1. /\ more \in Seq(S) /\ Len(more) = Len(seq) + 1 /\ Len(seq) \in Nat
      /\ more[Len(seq) + 1] = x /\ \A j \in 1 .. Len(seq) : more[j] = seq[j]
  OBVIOUS
<1> HIDE DEF more
<1>2. more = [j \in 1 .. Len(seq) + 1 |-> more[j]]
  BY <1>1
<1>3. \A j \in 1 .. Len(seq) + 1 : more[j] = IF j = Len(seq) + 1 THEN x ELSE seq[j]
  BY <1>1
<1> QED BY <1>2, <1>3 DEF more

\* What a concatenation is.
LEMMA ConcatIs ==
  ASSUME NEW S, NEW a \in Seq(S), NEW b \in Seq(S)
  PROVE  /\ a \o b \in Seq(S) /\ Len(a \o b) = Len(a) + Len(b)
         /\ \A j \in 1 .. Len(a) : (a \o b)[j] = a[j]
         /\ \A j \in 1 .. Len(b) : (a \o b)[Len(a) + j] = b[j]
OBVIOUS

\* A sequence: literals, offset and match length, or literals only.
Runs ==
  {s \in Seq(Nat) : /\ Len(s) \in {1, 3}
                    /\ Len(s) = 3 => s[2] >= 1 /\ s[3] >= MINMATCH}

\* Bytes of the text that a sequence encodes, and of the block that it takes.
Takes(s)  == IF Len(s) = 1 THEN s[1] ELSE s[1] + s[3]
Stored(s) == 1 + LitExtra(s[1]) + s[1] + (IF Len(s) = 1 THEN 0 ELSE 2 + MatchExtra(s[3]))

TextAt(sq, k)  == Before([j \in DOMAIN sq |-> Takes(sq[j])], k)
BlockAt(sq, k) == Before([j \in DOMAIN sq |-> Stored(sq[j])], k)

\* The lengths of a sequence.
LEMMA RunSizes ==
  ASSUME NEW s \in Runs
  PROVE  /\ Len(s) \in {1, 3} /\ s[1] \in Nat /\ Takes(s) \in Nat /\ Stored(s) \in Nat
         /\ Len(s) = 1 => Takes(s) = s[1] /\ Stored(s) = 1 + LitExtra(s[1]) + s[1]
         /\ Len(s) = 3 =>
              /\ s[2] \in Nat /\ s[2] >= 1 /\ s[3] \in Nat /\ s[3] >= 4
              /\ MatchExtra(s[3]) \in Nat /\ (s[3] - 4 >= 15 => MatchExtra(s[3]) >= 1)
              /\ Takes(s) = s[1] + s[3]
              /\ Stored(s) = 1 + LitExtra(s[1]) + s[1] + 2 + MatchExtra(s[3])
         /\ LitExtra(s[1]) \in Nat
         /\ s[1] < 15 => LitExtra(s[1]) = 0
         /\ s[1] >= 15 => LitExtra(s[1]) >= 1
<1>1. s \in Seq(Nat) /\ Len(s) \in {1, 3} /\ (Len(s) = 3 => s[2] >= 1 /\ s[3] >= 4)
  BY DEF Runs
<1>2. s[1] \in Nat /\ (Len(s) = 3 => s[2] \in Nat /\ s[3] \in Nat)
  BY <1>1
<1>3. \A x \in Nat : /\ ExtraBytes(x, 15) \in Nat /\ (x < 15 => ExtraBytes(x, 15) = 0)
                     /\ x >= 15 => ExtraBytes(x, 15) >= 1
  BY DEF ExtraBytes
<1>4. /\ LitExtra(s[1]) \in Nat /\ (s[1] < 15 => LitExtra(s[1]) = 0)
      /\ s[1] >= 15 => LitExtra(s[1]) >= 1
  BY <1>2, <1>3 DEF LitExtra
<1>5. Len(s) = 3 => /\ MatchExtra(s[3]) \in Nat
                    /\ s[3] - 4 >= 15 => MatchExtra(s[3]) >= 1
  <2>1. Len(s) = 3 => s[3] - 4 \in Nat
    BY <1>1, <1>2
  <2> QED BY <1>3, <2>1 DEF MatchExtra
<1>6. Len(s) = 1 => Takes(s) = s[1] /\ Stored(s) = 1 + LitExtra(s[1]) + s[1]
  BY <1>2, <1>4 DEF Takes, Stored
<1>7. Len(s) = 3 => Takes(s) = s[1] + s[3]
                    /\ Stored(s) = 1 + LitExtra(s[1]) + s[1] + 2 + MatchExtra(s[3])
  BY <1>2, <1>4, <1>5 DEF Takes, Stored
<1> HIDE DEF MINMATCH
<1>8. Takes(s) \in Nat /\ Stored(s) \in Nat
  <2>1. CASE Len(s) = 1
    BY <1>2, <1>4, <1>6, <2>1
  <2>2. CASE Len(s) = 3
    BY <1>2, <1>4, <1>5, <1>7, <2>2
  <2> QED BY <1>1, <2>1, <2>2
<1> QED BY <1>1, <1>2, <1>4, <1>5, <1>6, <1>7, <1>8

\* Sequences follow each other.
LEMMA Places ==
  ASSUME NEW sq \in Seq(Runs)
  PROVE  /\ TextAt(sq, 1) = 0 /\ BlockAt(sq, 1) = 0
         /\ \A k \in 1 .. Len(sq) + 1 : TextAt(sq, k) \in Nat /\ BlockAt(sq, k) \in Nat
         /\ \A k \in 1 .. Len(sq) : /\ TextAt(sq, k + 1) = TextAt(sq, k) + Takes(sq[k])
                                    /\ BlockAt(sq, k + 1) = BlockAt(sq, k) + Stored(sq[k])
         /\ \A k, m \in 1 .. Len(sq) + 1 :
              k <= m => TextAt(sq, k) <= TextAt(sq, m) /\ BlockAt(sq, k) <= BlockAt(sq, m)
<1> DEFINE takes == [j \in DOMAIN sq |-> Takes(sq[j])]
           placed == [j \in DOMAIN sq |-> Stored(sq[j])]
<1>1. \A j \in 1 .. Len(sq) : Takes(sq[j]) \in Nat /\ Stored(sq[j]) \in Nat
  <2>1. \A j \in 1 .. Len(sq) : sq[j] \in Runs
    OBVIOUS
  <2> QED BY <2>1, RunSizes
<1>2. /\ takes \in Seq(Nat) /\ placed \in Seq(Nat) /\ Len(takes) = Len(sq) /\ Len(placed) = Len(sq)
      /\ \A j \in 1 .. Len(sq) : takes[j] = Takes(sq[j]) /\ placed[j] = Stored(sq[j])
  <2>1. Len(sq) \in Nat /\ DOMAIN sq = 1 .. Len(sq)
    OBVIOUS
  <2>2. /\ takes = [j \in 1 .. Len(sq) |-> takes[j]] /\ placed = [j \in 1 .. Len(sq) |-> placed[j]]
        /\ \A j \in 1 .. Len(sq) : takes[j] = Takes(sq[j]) /\ placed[j] = Stored(sq[j])
    BY <2>1
  <2>3. \A j \in 1 .. Len(sq) : takes[j] \in Nat /\ placed[j] \in Nat
    BY <1>1, <2>2
  <2> HIDE DEF takes, placed
  <2> QED BY <2>1, <2>2, <2>3, IsSeq
<1>3. \A k : TextAt(sq, k) = Before(takes, k) /\ BlockAt(sq, k) = Before(placed, k)
  BY DEF TextAt, BlockAt
<1> HIDE DEF takes, placed
<1>4. /\ Before(takes, 1) = 0 /\ Before(placed, 1) = 0
      /\ \A k \in 1 .. Len(sq) + 1 : Before(takes, k) \in Nat /\ Before(placed, k) \in Nat
  BY <1>2, BeforeFacts
<1>5. \A k \in 1 .. Len(sq) : /\ Before(takes, k + 1) = Before(takes, k) + takes[k]
                              /\ Before(placed, k + 1) = Before(placed, k) + placed[k]
  BY <1>2, BeforeFacts
<1>6. \A k, m \in 1 .. Len(sq) + 1 :
        k <= m => Before(takes, k) <= Before(takes, m) /\ Before(placed, k) <= Before(placed, m)
  BY <1>2, BeforeFacts
<1> QED BY <1>2, <1>3, <1>4, <1>5, <1>6

\* A sequence more leaves the others where they are.
LEMMA AppendPlaces ==
  ASSUME NEW sq \in Seq(Runs), NEW s \in Runs
  PROVE  /\ Append(sq, s) \in Seq(Runs) /\ Len(Append(sq, s)) = Len(sq) + 1
         /\ \A k \in 1 .. Len(sq) + 1 : /\ TextAt(Append(sq, s), k) = TextAt(sq, k)
                                        /\ BlockAt(Append(sq, s), k) = BlockAt(sq, k)
         /\ TextAt(Append(sq, s), Len(sq) + 2) = TextAt(sq, Len(sq) + 1) + Takes(s)
         /\ BlockAt(Append(sq, s), Len(sq) + 2) = BlockAt(sq, Len(sq) + 1) + Stored(s)
<1> DEFINE more == Append(sq, s)
           takes == [j \in DOMAIN sq |-> Takes(sq[j])]
           placed == [j \in DOMAIN sq |-> Stored(sq[j])]
<1>1. /\ more \in Seq(Runs) /\ Len(more) = Len(sq) + 1 /\ more[Len(sq) + 1] = s
      /\ \A j \in 1 .. Len(sq) : more[j] = sq[j] /\ sq[j] \in Runs
  OBVIOUS
<1>2. \A j \in 1 .. Len(sq) : Takes(sq[j]) \in Nat /\ Stored(sq[j]) \in Nat
  BY <1>1, RunSizes
<1>3. takes \in Seq(Nat) /\ placed \in Seq(Nat) /\ Len(takes) = Len(sq) /\ Len(placed) = Len(sq)
  <2>1. Len(sq) \in Nat /\ DOMAIN sq = 1 .. Len(sq)
    OBVIOUS
  <2>2. /\ takes = [j \in 1 .. Len(sq) |-> takes[j]] /\ placed = [j \in 1 .. Len(sq) |-> placed[j]]
        /\ \A j \in 1 .. Len(sq) : takes[j] = Takes(sq[j]) /\ placed[j] = Stored(sq[j])
    BY <2>1
  <2>3. \A j \in 1 .. Len(sq) : takes[j] \in Nat /\ placed[j] \in Nat
    BY <1>2, <2>2
  <2> HIDE DEF takes, placed
  <2> QED BY <2>1, <2>2, <2>3, IsSeq
<1> HIDE DEF more
<1>4. /\ [j \in DOMAIN more |-> Takes(more[j])] = Append(takes, Takes(s))
      /\ [j \in DOMAIN more |-> Stored(more[j])] = Append(placed, Stored(s))
  <2>1. DOMAIN more = 1 .. Len(sq) + 1 /\ DOMAIN sq = 1 .. Len(sq) /\ Len(sq) \in Nat
    BY <1>1
  <2>2. /\ Append(takes, Takes(s)) = [j \in 1 .. Len(sq) + 1 |-> IF j = Len(sq) + 1 THEN Takes(s) ELSE takes[j]]
        /\ Append(placed, Stored(s)) = [j \in 1 .. Len(sq) + 1 |-> IF j = Len(sq) + 1 THEN Stored(s) ELSE placed[j]]
    <3>1. Takes(s) \in Nat /\ Stored(s) \in Nat
      BY RunSizes
    <3> HIDE DEF takes, placed
    <3> QED BY <1>3, <3>1, AppendIs
  <2>3. ASSUME NEW j \in 1 .. Len(sq) + 1
        PROVE  /\ Takes(more[j]) = IF j = Len(sq) + 1 THEN Takes(s) ELSE takes[j]
               /\ Stored(more[j]) = IF j = Len(sq) + 1 THEN Stored(s) ELSE placed[j]
    <3>1. CASE j = Len(sq) + 1
      BY <1>1, <3>1
    <3>2. CASE j # Len(sq) + 1
      <4>1. j \in 1 .. Len(sq)
        BY <3>2
      <4> QED BY <1>1, <2>1, <3>2, <4>1
    <3> QED BY <3>1, <3>2
  <2> HIDE DEF takes, placed
  <2> QED BY <2>1, <2>2, <2>3
<1>5. \A k : /\ TextAt(more, k) = Before(Append(takes, Takes(s)), k) /\ TextAt(sq, k) = Before(takes, k)
             /\ BlockAt(more, k) = Before(Append(placed, Stored(s)), k) /\ BlockAt(sq, k) = Before(placed, k)
  BY <1>4 DEF TextAt, BlockAt
<1> HIDE DEF takes, placed
<1>6. Takes(s) \in Nat /\ Stored(s) \in Nat
  BY RunSizes
<1>7. \A k \in 1 .. Len(sq) + 1 : /\ TextAt(more, k) = TextAt(sq, k)
                                  /\ BlockAt(more, k) = BlockAt(sq, k)
  BY <1>3, <1>5, <1>6, AppendSums
<1>8. /\ TextAt(more, (Len(sq) + 1) + 1) = TextAt(more, Len(sq) + 1) + Takes(s)
      /\ BlockAt(more, (Len(sq) + 1) + 1) = BlockAt(more, Len(sq) + 1) + Stored(s)
  <2>1. Len(sq) + 1 \in 1 .. Len(more)
    BY <1>1
  <2> QED BY <1>1, <2>1, Places
<1>9. (Len(sq) + 1) + 1 = Len(sq) + 2 /\ Len(sq) + 1 \in 1 .. Len(sq) + 1
  OBVIOUS
<1>10. /\ TextAt(more, Len(sq) + 2) = TextAt(sq, Len(sq) + 1) + Takes(s)
       /\ BlockAt(more, Len(sq) + 2) = BlockAt(sq, Len(sq) + 1) + Stored(s)
  BY <1>7, <1>8, <1>9
<1> QED BY <1>1, <1>7, <1>10 DEF more

-----------------------------------------------------------------------------
(* What the text of a block is: Text is defined by appending, its bytes are  *)
(* looked up by position.                                                   *)

\* No match begins before the text.
Inside(sq) ==
  \A k \in 1 .. Len(sq) : Len(sq[k]) = 3 => sq[k][2] <= TextAt(sq, k) + sq[k][1]

\* In the text x the literals of sequence k are as they were, and its match repeats
\* what is offset bytes before.
LiteralsIn(x, sq, k) ==
  \A i \in Int : TextAt(sq, k) <= i /\ i < TextAt(sq, k) + sq[k][1] => x[i + 1] = i
MatchIn(x, sq, k) ==
  Len(sq[k]) = 3 =>
    \A i \in Int : TextAt(sq, k) + sq[k][1] <= i /\ i < TextAt(sq, k) + sq[k][1] + sq[k][3]
                    => x[i + 1] = x[(i - sq[k][2]) + 1]

\* x is the text of the first n sequences.
IsText(x, sq, n) ==
  /\ x \in Seq(Nat) /\ Len(x) = TextAt(sq, n + 1)
  /\ \A k \in 1 .. n : LiteralsIn(x, sq, k) /\ MatchIn(x, sq, k)

\* A sequence more.
LEMMA ExtendedIs ==
  ASSUME NEW sq \in Seq(Runs), Inside(sq), NEW n \in 1 .. Len(sq), NEW x, IsText(x, sq, n - 1)
  PROVE  IsText(Extended(x, sq[n]), sq, n)
<1> DEFINE s == sq[n]
           run == s[1]
           here == TextAt(sq, n)
           lits == x \o [k \in 1 .. run |-> Len(x) + k - 1]
           y == Extended(x, s)
           z == here + run
<1>1. /\ s \in Runs /\ Len(s) \in {1, 3} /\ run \in Nat /\ here \in Nat
      /\ TextAt(sq, n + 1) = here + Takes(s)
      /\ Len(s) = 1 => Takes(s) = run
      /\ Len(s) = 3 => /\ s[2] \in Nat /\ s[2] >= 1 /\ s[3] \in Nat /\ Takes(s) = run + s[3]
                       /\ s[2] <= z
  <2>1. s \in Runs
    OBVIOUS
  <2>2. n \in 1 .. Len(sq) + 1
    OBVIOUS
  <2> QED BY <2>1, <2>2, RunSizes, Places DEF Inside
<1>2. x \in Seq(Nat) /\ Len(x) = here
  BY DEF IsText
<1>3. /\ lits \in Seq(Nat) /\ Len(lits) = z
      /\ \A i \in 1 .. here : lits[i] = x[i]
      /\ \A i \in here + 1 .. z : lits[i] = i - 1
  <2> DEFINE tail == [k \in 1 .. run |-> Len(x) + k - 1]
  <2>1. tail \in Seq(Nat) /\ Len(tail) = run /\ \A k \in 1 .. run : tail[k] = here + k - 1
    <3> HIDE DEF run, here
    <3>1. \A k \in 1 .. run : here + k - 1 \in Nat
      BY <1>1
    <3>2. tail = [k \in 1 .. run |-> tail[k]] /\ \A k \in 1 .. run : tail[k] = here + k - 1
      BY <1>2
    <3> HIDE DEF tail
    <3>3. \A k \in 1 .. run : tail[k] \in Nat
      BY <3>1, <3>2
    <3>4. run \in Nat
      BY <1>1
    <3>5. tail \in Seq(Nat) /\ Len(tail) = run
      BY <3>2, <3>3, <3>4, IsSeq
    <3> QED BY <3>2, <3>5
  <2>2. lits = x \o tail
    OBVIOUS
  <2> HIDE DEF run, here, tail, lits
  <2>3. lits \in Seq(Nat) /\ Len(lits) = here + run
    BY <1>2, <2>1, <2>2, ConcatIs
  <2>4. \A i \in 1 .. here : lits[i] = x[i]
    BY <1>2, <2>1, <2>2, ConcatIs
  <2>5. ASSUME NEW i \in here + 1 .. z PROVE lits[i] = i - 1
    <3>0. i - here \in 1 .. run /\ here + (i - here) = i
      BY <1>1, <2>5 DEF z
    <3> DEFINE j == i - here
    <3>1. j \in 1 .. run /\ here + j = i /\ here + j - 1 = i - 1
      BY <1>1, <3>0
    <3> HIDE DEF j
    <3>2. (x \o tail)[Len(x) + j] = tail[j]
      BY <1>2, <2>1, <3>1, ConcatIs
    <3>3. tail[j] = here + j - 1
      BY <2>1, <3>1
    <3> QED BY <1>2, <2>2, <3>1, <3>2, <3>3
  <2> QED BY <2>3, <2>4, <2>5
<1> HIDE DEF lits, run, here
<1>4. /\ y \in Seq(Nat) /\ Len(y) = TextAt(sq, n + 1) /\ z \in Nat /\ z <= Len(y)
      /\ \A i \in 1 .. z : y[i] = lits[i]
      /\ Len(s) = 3 => \A k \in 1 .. s[3] : y[z + k] = lits[z - s[2] + 1 + ((k - 1) % s[2])]
  <2>1. CASE Len(s) = 1
    <3>1. y = lits
      BY <2>1 DEF Extended, lits, run
    <3> QED BY <1>1, <1>3, <2>1, <3>1
  <2>2. CASE Len(s) = 3
    <3> DEFINE tail == [k \in 1 .. s[3] |-> lits[z - s[2] + 1 + ((k - 1) % s[2])]]
    <3>1. y = lits \o tail
      <4>1. Len(s) # 1
        BY <2>2
      <4>2. y = lits \o [k \in 1 .. s[3] |-> lits[Len(lits) - s[2] + 1 + ((k - 1) % s[2])]]
        BY <4>1 DEF Extended, lits, run
      <4> QED BY <1>3, <4>2
    <3>2. \A k \in 1 .. s[3] : tail[k] \in Nat
      <4> SUFFICES ASSUME NEW k \in 1 .. s[3] PROVE lits[z - s[2] + 1 + ((k - 1) % s[2])] \in Nat
        OBVIOUS
      <4> DEFINE r == (k - 1) % s[2]
      <4>1. r \in 0 .. s[2] - 1
        <5>1. k - 1 \in Nat /\ s[2] \in Nat \ {0}
          BY <1>1, <2>2
        <5> QED BY <5>1, ModLess, Zenon
      <4> HIDE DEF r, s
      <4>2. z - s[2] + 1 + r \in 1 .. z
        <5>1. here \in Nat /\ run \in Nat /\ s[2] \in Nat /\ s[2] <= here + run
          BY <1>1, <2>2
        <5> QED BY <4>1, <5>1
      <4>3. lits[z - s[2] + 1 + r] \in Nat
        BY <1>3, <4>2
      <4> QED BY <4>3 DEF r
    <3>3. s[3] \in Nat /\ tail = [k \in 1 .. s[3] |-> tail[k]]
      BY <1>1, <2>2
    <3>4. \A k \in 1 .. s[3] : tail[k] = lits[z - s[2] + 1 + ((k - 1) % s[2])]
      OBVIOUS
    <3> HIDE DEF tail, z, s, y
    <3>5. tail \in Seq(Nat) /\ Len(tail) = s[3]
      BY <3>2, <3>3, IsSeq
    <3>7. z \in Nat
      BY <1>3
    <3>6. y \in Seq(Nat) /\ Len(y) = z + s[3] /\ \A i \in 1 .. z : y[i] = lits[i]
      <4>1. lits \o tail \in Seq(Nat) /\ Len(lits \o tail) = Len(lits) + Len(tail)
            /\ \A i \in 1 .. Len(lits) : (lits \o tail)[i] = lits[i]
        <5>1. lits \in Seq(Nat) /\ tail \in Seq(Nat)
          BY <1>3, <3>5
        <5> QED BY <5>1, ConcatIs
      <4> QED BY <1>3, <3>1, <3>5, <4>1
    <3>8. \A k \in 1 .. s[3] : y[z + k] = tail[k]
      <4>1. \A k \in 1 .. Len(tail) : (lits \o tail)[Len(lits) + k] = tail[k]
        <5>1. lits \in Seq(Nat) /\ tail \in Seq(Nat)
          BY <1>3, <3>5
        <5> QED BY <5>1, ConcatIs
      <4> QED BY <1>3, <3>1, <3>5, <4>1
    <3>9. here + run + s[3] = TextAt(sq, n + 1) /\ z = here + run
      <4>1. /\ TextAt(sq, n + 1) = here + Takes(s) /\ Takes(s) = run + s[3]
            /\ here \in Nat /\ run \in Nat /\ s[3] \in Nat
        BY <1>1, <2>2
      <4> QED BY <4>1 DEF z
    <3>10. Len(y) = TextAt(sq, n + 1) /\ z <= Len(y)
      BY <3>3, <3>6, <3>7, <3>9
    <3>11. \A k \in 1 .. s[3] : y[z + k] = lits[z - s[2] + 1 + ((k - 1) % s[2])]
      BY <3>4, <3>8, Zenon
    <3> QED BY <3>6, <3>7, <3>10, <3>11
  <2> QED BY <1>1, <2>1, <2>2
<1> HIDE DEF y
<1>5. \A i \in 1 .. here : y[i] = x[i]
  <2>1. here <= z /\ here \in Nat /\ z \in Nat
    BY <1>1
  <2> QED BY <1>3, <1>4, <2>1
<1>6. ASSUME NEW k \in 1 .. n - 1 PROVE LiteralsIn(y, sq, k) /\ MatchIn(y, sq, k)
  <2> DEFINE at0 == TextAt(sq, k)
  <2>1. sq[k] \in Runs /\ at0 \in Nat /\ at0 + Takes(sq[k]) <= here /\ Takes(sq[k]) \in Nat
    <3>1. k \in 1 .. Len(sq) /\ k \in 1 .. Len(sq) + 1 /\ k + 1 \in 1 .. Len(sq) + 1
          /\ n \in 1 .. Len(sq) + 1 /\ k + 1 <= n
      OBVIOUS
    <3>2. TextAt(sq, k + 1) = TextAt(sq, k) + Takes(sq[k]) /\ TextAt(sq, k) \in Nat
          /\ TextAt(sq, k + 1) <= TextAt(sq, n)
      BY <3>1, Places
    <3>3. sq[k] \in Runs
      BY <3>1
    <3> QED BY <3>2, <3>3, RunSizes DEF here
  <2>2. /\ sq[k][1] \in Nat /\ sq[k][1] <= Takes(sq[k])
        /\ Len(sq[k]) = 3 => /\ sq[k][3] \in Nat /\ sq[k][2] \in Nat /\ sq[k][2] >= 1
                             /\ Takes(sq[k]) = sq[k][1] + sq[k][3]
                             /\ sq[k][2] <= at0 + sq[k][1]
    <3>1. k \in 1 .. Len(sq)
      OBVIOUS
    <3>2. Len(sq[k]) = 3 => sq[k][2] <= at0 + sq[k][1]
      BY <3>1 DEF Inside
    <3> HIDE DEF at0
    <3>3. /\ sq[k][1] \in Nat
          /\ Len(sq[k]) = 3 => /\ sq[k][3] \in Nat /\ sq[k][2] \in Nat /\ sq[k][2] >= 1
                               /\ Takes(sq[k]) = sq[k][1] + sq[k][3]
          /\ Len(sq[k]) = 1 => Takes(sq[k]) = sq[k][1]
          /\ Len(sq[k]) \in {1, 3}
      BY <2>1, RunSizes
    <3> QED BY <3>2, <3>3
  <2>3. LiteralsIn(x, sq, k) /\ MatchIn(x, sq, k)
    BY DEF IsText
  <2> HIDE DEF at0
  <2>4. LiteralsIn(y, sq, k)
    <3> SUFFICES ASSUME NEW i \in Int, at0 <= i, i < at0 + sq[k][1] PROVE y[i + 1] = i
      BY DEF LiteralsIn, at0
    <3>1. i + 1 \in 1 .. here
      BY <1>1, <2>1, <2>2
    <3>2. x[i + 1] = i
      BY <2>3 DEF LiteralsIn, at0
    <3> QED BY <1>5, <3>1, <3>2
  <2>5. MatchIn(y, sq, k)
    <3> SUFFICES ASSUME Len(sq[k]) = 3, NEW i \in Int, at0 + sq[k][1] <= i, i < at0 + sq[k][1] + sq[k][3]
                 PROVE  y[i + 1] = y[(i - sq[k][2]) + 1]
      BY DEF MatchIn, at0
    <3>1. i + 1 \in 1 .. here /\ (i - sq[k][2]) + 1 \in 1 .. here
      <4> DEFINE run0 == sq[k][1]
                 off0 == sq[k][2]
                 len0 == sq[k][3]
      <4>1. /\ run0 \in Nat /\ off0 \in Nat /\ len0 \in Nat /\ off0 >= 1 /\ off0 <= at0 + run0
            /\ at0 + (run0 + len0) <= here /\ at0 \in Nat /\ here \in Nat
            /\ at0 + run0 <= i /\ i < at0 + run0 + len0
        BY <1>1, <2>1, <2>2
      <4> HIDE DEF run0, off0, len0
      <4>2. i \in Nat /\ i + 1 <= here /\ i - off0 >= 0 /\ i - off0 <= i
        BY <4>1, SMT
      <4>3. i + 1 \in 1 .. here
        BY <4>1, <4>2, SMT
      <4>4. (i - off0) + 1 \in 1 .. here
        BY <4>1, <4>2, SMT
      <4> QED BY <4>3, <4>4 DEF off0
    <3>2. x[i + 1] = x[(i - sq[k][2]) + 1]
      BY <2>3 DEF MatchIn, at0
    <3> QED BY <1>5, <3>1, <3>2
  <2> QED BY <2>4, <2>5
<1>7. LiteralsIn(y, sq, n)
  <2> SUFFICES ASSUME NEW i \in Int, here <= i, i < here + run PROVE y[i + 1] = i
    BY DEF LiteralsIn, here, run
  <2>1. i + 1 \in here + 1 .. z /\ i + 1 \in 1 .. z /\ (i + 1) - 1 = i
    BY <1>1
  <2> QED BY <1>3, <1>4, <2>1
<1>8. MatchIn(y, sq, n)
  <2> SUFFICES ASSUME Len(s) = 3, NEW i \in Int, z <= i, i < z + s[3]
               PROVE  y[i + 1] = y[(i - s[2]) + 1]
    BY DEF MatchIn, here, run
  <2> DEFINE k == (i - z) + 1
             off == s[2]
             from(r) == (z - off + 1) + r
  <2>1. k \in 1 .. s[3] /\ i + 1 = z + k /\ k - 1 \in Nat /\ off \in Nat \ {0} /\ off <= z /\ z \in Nat
        /\ i + 1 - off = z + k - off /\ k \in Nat
    <3> DEFINE len == s[3]
               end == z
    <3>1. /\ off \in Nat \ {0} /\ off <= end /\ end \in Nat /\ len \in Nat
          /\ end <= i /\ i < end + len /\ k = (i - end) + 1
      BY <1>1, <1>4
    <3> HIDE DEF off, len, end, k
    <3>2. k \in 1 .. len /\ i + 1 = end + k /\ k - 1 \in Nat /\ i + 1 - off = end + k - off /\ k \in Nat
      BY <3>1
    <3> QED BY <3>1, <3>2 DEF len, end
  <2>2. y[i + 1] = lits[from((k - 1) % off)]
    <3>1. y[z + k] = lits[z - s[2] + 1 + ((k - 1) % s[2])]
      <4> HIDE DEF k
      <4> QED BY <1>4, <2>1
    <3>2. (k - 1) % off \in 0 .. off - 1
      <4> HIDE DEF k, off
      <4> QED BY <2>1, ModLess
    <3>3. z - s[2] + 1 + ((k - 1) % s[2]) = from((k - 1) % off)
      <4> DEFINE r == (k - 1) % off
      <4>1. r \in Int /\ off \in Int /\ z \in Int
        BY <2>1, <3>2
      <4> HIDE DEF r
      <4>2. z - off + 1 + r = (z - off + 1) + r
        BY <4>1
      <4> QED BY <4>2 DEF r
    <3> QED BY <2>1, <3>1, <3>3, Zenon
  <2>3. CASE k <= off
    <3>1. (k - 1) % off = k - 1
      <4> HIDE DEF k, off
      <4>1. k - 1 < off
        BY <2>1, <2>3
      <4> HIDE DEF k, off
      <4> QED BY <2>1, <4>1, ModLess, Zenon
    <3>2. from(k - 1) = (i - off) + 1 /\ from(k - 1) \in 1 .. z
      <4> DEFINE end == z
      <4>1. /\ k \in Nat \ {0} /\ off \in Nat \ {0} /\ off <= end /\ end \in Nat /\ k <= off
            /\ i + 1 = end + k /\ from(k - 1) = (end - off + 1) + (k - 1)
        BY <2>1, <2>3
      <4> HIDE DEF k, off, end, from
      <4>2. from(k - 1) = (i - off) + 1 /\ from(k - 1) \in 1 .. end
        BY <4>1
      <4> QED BY <4>2 DEF end
    <3>3. y[from(k - 1)] = lits[from(k - 1)]
      <4> HIDE DEF from, k, off
      <4> QED BY <1>4, <3>2
    <3> QED BY <2>2, <3>1, <3>2, <3>3, Zenon
  <2>4. CASE k > off
    <3>1. (k - 1) % off = ((k - off) - 1) % off
      <4>1. (k - 1) - off = (k - off) - 1 /\ k - 1 >= off
        <5>1. k \in Nat /\ off \in Nat /\ k > off
          BY <2>1, <2>4
        <5> HIDE DEF k, off
        <5> QED BY <5>1
      <4>2. ((k - 1) - off) % off = (k - 1) % off
        <5> HIDE DEF k, off
        <5> QED BY <2>1, <4>1, ModLess, Zenon
      <4> QED BY <4>1, <4>2, Zenon
    <3>2. k - off \in 1 .. s[3] /\ z + (k - off) = (i - off) + 1
      <4> DEFINE end == z
                 len == s[3]
      <4>1. /\ k \in 1 .. len /\ len \in Nat /\ off \in Nat \ {0} /\ end \in Nat /\ k > off
            /\ i + 1 = end + k
        BY <1>1, <2>1, <2>4
      <4> HIDE DEF k, off, end, len
      <4>2. k - off \in 1 .. len /\ end + (k - off) = (i - off) + 1
        BY <4>1
      <4> QED BY <4>2 DEF end, len
    <3>3. y[z + (k - off)] = lits[from(((k - off) - 1) % off)]
      <4> DEFINE j == k - off
      <4>1. j \in 1 .. s[3] /\ j - 1 \in Nat
        BY <3>2
      <4> HIDE DEF j
      <4>2. y[z + j] = lits[z - s[2] + 1 + ((j - 1) % s[2])]
        BY <1>4, <4>1
      <4>3. (j - 1) % off \in 0 .. off - 1
        <5> HIDE DEF k, off
        <5> QED BY <2>1, <4>1, ModLess
      <4>4. z - s[2] + 1 + ((j - 1) % s[2]) = from((j - 1) % off)
        <5> DEFINE r == (j - 1) % off
        <5>1. r \in Int /\ off \in Int /\ z \in Int
          BY <2>1, <4>3
        <5> HIDE DEF r
        <5>2. z - off + 1 + r = (z - off + 1) + r
          BY <5>1
        <5> QED BY <5>2 DEF r
      <4> QED BY <4>2, <4>4, Zenon DEF j
    <3> QED BY <2>2, <3>1, <3>2, <3>3, Zenon
  <2>5. k <= off \/ k > off
    BY <2>1
  <2> QED BY <2>3, <2>4, <2>5
<1>9. \A k \in 1 .. n : k \in 1 .. n - 1 \/ k = n
  OBVIOUS
<1>10. y \in Seq(Nat) /\ Len(y) = TextAt(sq, n + 1)
  BY <1>4
<1> HIDE DEF s
<1>11. IsText(y, sq, n)
  BY <1>6, <1>7, <1>8, <1>9, <1>10 DEF IsText
<1> QED BY <1>11 DEF y, s

\* The recursion of Text makes the text of all sequences.
LEMMA TextIs ==
  ASSUME sequences \in Seq(Runs), Inside(sequences)
  PROVE  IsText(Text, sequences, Len(sequences))
<1> DEFINE n == Len(sequences)
           step == [k \in 1 .. n |-> [x \in Seq(Nat) |->
                      IF IsText(x, sequences, k - 1) THEN Extended(x, sequences[k]) ELSE x]]
           R(u) == u = [k \in 0 .. n |-> IF k = 0 THEN <<>> ELSE Extended(u[k - 1], sequences[k])]
           after == CHOOSE u : R(u)
<1>1. n \in Nat /\ <<>> \in Seq(Nat)
  OBVIOUS
<1>2. step \in [1 .. n -> [Seq(Nat) -> Seq(Nat)]]
  <2>1. ASSUME NEW k \in 1 .. n, NEW x \in Seq(Nat), IsText(x, sequences, k - 1)
        PROVE  Extended(x, sequences[k]) \in Seq(Nat)
    <3>1. IsText(Extended(x, sequences[k]), sequences, k)
      BY <2>1, ExtendedIs
    <3> QED BY <3>1 DEF IsText
  <2> QED BY <2>1
<1>3. PICK f \in [0 .. n -> Seq(Nat)] : Recurs(f, n, <<>>, step)
  <2> HIDE DEF step, n
  <2> QED BY <1>1, <1>2, Recursion
<1>4. IsText(<<>>, sequences, 0)
  <2>1. TextAt(sequences, 1) = 0
    BY Places
  <2> QED BY <2>1 DEF IsText
<1>5. \A k \in 0 .. n : f[k] = IF k = 0 THEN <<>> ELSE step[k][f[k - 1]]
  <2> HIDE DEF step, n
  <2> QED BY <1>3, Zenon DEF Recurs
<1>6. \A k \in 1 .. n : step[k][f[k - 1]] =
        IF IsText(f[k - 1], sequences, k - 1) THEN Extended(f[k - 1], sequences[k]) ELSE f[k - 1]
  <2>1. \A k \in 1 .. n : f[k - 1] \in Seq(Nat)
    <3>1. \A k \in 1 .. n : k - 1 \in 0 .. n
      BY <1>1
    <3> HIDE DEF n
    <3> QED BY <3>1
  <2> HIDE DEF n
  <2> QED BY <2>1
<1> HIDE DEF step
<1> DEFINE G == {k \in 0 .. n : IsText(f[k], sequences, k)}
<1>7. 0 \in G
  BY <1>1, <1>4, <1>5
<1>8. ASSUME NEW k \in 0 .. n - 1, k \in G PROVE k + 1 \in G
  <2>1. k + 1 \in 1 .. n /\ k + 1 \in 0 .. n /\ k + 1 # 0 /\ (k + 1) - 1 = k
    BY <1>1
  <2>2. f[k + 1] = Extended(f[k], sequences[k + 1])
    BY <1>5, <1>6, <1>8, <2>1
  <2>3. IsText(Extended(f[k], sequences[k + 1]), sequences, k + 1)
    <3> DEFINE m == k + 1
    <3>1. m \in 1 .. Len(sequences) /\ IsText(f[k], sequences, m - 1)
      BY <1>8, <2>1
    <3> HIDE DEF m
    <3>2. IsText(Extended(f[k], sequences[m]), sequences, m)
      BY <3>1, ExtendedIs
    <3> QED BY <3>2 DEF m
  <2> QED BY <2>1, <2>2, <2>3
<1>9. \A k \in 0 .. n : IsText(f[k], sequences, k)
  <2>1. 0 .. n \subseteq G
    <3> HIDE DEF G, n
    <3> QED BY <1>1, <1>7, <1>8, UpTo
  <2> QED BY <2>1
<1>10. R(f)
  <2>1. \A k \in 0 .. n : f[k] = IF k = 0 THEN <<>> ELSE Extended(f[k - 1], sequences[k])
    <3>1. \A k \in 0 .. n : k # 0 => k \in 1 .. n /\ k - 1 \in 0 .. n
      BY <1>1
    <3> HIDE DEF n
    <3> QED BY <1>5, <1>6, <1>9, <3>1
  <2> HIDE DEF n
  <2> QED BY <2>1
<1>11. R(after)
  <2> HIDE DEF R
  <2> QED BY <1>10
<1>12. Text = after[n]
  BY DEF Text
<1> HIDE DEF after, G
<1> DEFINE H == {k \in 0 .. n : after[k] = f[k]}
<1>13. 0 \in H
  BY <1>1, <1>10, <1>11
<1>14. ASSUME NEW k \in 0 .. n - 1, k \in H PROVE k + 1 \in H
  <2>1. k + 1 \in 0 .. n /\ k + 1 # 0 /\ (k + 1) - 1 = k
    BY <1>1
  <2>2. after[k + 1] = Extended(after[k], sequences[k + 1])
        /\ f[k + 1] = Extended(f[k], sequences[k + 1])
    BY <1>10, <1>11, <2>1
  <2> QED BY <1>14, <2>1, <2>2
<1>15. n \in H
  <2>1. 0 .. n \subseteq H
    <3> HIDE DEF H, n, R
    <3> QED BY <1>1, <1>13, <1>14, UpTo
  <2>2. n \in 0 .. n
    BY <1>1
  <2> QED BY <2>1, <2>2
<1>16. n \in 0 .. n
  BY <1>1
<1> HIDE DEF R
<1> QED BY <1>9, <1>12, <1>15, <1>16

-----------------------------------------------------------------------------
(* The blocks of the encoder, and the way of the decoder through them.      *)

\* The text of the sequences sq, and what a byte of it is, by its position.
TextOf(sq) ==
  LET after[n \in 0 .. Len(sq)] ==
        IF n = 0 THEN <<>> ELSE Extended(after[n - 1], sq[n])
  IN  after[Len(sq)]
Wanted(sq) == [i \in Nat |-> TextOf(sq)[i + 1]]

\* The matches of the encoder: what MatchAllowed allows.
BlockFits(sq, size) ==
  \A k \in 1 .. Len(sq) : Len(sq[k]) = 3 =>
    /\ sq[k][2] <= TextAt(sq, k) + sq[k][1]
    /\ TextAt(sq, k) + sq[k][1] <= size - 12
    /\ TextAt(sq, k) + sq[k][1] + sq[k][3] <= size - 5

\* Sequences of a block that is not complete: each with a match.
Open(sq, size, n, w) ==
  /\ BlockFits(sq, size)
  /\ \A k \in 1 .. Len(sq) : Len(sq[k]) = 3
  /\ n = TextAt(sq, Len(sq) + 1) /\ w = BlockAt(sq, Len(sq) + 1)

\* A complete block: the last sequence, and no other, is literals only.
Complete(sq, size, w) ==
  /\ BlockFits(sq, size)
  /\ Len(sq) >= 1 /\ Len(sq[Len(sq)]) = 1
  /\ \A k \in 1 .. Len(sq) - 1 : Len(sq[k]) = 3
  /\ size = TextAt(sq, Len(sq) + 1) /\ w = BlockAt(sq, Len(sq) + 1)

\* Where the decoder is when it takes sequence k: at a label, i in src, o in dst,
\* with what it has read of the sequence.
OnWay(sq, k, label, i, o, len, off, m) ==
  \/ label = "entry" /\ k = 1 /\ i = 0 /\ o = 0
  \/ label \in {"fast", "safe"} /\ i = BlockAt(sq, k) /\ o = TextAt(sq, k)
  \/ /\ label = "safe_literal_copy" /\ len = sq[k][1]
     /\ i = BlockAt(sq, k) + 1 + LitExtra(sq[k][1]) /\ o = TextAt(sq, k)
  \/ /\ label \in {"fast_match", "shortcut", "safe_match"} /\ k < Len(sq)
     /\ i = BlockAt(sq, k) + 1 + LitExtra(sq[k][1]) + sq[k][1] /\ o = TextAt(sq, k) + sq[k][1]
  \/ /\ label = "safe_match_copy" /\ k < Len(sq)
     /\ len = sq[k][3] /\ off = sq[k][2] /\ m = o - off
     /\ i = BlockAt(sq, k + 1) /\ o = TextAt(sq, k) + sq[k][1]
  \/ label = "accepted" /\ o = TextAt(sq, Len(sq) + 1)

Encoding ==
  /\ srcSize \in Nat /\ sequences \in Seq(Runs)
  /\ encoder = "parse" => Open(sequences, srcSize, anchor, written)
  /\ encoder = "encoded" => Complete(sequences, srcSize, written)

Decoding ==
  /\ encoder = "encoded" /\ current \in 1 .. Len(sequences)
  /\ iend = written /\ oend = srcSize
  /\ dst \in Memory(srcSize) /\ Holds(dst, Wanted(sequences), op)
  /\ OnWay(sequences, current, at, ip, op, length, offset, match)

PackInv ==
  origin = "packed" =>
    /\ Encoding
    /\ \/ current = 0 /\ at = "entry" /\ ip = 0 /\ op = 0
       \/ Decoding

-----------------------------------------------------------------------------
LEMMA InitPackInv == InitLz4 => PackInv
<1> SUFFICES ASSUME InitLz4, origin = "packed" PROVE PackInv
  BY DEF PackInv
<1>1. InitPacked
  BY DEF InitLz4, InitForeign
<1>2. srcSize \in Nat /\ sequences = <<>> /\ encoder = "parse" /\ anchor = 0 /\ written = 0
      /\ current = 0 /\ at = "entry" /\ ip = 0 /\ op = 0
  BY <1>1, Lz4EncoderAssumption DEF InitPacked, InitEncoder, InitDecoder
<1>3. sequences \in Seq(Runs) /\ Len(sequences) = 0
  BY <1>2
<1>4. TextAt(sequences, 1) = 0 /\ BlockAt(sequences, 1) = 0
  BY <1>3, Places
<1>5. Open(sequences, srcSize, anchor, written)
  BY <1>2, <1>3, <1>4 DEF Open, BlockFits
<1> QED BY <1>2, <1>3, <1>5 DEF PackInv, Encoding

\* The input that is encoded does not go beyond the input.
LEMMA OpenWithin ==
  ASSUME NEW sq \in Seq(Runs), NEW size \in Nat, NEW n, NEW w, Open(sq, size, n, w)
  PROVE  n \in Nat /\ w \in Nat /\ n <= size
<1>1. Len(sq) \in Nat /\ Len(sq) + 1 \in 1 .. Len(sq) + 1
  OBVIOUS
<1>2. n \in Nat /\ w \in Nat
  BY <1>1, Places DEF Open
<1>3. CASE Len(sq) = 0
  <2>1. Len(sq) + 1 = 1 /\ n = TextAt(sq, Len(sq) + 1)
    BY <1>3 DEF Open
  <2>3. TextAt(sq, 1) = 0
    BY Places
  <2>2. n = 0
    BY <2>1, <2>3, Zenon
  <2> QED BY <1>2, <2>2
<1>4. CASE Len(sq) # 0
  <2> DEFINE k == Len(sq)
  <2>1. k \in 1 .. Len(sq) /\ k + 1 = Len(sq) + 1 /\ sq[k] \in Runs /\ k \in 1 .. Len(sq) + 1
    BY <1>1, <1>4
  <2>2. n = TextAt(sq, k) + Takes(sq[k]) /\ TextAt(sq, k) \in Nat
    BY <2>1, Places DEF Open
  <2>3. Takes(sq[k]) = sq[k][1] + sq[k][3] /\ TextAt(sq, k) + sq[k][1] + sq[k][3] <= size - 5
        /\ sq[k][1] \in Nat /\ sq[k][3] \in Nat
    BY <2>1, RunSizes DEF Open, BlockFits
  <2> HIDE DEF k
  <2> QED BY <1>2, <2>2, <2>3
<1> QED BY <1>2, <1>3, <1>4

\* One more sequence with a match that MatchAllowed allows.
LEMMA OpenAppend ==
  ASSUME NEW sq \in Seq(Runs), NEW size \in Nat, NEW n, NEW w, Open(sq, size, n, w),
         NEW s \in Runs, Len(s) = 3, s[2] <= n + s[1], n + s[1] <= size - 12,
         n + s[1] + s[3] <= size - 5
  PROVE  Open(Append(sq, s), size, n + Takes(s), w + Stored(s))
<1> DEFINE more == Append(sq, s)
<1>1. /\ more \in Seq(Runs) /\ Len(more) = Len(sq) + 1 /\ more[Len(sq) + 1] = s
      /\ \A k \in 1 .. Len(sq) : more[k] = sq[k]
      /\ Len(sq) \in Nat
  OBVIOUS
<1>2. /\ \A k \in 1 .. Len(sq) + 1 : TextAt(more, k) = TextAt(sq, k)
      /\ TextAt(more, Len(sq) + 2) = n + Takes(s) /\ BlockAt(more, Len(sq) + 2) = w + Stored(s)
      /\ TextAt(sq, Len(sq) + 1) = n
  BY AppendPlaces DEF Open
<1> HIDE DEF more
<1>3. \A k \in 1 .. Len(more) : (k \in 1 .. Len(sq) /\ k \in 1 .. Len(sq) + 1) \/ k = Len(sq) + 1
  BY <1>1
<1>4. \A k \in 1 .. Len(more) : Len(more[k]) = 3
  BY <1>1, <1>3 DEF Open
<1>5. BlockFits(more, size)
  <2> SUFFICES ASSUME NEW k \in 1 .. Len(more), Len(more[k]) = 3
               PROVE  /\ more[k][2] <= TextAt(more, k) + more[k][1]
                      /\ TextAt(more, k) + more[k][1] <= size - 12
                      /\ TextAt(more, k) + more[k][1] + more[k][3] <= size - 5
    BY DEF BlockFits
  <2>1. CASE k \in 1 .. Len(sq) /\ k \in 1 .. Len(sq) + 1
    <3>1. more[k] = sq[k] /\ TextAt(more, k) = TextAt(sq, k)
      BY <1>1, <1>2, <2>1
    <3> QED BY <2>1, <3>1 DEF Open, BlockFits
  <2>2. CASE k = Len(sq) + 1
    <3>1. more[k] = s /\ TextAt(more, k) = n
      <4>1. Len(sq) + 1 \in 1 .. Len(sq) + 1
        BY <1>1
      <4> QED BY <1>1, <1>2, <2>2, <4>1
    <3> QED BY <3>1
  <2> QED BY <1>3, <2>1, <2>2
<1>6. Len(more) + 1 = Len(sq) + 2
  BY <1>1
<1> QED BY <1>2, <1>4, <1>5, <1>6 DEF Open, more

\* The last literals complete a block.
LEMMA CompleteAppend ==
  ASSUME NEW sq \in Seq(Runs), NEW size \in Nat, NEW n, NEW w, Open(sq, size, n, w),
         NEW s \in Runs, Len(s) = 1, size = n + s[1]
  PROVE  Complete(Append(sq, s), size, w + Stored(s))
<1> DEFINE more == Append(sq, s)
<1>1. /\ more \in Seq(Runs) /\ Len(more) = Len(sq) + 1 /\ more[Len(sq) + 1] = s
      /\ \A k \in 1 .. Len(sq) : more[k] = sq[k]
      /\ Len(sq) \in Nat
  OBVIOUS
<1>2. /\ \A k \in 1 .. Len(sq) + 1 : TextAt(more, k) = TextAt(sq, k)
      /\ TextAt(more, Len(sq) + 2) = n + Takes(s) /\ BlockAt(more, Len(sq) + 2) = w + Stored(s)
  BY AppendPlaces DEF Open
<1>3. Takes(s) = s[1]
  BY RunSizes
<1> HIDE DEF more
<1>4. \A k \in 1 .. Len(more) : (k \in 1 .. Len(sq) /\ k \in 1 .. Len(sq) + 1) \/ k = Len(sq) + 1
  BY <1>1
<1>5. \A k \in 1 .. Len(more) - 1 : Len(more[k]) = 3
  <2>1. \A k \in 1 .. Len(more) - 1 : k \in 1 .. Len(sq)
    BY <1>1
  <2> QED BY <1>1, <2>1 DEF Open
<1>6. BlockFits(more, size)
  <2> SUFFICES ASSUME NEW k \in 1 .. Len(more), Len(more[k]) = 3
               PROVE  /\ more[k][2] <= TextAt(more, k) + more[k][1]
                      /\ TextAt(more, k) + more[k][1] <= size - 12
                      /\ TextAt(more, k) + more[k][1] + more[k][3] <= size - 5
    BY DEF BlockFits
  <2>0. k # Len(sq) + 1
    <3>1. Len(s) # 3
      OBVIOUS
    <3> QED BY <1>1, <3>1
  <2>1. k \in 1 .. Len(sq) /\ k \in 1 .. Len(sq) + 1
    BY <1>4, <2>0
  <2>2. more[k] = sq[k] /\ TextAt(more, k) = TextAt(sq, k)
    BY <1>1, <1>2, <2>1
  <2> QED BY <2>1, <2>2 DEF Open, BlockFits
<1>7. Len(more) + 1 = Len(sq) + 2 /\ Len(more) >= 1 /\ Len(more[Len(more)]) = 1
  BY <1>1
<1> QED BY <1>2, <1>3, <1>5, <1>6, <1>7 DEF Complete, more

\* A tuple of one or three lengths is a sequence.
LEMMA MadeLast ==
  ASSUME NEW l \in Nat
  PROVE  /\ <<l>> \in Runs /\ Len(<<l>>) = 1 /\ <<l>>[1] = l
         /\ Stored(<<l>>) = 1 + LitExtra(l) + l
<1> DEFINE s == <<l>>
<1>1. s \in Runs /\ Len(s) = 1 /\ s[1] = l
  BY DEF Runs
<1> HIDE DEF s
<1>2. Stored(s) = 1 + LitExtra(s[1]) + s[1]
  BY <1>1, RunSizes
<1> QED BY <1>1, <1>2 DEF s

LEMMA MadeMatch ==
  ASSUME NEW l \in Nat, NEW off \in Nat, NEW m \in Nat, off >= 1, m >= 4
  PROVE  /\ <<l, off, m>> \in Runs /\ Len(<<l, off, m>>) = 3
         /\ <<l, off, m>>[1] = l /\ <<l, off, m>>[2] = off /\ <<l, off, m>>[3] = m
         /\ Takes(<<l, off, m>>) = l + m
         /\ Stored(<<l, off, m>>) = 1 + LitExtra(l) + l + 2 + MatchExtra(m)
<1> DEFINE s == <<l, off, m>>
<1>1. s \in Runs /\ Len(s) = 3 /\ s[1] = l /\ s[2] = off /\ s[3] = m
  BY DEF Runs
<1> HIDE DEF s
<1>2. /\ Takes(s) = s[1] + s[3]
      /\ Stored(s) = 1 + LitExtra(s[1]) + s[1] + 2 + MatchExtra(s[3])
  BY <1>1, RunSizes
<1> QED BY <1>1, <1>2 DEF s

\* The steps of the encoder.
LEMMA CompressPackInv == PackInv /\ Compress => PackInv'
<1> SUFFICES ASSUME PackInv, Compress, origin = "packed" PROVE PackInv'
  BY DEF PackInv, Compress
<1>1. /\ Encoding /\ current = 0 /\ at = "entry" /\ ip = 0 /\ op = 0
      /\ NextEncoder /\ origin' = "packed" /\ current' = 0 /\ at' = "entry" /\ ip' = 0 /\ op' = 0
  BY DEF PackInv, Decoding, Compress, decoderVars
<1>2. Encoding'
  <2>1. CASE RefuseDst
    BY <1>1, <2>1 DEF RefuseDst, Encoding
  <2>2. CASE EncodeNothing
    <3>1. /\ srcSize' = 0 /\ encoder' = "encoded" /\ written' = 1 /\ sequences' = <<<<0>>>>
          /\ srcSize = 0
      BY <2>2 DEF EncodeNothing
    <3> DEFINE none == <<>>
               s == <<0>>
    <3>2. none \in Seq(Runs) /\ Len(none) = 0 /\ sequences' = Append(none, s)
      BY <3>1
    <3>3. Open(none, 0, 0, 0)
      <4>1. TextAt(none, 1) = 0 /\ BlockAt(none, 1) = 0
        BY <3>2, Places
      <4> HIDE DEF none
      <4> QED BY <3>2, <4>1 DEF Open, BlockFits
    <3>4. s \in Runs /\ Len(s) = 1 /\ s[1] = 0 /\ Stored(s) = 1
      <4>1. LitExtra(0) = 0
        BY DEF LitExtra, ExtraBytes
      <4> QED BY <4>1, MadeLast
    <3> HIDE DEF none, s
    <3>5. Complete(sequences', 0, 1)
      <4> DEFINE zero == 0
      <4>1. zero = zero + s[1] /\ zero + Stored(s) = 1 /\ zero \in Nat
            /\ Open(none, zero, zero, zero)
        BY <3>3, <3>4
      <4> HIDE DEF zero
      <4>2. Complete(Append(none, s), zero, zero + Stored(s))
        BY <3>2, <3>4, <4>1, CompleteAppend
      <4> QED BY <3>2, <4>1, <4>2 DEF zero
    <3>6. sequences' \in Seq(Runs)
      BY <3>2, <3>4
    <3> QED BY <3>1, <3>5, <3>6 DEF Encoding
  <2>3. ASSUME NEW lit \in LitLens, NEW off \in Offsets, NEW ml \in MatchLens,
               EncodeSequence(lit, off, ml)
        PROVE  Encoding'
    <3> DEFINE s == <<lit, off, ml>>
    <3>1. lit \in Nat /\ off \in Nat /\ off >= 1 /\ ml \in Nat /\ ml >= 4
      BY Lz4EncoderAssumption
    <3>2. /\ s \in Runs /\ Len(s) = 3 /\ s[1] = lit /\ s[2] = off /\ s[3] = ml
          /\ Takes(s) = lit + ml /\ Stored(s) = 1 + LitExtra(lit) + lit + 2 + MatchExtra(ml)
      BY <3>1, MadeMatch
    <3>3. /\ encoder = "parse" /\ encoder' = "parse" /\ srcSize' = srcSize
          /\ sequences' = Append(sequences, s) /\ anchor' = anchor + lit + ml
          /\ written' = AfterLiterals(lit) + 2 + MatchExtra(ml)
          /\ AfterLiterals(lit) = (written + 1) + LitExtra(lit) + lit
          /\ MatchAllowed(lit, off, ml)
      BY <2>3 DEF EncodeSequence, Parsing, AfterLiterals, LitExtra, MatchExtra
    <3> HIDE DEF s
    <3>4. /\ sequences \in Seq(Runs) /\ srcSize \in Nat
          /\ Open(sequences, srcSize, anchor, written)
      BY <1>1, <3>3 DEF Encoding
    <3>5. anchor \in Nat /\ written \in Nat
      BY <3>4, OpenWithin
    <3>6. LitExtra(lit) \in Nat /\ MatchExtra(ml) \in Nat
      BY <3>2, RunSizes
    <3>7. anchor' = anchor + Takes(s) /\ written' = written + Stored(s)
      BY <3>1, <3>2, <3>3, <3>5, <3>6
    <3>8. s[2] <= anchor + s[1] /\ anchor + s[1] <= srcSize - 12
          /\ anchor + s[1] + s[3] <= srcSize - 5
      BY <3>2, <3>3 DEF MatchAllowed
    <3>9. Open(sequences', srcSize, anchor', written')
      BY <3>2, <3>3, <3>4, <3>7, <3>8, OpenAppend
    <3>10. sequences' \in Seq(Runs)
      BY <3>2, <3>3, <3>4
    <3> QED BY <3>3, <3>4, <3>9, <3>10 DEF Encoding
  <2>4. ASSUME NEW lit \in LitLens, NEW off \in Offsets, NEW ml \in MatchLens,
               EncodeOverflow(lit, off, ml)
        PROVE  Encoding'
    BY <1>1, <2>4 DEF EncodeOverflow, Encoding
  <2>5. CASE LastLiterals
    <3> DEFINE s == <<LastRun>>
    <3>1. /\ encoder = "parse" /\ encoder' = "encoded" /\ srcSize' = srcSize
          /\ sequences' = Append(sequences, s)
          /\ written' = written + 1 + LitExtra(LastRun) + LastRun
      BY <2>5 DEF LastLiterals, Parsing, LitExtra
    <3>2. /\ sequences \in Seq(Runs) /\ srcSize \in Nat
          /\ Open(sequences, srcSize, anchor, written)
      BY <1>1, <3>1 DEF Encoding
    <3>3. anchor \in Nat /\ written \in Nat /\ anchor <= srcSize
      BY <3>2, OpenWithin
    <3>4. LastRun \in Nat /\ LastRun = srcSize - anchor
      BY <3>2, <3>3 DEF LastRun
    <3>5. s \in Runs /\ Len(s) = 1 /\ s[1] = LastRun /\ Stored(s) = 1 + LitExtra(LastRun) + LastRun
      BY <3>4, MadeLast
    <3> HIDE DEF s
    <3>6. LitExtra(LastRun) \in Nat
      BY <3>5, RunSizes
    <3>7. srcSize = anchor + s[1] /\ written' = written + Stored(s)
      BY <3>1, <3>2, <3>3, <3>4, <3>5, <3>6
    <3>8. Complete(sequences', srcSize, written')
      BY <3>1, <3>2, <3>5, <3>7, CompleteAppend
    <3>9. sequences' \in Seq(Runs)
      BY <3>1, <3>2, <3>5
    <3> QED BY <3>1, <3>2, <3>8, <3>9 DEF Encoding
  <2>6. CASE LastOverflow
    BY <1>1, <2>6 DEF LastOverflow, Encoding
  <2> QED BY <1>1, <2>1, <2>2, <2>3, <2>4, <2>5, <2>6 DEF NextEncoder
<1> QED BY <1>1, <1>2 DEF PackInv

-----------------------------------------------------------------------------
(* The decoder on its way: what it has before it                            *)

Run       == sequences[current][1]
Off       == sequences[current][2]
Size      == sequences[current][3]
RunExtra  == LitExtra(Run)
SizeExtra == MatchExtra(Size)
Place     == BlockAt(sequences, current)
Pos       == TextAt(sequences, current)

\* The last sequence ends the block and the text; behind another there are at
\* least six bytes of the block and five of the text.
LEMMA Ahead ==
  ASSUME PackInv, origin = "packed", Decoding
  PROVE  /\ iend \in Nat /\ oend \in Nat /\ Place \in Nat /\ Pos \in Nat /\ Run \in Nat
         /\ Sequence = sequences[current]
         /\ RunExtra \in Nat
         /\ Run < 15 => RunExtra = 0
         /\ Run >= 15 => RunExtra >= 1
         /\ current = Len(sequences) =>
              /\ Len(Sequence) = 1
              /\ Place + 1 + RunExtra + Run = iend /\ Pos + Run = oend
         /\ current < Len(sequences) =>
              /\ Len(Sequence) = 3 /\ current + 1 \in 1 .. Len(sequences)
              /\ Off \in Nat /\ Off >= 1 /\ Off <= Pos + Run
              /\ Size \in Nat /\ Size >= 4 /\ SizeExtra \in Nat
              /\ BlockAt(sequences, current + 1) = Place + 1 + RunExtra + Run + 2 + SizeExtra
              /\ TextAt(sequences, current + 1) = Pos + Run + Size
              /\ Place + 1 + RunExtra + Run + 2 + SizeExtra + 6 <= iend
              /\ Pos + Run <= oend - 12 /\ Pos + Run + Size <= oend - 5
<1> DEFINE n == Len(sequences)
           s == sequences[current]
           z == sequences[n]
<1>1. /\ sequences \in Seq(Runs) /\ Complete(sequences, srcSize, written) /\ n \in Nat
      /\ current \in 1 .. n /\ iend = written /\ oend = srcSize /\ srcSize \in Nat
  BY DEF PackInv, Encoding, Decoding
<1>2. s \in Runs /\ z \in Runs /\ current \in 1 .. n + 1 /\ n \in 1 .. n + 1 /\ n \in 1 .. n
      /\ n + 1 \in 1 .. n + 1
  BY <1>1
<1>3. Sequence = s
  BY <1>1 DEF Sequence
<1>4. /\ Place \in Nat /\ Pos \in Nat /\ iend \in Nat
      /\ BlockAt(sequences, current + 1) = Place + Stored(s)
      /\ TextAt(sequences, current + 1) = Pos + Takes(s)
      /\ BlockAt(sequences, n) \in Nat /\ TextAt(sequences, n) \in Nat
      /\ iend = BlockAt(sequences, n) + Stored(z)
      /\ oend = TextAt(sequences, n) + Takes(z)
  <2> HIDE DEF n, s, z
  <2>1. /\ BlockAt(sequences, n + 1) = BlockAt(sequences, n) + Stored(z)
        /\ TextAt(sequences, n + 1) = TextAt(sequences, n) + Takes(z)
        /\ BlockAt(sequences, n) \in Nat /\ TextAt(sequences, n) \in Nat
        /\ BlockAt(sequences, n + 1) \in Nat
    BY <1>1, <1>2, Places DEF n, z
  <2>2. /\ BlockAt(sequences, current + 1) = BlockAt(sequences, current) + Stored(s)
        /\ TextAt(sequences, current + 1) = TextAt(sequences, current) + Takes(s)
        /\ BlockAt(sequences, current) \in Nat /\ TextAt(sequences, current) \in Nat
    BY <1>1, <1>2, Places DEF n, s
  <2>3. iend = BlockAt(sequences, n + 1) /\ oend = TextAt(sequences, n + 1)
    BY <1>1 DEF Complete, n
  <2> QED BY <2>1, <2>2, <2>3 DEF Place, Pos
<1>5. /\ Run \in Nat /\ RunExtra \in Nat /\ (Run < 15 => RunExtra = 0)
      /\ Run >= 15 => RunExtra >= 1
      /\ Len(s) = 1 => Takes(s) = Run /\ Stored(s) = 1 + RunExtra + Run
      /\ Len(s) = 3 =>
           /\ Off \in Nat /\ Off >= 1 /\ Size \in Nat /\ Size >= 4 /\ SizeExtra \in Nat
           /\ Takes(s) = Run + Size /\ Stored(s) = 1 + RunExtra + Run + 2 + SizeExtra
  <2> HIDE DEF n
  <2> QED BY <1>2, RunSizes DEF Run, RunExtra, Off, Size, SizeExtra
<1>6. CASE current = n
  <2>1. Len(s) = 1 /\ s = z
    BY <1>1, <1>6 DEF Complete
  <2>2. Place = BlockAt(sequences, n) /\ Pos = TextAt(sequences, n)
    BY <1>6 DEF Place, Pos
  <2>3. iend = Place + (1 + RunExtra + Run) /\ oend = Pos + Run
    <3> HIDE DEF s, z, n
    <3> QED BY <1>4, <1>5, <2>1, <2>2
  <2>4. Place + 1 + RunExtra + Run = iend /\ Pos + Run = oend
    BY <1>4, <1>5, <2>3
  <2>5. oend \in Nat /\ ~(current < n)
    BY <1>1, <1>6
  <2> HIDE DEF s, z, n
  <2> QED BY <1>3, <1>4, <1>5, <1>6, <2>1, <2>4, <2>5 DEF n, s
<1>7. CASE current < n
  <2>1. Len(s) = 3 /\ current + 1 \in 1 .. n /\ current + 1 \in 1 .. n + 1 /\ Len(z) = 1
    <3>1. current \in 1 .. n - 1
      BY <1>1, <1>7
    <3> QED BY <1>1, <3>1 DEF Complete
  <2>2. Off <= Pos + Run /\ Pos + Run <= oend - 12 /\ Pos + Run + Size <= oend - 5
    BY <1>1, <2>1 DEF Complete, BlockFits, Off, Pos, Run, Size
  <2>3. /\ BlockAt(sequences, current + 1) <= BlockAt(sequences, n)
        /\ TextAt(sequences, current + 1) <= TextAt(sequences, n)
    <3>1. current + 1 <= n
      BY <1>1, <1>7
    <3> QED BY <1>1, <1>2, <2>1, <3>1, Places
  <2>4. z[1] \in Nat /\ z[1] >= 5
    <3> DEFINE m == n - 1
               y == sequences[m]
    <3>1. m \in 1 .. n /\ m + 1 = n /\ m \in 1 .. n - 1 /\ m \in 1 .. n + 1
      BY <1>1, <1>7
    <3>2. Len(y) = 3 /\ y \in Runs
      BY <1>1, <3>1 DEF Complete
    <3>3. TextAt(sequences, m) + y[1] + y[3] <= srcSize - 5
      BY <1>1, <3>1, <3>2 DEF Complete, BlockFits
    <3>4. y[1] \in Nat /\ y[3] \in Nat /\ Takes(y) = y[1] + y[3] /\ z[1] \in Nat /\ Takes(z) = z[1]
      <4> HIDE DEF y, z
      <4> QED BY <1>2, <2>1, <3>2, RunSizes
    <3>5. TextAt(sequences, m + 1) = TextAt(sequences, m) + Takes(y) /\ TextAt(sequences, m) \in Nat
      <4> HIDE DEF m
      <4> QED BY <1>1, <3>1, Places DEF n
    <3> DEFINE y1 == y[1]
               y3 == y[3]
               z1 == z[1]
    <3>6. /\ TextAt(sequences, n) = TextAt(sequences, m) + (y1 + y3) /\ y1 \in Nat /\ y3 \in Nat
          /\ oend = TextAt(sequences, n) + z1 /\ TextAt(sequences, m) + y1 + y3 <= oend - 5
          /\ z1 \in Nat /\ TextAt(sequences, m) \in Nat
      <4>1. TextAt(sequences, n) = TextAt(sequences, m + 1)
        BY <3>1
      <4> HIDE DEF m, y, z, n
      <4> QED BY <1>1, <1>4, <3>3, <3>4, <3>5, <4>1
    <3> HIDE DEF m, y, z, n, y1, y3, z1
    <3>7. z1 >= 5
      BY <3>6
    <3> QED BY <3>6, <3>7 DEF z1
  <2>5. Stored(z) \in Nat /\ Stored(z) >= 6
    <3> HIDE DEF z
    <3>1. Stored(z) = 1 + LitExtra(z[1]) + z[1] /\ LitExtra(z[1]) \in Nat
      BY <1>2, <2>1, RunSizes
    <3> QED BY <2>4, <3>1
  <2>6. /\ BlockAt(sequences, current + 1) = Place + 1 + RunExtra + Run + 2 + SizeExtra
        /\ TextAt(sequences, current + 1) = Pos + Run + Size
    <3> HIDE DEF s, z, n
    <3> QED BY <1>4, <1>5, <2>1
  <2>7. Place + 1 + RunExtra + Run + 2 + SizeExtra + 6 <= iend
    <3> HIDE DEF s, z, n
    <3> QED BY <1>4, <1>5, <2>1, <2>3, <2>5, <2>6
  <2>8. oend \in Nat /\ current # n
    BY <1>1, <1>7
  <2> HIDE DEF s, z, n
  <2> QED BY <1>3, <1>4, <1>5, <1>7, <2>1, <2>2, <2>6, <2>7, <2>8 DEF n, s
<1>8. current = n \/ current < n
  BY <1>1
<1> QED BY <1>6, <1>7, <1>8

\* The text before it.
LEMMA TextAhead ==
  ASSUME PackInv, origin = "packed", Decoding
  PROVE  /\ \A i \in Int : Pos <= i /\ i < Pos + Run => Wanted(sequences)[i] = i
         /\ current < Len(sequences) => Repeats(Wanted(sequences), Pos + Run, Pos + Run + Size, Off)
         /\ Text = TextOf(sequences)
<1>1. /\ sequences \in Seq(Runs) /\ Complete(sequences, srcSize, written)
      /\ current \in 1 .. Len(sequences)
  BY DEF PackInv, Encoding, Decoding
<1>2. Inside(sequences)
  BY <1>1 DEF Complete, BlockFits, Inside
<1>3. Text = TextOf(sequences)
  BY DEF Text, TextOf
<1>4. LiteralsIn(Text, sequences, current) /\ MatchIn(Text, sequences, current)
  BY <1>1, <1>2, TextIs DEF IsText
<1>5. Pos \in Nat /\ Run \in Nat
  BY Ahead
<1> DEFINE t == Wanted(sequences)
<1>6. \A i \in Nat : t[i] = Text[i + 1]
  BY <1>3 DEF Wanted
<1> HIDE DEF t
<1>7. ASSUME NEW i \in Int, Pos <= i, i < Pos + Run PROVE t[i] = i
  <2>1. i \in Nat
    BY <1>5, <1>7
  <2>2. Text[i + 1] = i
    BY <1>4, <1>7 DEF LiteralsIn, Pos, Run
  <2> QED BY <1>6, <2>1, <2>2
<1>8. ASSUME current < Len(sequences), NEW i \in Int, Pos + Run <= i, i < Pos + Run + Size
      PROVE  t[i] = t[i - Off]
  <2>1. /\ Len(sequences[current]) = 3 /\ Off \in Nat /\ Off <= Pos + Run
    BY <1>8, Ahead
  <2>2. i \in Nat /\ i - Off \in Nat
    BY <1>5, <1>8, <2>1
  <2>3. Text[i + 1] = Text[(i - Off) + 1]
    BY <1>4, <1>8, <2>1 DEF MatchIn, Pos, Run, Size, Off
  <2> QED BY <1>6, <2>2, <2>3
<1> QED BY <1>3, <1>7, <1>8 DEF t, Repeats

-----------------------------------------------------------------------------
(* The steps of the decoder                                                 *)

\* DecodePacked, apart from the step of the decoder itself.
Follows ==
  /\ current' = IF at # "entry" /\ at' \in {"fast", "safe"} THEN current + 1 ELSE current
  /\ UNCHANGED <<encoderVars, origin>>

OnTheWay == PackInv /\ origin = "packed" /\ Decoding

\* What a step has to show.
LEMMA Moves ==
  ASSUME OnTheWay, Follows, UNCHANGED <<iend, oend>>,
         current' \in 1 .. Len(sequences),
         Copied(dst', srcSize, Wanted(sequences), op'),
         OnWay(sequences, current', at', ip', op', length', offset', match')
  PROVE  PackInv'
<1>1. /\ srcSize' = srcSize /\ sequences' = sequences /\ written' = written
      /\ encoder' = encoder /\ anchor' = anchor /\ origin' = origin
      /\ encoder = "encoded" /\ iend = written /\ oend = srcSize
      /\ iend' = iend /\ oend' = oend /\ Encoding
  BY DEF OnTheWay, Follows, encoderVars, Decoding, PackInv
<1>2. Decoding'
  BY <1>1 DEF Decoding, Copied
<1>3. Encoding'
  BY <1>1 DEF Encoding
<1> QED BY <1>2, <1>3 DEF PackInv

\* Literals of the text, and whatever behind them.
LEMMA LiteralsHold ==
  ASSUME NEW n \in Nat, NEW b \in Memory(n), NEW t, NEW d \in Nat, NEW len \in Nat,
         NEW placed, Holds(b, t, d), \A i \in Int : d <= i /\ i < d + len => t[i] = i
  PROVE  Copied(Literals(b, d, len, placed), n, t, d + len)
<1> DEFINE c == Literals(b, d, len, placed)
<1>1. DOMAIN b = 0 .. n - 1 /\ \A i \in 0 .. n - 1 : b[i] \in Nat \cup {Junk}
  BY DEF Memory
<1>2. /\ DOMAIN c = 0 .. n - 1
      /\ c = [i \in 0 .. n - 1 |-> IF i \in d .. d + len - 1 THEN i
                                   ELSE IF i \in d + len .. placed - 1 THEN Junk ELSE b[i]]
  BY <1>1 DEF Literals
<1>3. c \in Memory(n)
  BY <1>1, <1>2 DEF Memory
<1>4. ASSUME NEW i \in 0 .. n - 1, i < d + len PROVE c[i] = t[i]
  <2>1. CASE i < d
    <3>1. i \notin d .. d + len - 1 /\ i \notin d + len .. placed - 1
      BY <1>4, <2>1
    <3>2. c[i] = b[i]
      BY <1>2, <3>1
    <3> QED BY <1>1, <2>1, <3>2 DEF Holds
  <2>2. CASE i >= d
    <3>1. i \in d .. d + len - 1
      BY <1>4, <2>2
    <3>2. c[i] = i
      BY <1>2, <3>1
    <3> QED BY <1>4, <2>2, <3>2
  <2> QED BY <2>1, <2>2
<1> HIDE DEF c
<1>5. Holds(c, t, d + len)
  BY <1>2, <1>4 DEF Holds
<1> QED BY <1>3, <1>5 DEF Copied, c

\* The literals of the sequence, copied in any of the three ways.
LEMMA LiteralsStep ==
  ASSUME OnTheWay, op = Pos, NEW placed
  PROVE  Copied(Literals(dst, op, Run, placed), srcSize, Wanted(sequences), op + Run)
<1>1. /\ srcSize \in Nat /\ dst \in Memory(srcSize) /\ Holds(dst, Wanted(sequences), op)
  BY DEF OnTheWay, PackInv, Encoding, Decoding
<1>2. Pos \in Nat /\ Run \in Nat
  BY Ahead DEF OnTheWay
<1>3. \A i \in Int : op <= i /\ i < op + Run => Wanted(sequences)[i] = i
  BY TextAhead DEF OnTheWay
<1> QED BY <1>1, <1>2, <1>3, LiteralsHold

\* Its match, with what dst holds of the text.
LEMMA MatchStep ==
  ASSUME OnTheWay, op = Pos + Run, current < Len(sequences)
  PROVE  /\ srcSize \in Nat /\ dst \in Memory(srcSize) /\ op \in Nat /\ Size \in Nat /\ Off \in Nat
         /\ oend \in Nat /\ Off <= op
         /\ Matches(dst, Wanted(sequences), op, op + Size, Off)
<1>1. /\ srcSize \in Nat /\ dst \in Memory(srcSize) /\ Holds(dst, Wanted(sequences), op)
  BY DEF OnTheWay, PackInv, Encoding, Decoding
<1>2. /\ Pos \in Nat /\ Run \in Nat /\ Size \in Nat /\ Size >= 4 /\ Off \in Nat /\ Off >= 1
      /\ Off <= Pos + Run /\ oend \in Nat
  BY Ahead DEF OnTheWay
<1>3. Repeats(Wanted(sequences), op, op + Size, Off)
  BY TextAhead DEF OnTheWay
<1>4. op + Size >= op + 4 /\ op \in Nat
  BY <1>2
<1> QED BY <1>1, <1>2, <1>3, <1>4 DEF Matches

LEMMA EnterDecodes ==
  ASSUME OnTheWay, Follows,
         Enter(Run, IF Len(Sequence) = 3 THEN Size ELSE MINMATCH)
  PROVE  PackInv'
<1> DEFINE m == IF Len(Sequence) = 3 THEN Size ELSE MINMATCH
<1>1. /\ at = "entry" /\ current' = current /\ UNCHANGED <<iend, oend>>
      /\ ip' = ip /\ op' = op /\ dst' = dst
  BY DEF Enter, Follows, Frame
<1>2. current = 1 /\ ip = 0 /\ op = 0 /\ current \in 1 .. Len(sequences)
  BY <1>1 DEF OnTheWay, Decoding, OnWay
<1>3. /\ sequences \in Seq(Runs) /\ srcSize \in Nat /\ oend = srcSize
      /\ srcSize = TextAt(sequences, Len(sequences) + 1)
      /\ Copied(dst, srcSize, Wanted(sequences), op)
  BY DEF OnTheWay, PackInv, Encoding, Decoding, Complete, Copied
<1>4. Place = 0 /\ Pos = 0
  BY <1>2, <1>3, Places DEF Place, Pos
<1>5. /\ iend \in Nat /\ iend > 0
      /\ oend = 0 => iend = 1 /\ Run = 0 /\ Len(Sequence) = 1
  <2>1. CASE current = Len(sequences)
    <3>1. /\ iend \in Nat /\ oend \in Nat /\ Run \in Nat /\ RunExtra \in Nat
          /\ Place + 1 + RunExtra + Run = iend /\ Pos + Run = oend /\ Len(Sequence) = 1
          /\ Run < 15 => RunExtra = 0
      BY <2>1, Ahead DEF OnTheWay
    <3> QED BY <1>4, <3>1
  <2>2. CASE current < Len(sequences)
    <3>1. /\ iend \in Nat /\ oend \in Nat /\ Run \in Nat /\ RunExtra \in Nat /\ SizeExtra \in Nat
          /\ Place + 1 + RunExtra + Run + 2 + SizeExtra + 6 <= iend /\ Pos + Run <= oend - 12
      BY <2>2, Ahead DEF OnTheWay
    <3> QED BY <1>4, <3>1
  <2>3. current = Len(sequences) \/ current < Len(sequences)
    <3> DEFINE n == Len(sequences)
    <3>1. n \in Nat /\ current \in 1 .. n
      BY <1>2, <1>3
    <3> HIDE DEF n
    <3>2. current = n \/ current < n
      BY <3>1
    <3> QED BY <3>2 DEF n
  <2> QED BY <2>1, <2>2, <2>3
<1>6. at' \in {"fast", "safe"} \/ (at' = "accepted" /\ oend = 0)
  <2>1. CASE oend = 0
    <3>1. m = 4
      BY <1>5, <2>1
    <3> HIDE DEF m
    <3>2. at' = "accepted"
      BY <1>5, <2>1, <3>1 DEF Enter, m
    <3> QED BY <2>1, <3>2
  <2>2. CASE oend > 0
    BY <1>3, <1>5, <2>2 DEF Enter
  <2> QED BY <1>3, <2>1, <2>2
<1>7. OnWay(sequences, current', at', ip', op', length', offset', match')
  <2>1. BlockAt(sequences, current) = 0 /\ TextAt(sequences, current) = 0
    BY <1>4 DEF Place, Pos
  <2> QED BY <1>1, <1>2, <1>3, <1>6, <2>1 DEF OnWay
<1> QED BY <1>1, <1>2, <1>3, <1>7, Moves

\* The two ways on from a token: to the match, or to safe_literal_copy.
LEMMA TakeLiteralsDecodes ==
  ASSUME OnTheWay, Follows, at # "entry", op = Pos, current < Len(sequences),
         NEW first, first = Place + 1 + RunExtra, NEW read, NEW placed,
         NEW label \in {"fast_match", "shortcut", "safe_match"},
         TakeLiterals(Run, first, read, placed, label)
  PROVE  PackInv'
<1>1. /\ dst' = Literals(dst, op, Run, placed) /\ ip' = first + Run /\ op' = op + Run
      /\ at' = label /\ UNCHANGED <<iend, oend>> /\ current' = current
  BY DEF TakeLiterals, Frame, Follows
<1>2. Copied(dst', srcSize, Wanted(sequences), op')
  BY <1>1, LiteralsStep
<1>3. current' \in 1 .. Len(sequences)
  BY <1>1 DEF OnTheWay, Decoding
<1>4. ip' = BlockAt(sequences, current) + 1 + LitExtra(sequences[current][1]) + sequences[current][1]
      /\ op' = TextAt(sequences, current) + sequences[current][1]
  BY <1>1 DEF Place, RunExtra, Run, Pos
<1>5. OnWay(sequences, current', at', ip', op', length', offset', match')
  BY <1>1, <1>4 DEF OnWay
<1> QED BY <1>1, <1>2, <1>3, <1>5, Moves

LEMMA DeferLiteralsDecodes ==
  ASSUME OnTheWay, Follows, op = Pos, NEW first, first = Place + 1 + RunExtra,
         DeferLiterals(Run, first)
  PROVE  PackInv'
<1>1. /\ dst' = dst /\ ip' = first /\ op' = op /\ length' = Run
      /\ at' = "safe_literal_copy" /\ UNCHANGED <<iend, oend>> /\ current' = current
  BY DEF DeferLiterals, Frame, Follows
<1>2. Copied(dst', srcSize, Wanted(sequences), op')
  BY <1>1 DEF OnTheWay, Decoding, Copied
<1>3. current' \in 1 .. Len(sequences)
  BY <1>1 DEF OnTheWay, Decoding
<1>4. OnWay(sequences, current', at', ip', op', length', offset', match')
  BY <1>1 DEF OnWay, Place, RunExtra, Run, Pos
<1> QED BY <1>1, <1>2, <1>3, <1>4, Moves

\* From a match, on to the next token or to safe_match_copy.
LEMMA NextSequence ==
  ASSUME OnTheWay, Follows, at # "entry", current < Len(sequences), UNCHANGED <<iend, oend>>,
         at' \in {"fast", "safe"}, ip' = BlockAt(sequences, current + 1), op' = Pos + Run + Size,
         Copied(dst', srcSize, Wanted(sequences), op')
  PROVE  PackInv'
<1>1. current' = current + 1
  BY DEF Follows
<1>2. current' \in 1 .. Len(sequences) /\ op' = TextAt(sequences, current')
  BY <1>1, Ahead DEF OnTheWay
<1>3. OnWay(sequences, current', at', ip', op', length', offset', match')
  BY <1>1, <1>2 DEF OnWay
<1> QED BY <1>2, <1>3, Moves

LEMMA TakeMatchDecodes ==
  ASSUME OnTheWay, Follows, at # "entry", op = Pos + Run, current < Len(sequences),
         NEW first, first = BlockAt(sequences, current + 1), NEW placed, NEW copied,
         Copied(copied, srcSize, Wanted(sequences), op + Size), NEW label \in {"fast", "safe"},
         TakeMatch(Off, Size, first, placed, copied, label)
  PROVE  PackInv'
<1>1. /\ dst' = copied /\ ip' = first /\ op' = op + Size
      /\ at' = label /\ UNCHANGED <<iend, oend>>
  BY DEF TakeMatch, Frame
<1>2. op' = Pos + Run + Size
  BY <1>1
<1> QED BY <1>1, <1>2, NextSequence

LEMMA DeferMatchDecodes ==
  ASSUME OnTheWay, Follows, op = Pos + Run, current < Len(sequences),
         NEW first, first = BlockAt(sequences, current + 1), DeferMatch(Off, Size, first)
  PROVE  PackInv'
<1>1. /\ dst' = dst /\ ip' = first /\ op' = op /\ length' = Size /\ offset' = Off
      /\ match' = op - Off /\ at' = "safe_match_copy" /\ UNCHANGED <<iend, oend>>
      /\ current' = current
  BY DEF DeferMatch, Frame, Follows
<1>2. Copied(dst', srcSize, Wanted(sequences), op')
  BY <1>1 DEF OnTheWay, Decoding, Copied
<1>3. current' \in 1 .. Len(sequences)
  BY <1>1 DEF OnTheWay, Decoding
<1>4. OnWay(sequences, current', at', ip', op', length', offset', match')
  BY <1>1 DEF OnWay, Run, Pos, Off, Size
<1> QED BY <1>1, <1>2, <1>3, <1>4, Moves

\* What the loops find at a token, or behind its literals.
LEMMA AtLabel ==
  ASSUME OnTheWay
  PROVE  /\ at \in {"fast", "safe"} => ip = Place /\ op = Pos
         /\ at = "safe_literal_copy" => ip = Place + 1 + RunExtra /\ op = Pos /\ length = Run
         /\ at \in {"fast_match", "shortcut", "safe_match"} =>
              /\ current < Len(sequences)
              /\ ip = Place + 1 + RunExtra + Run /\ op = Pos + Run
         /\ at = "safe_match_copy" =>
              /\ current < Len(sequences)
              /\ ip = BlockAt(sequences, current + 1) /\ op = Pos + Run
              /\ length = Size /\ offset = Off /\ match = op - Off
         /\ current = Len(sequences) \/ current < Len(sequences)
<1>1. OnWay(sequences, current, at, ip, op, length, offset, match)
      /\ current \in 1 .. Len(sequences) /\ sequences \in Seq(Runs)
  BY DEF OnTheWay, PackInv, Encoding, Decoding
<1>2. current = Len(sequences) \/ current < Len(sequences)
  <2>1. Len(sequences) \in Nat
    BY <1>1
  <2> QED BY <1>1, <2>1
<1> QED BY <1>1, <1>2 DEF OnWay, Place, Pos, Run, RunExtra, Off, Size

\* The length of the literals is never refused.
LEMMA RunIsRead ==
  ASSUME OnTheWay, ip = Place
  PROVE  Run >= 15 => ReadsLength(ip + 1, RunExtra, LitLimit, TRUE)
<1>1. /\ Place \in Nat /\ Run \in Nat /\ RunExtra \in Nat /\ iend \in Nat
      /\ Run >= 15 => RunExtra >= 1
  BY Ahead DEF OnTheWay
<1>2. Place + 1 + RunExtra + Run <= iend
  <2>1. current = Len(sequences) => Place + 1 + RunExtra + Run = iend
    BY Ahead DEF OnTheWay
  <2>2. current < Len(sequences) =>
          SizeExtra \in Nat /\ Place + 1 + RunExtra + Run + 2 + SizeExtra + 6 <= iend
    BY Ahead DEF OnTheWay
  <2> QED BY <1>1, <2>1, <2>2, AtLabel
<1> QED BY <1>1, <1>2 DEF ReadsLength, LitLimit

\* Nor is the length of a match.
LEMMA SizeIsRead ==
  ASSUME OnTheWay, ip = Place + 1 + RunExtra + Run, current < Len(sequences)
  PROVE  /\ ~LongMatchRejected(ip + 2, Size)
         /\ ip + 2 + MatchExtra(Size) = BlockAt(sequences, current + 1)
<1>1. /\ Place \in Nat /\ Run \in Nat /\ RunExtra \in Nat /\ iend \in Nat /\ SizeExtra \in Nat
      /\ Place + 1 + RunExtra + Run + 2 + SizeExtra + 6 <= iend
      /\ BlockAt(sequences, current + 1) = Place + 1 + RunExtra + Run + 2 + SizeExtra
  BY Ahead DEF OnTheWay
<1>2. MatchExtra(Size) = SizeExtra
  BY DEF SizeExtra
<1>3. ip + 2 + SizeExtra <= MatchLimit
  BY <1>1 DEF MatchLimit
<1> QED BY <1>1, <1>2, <1>3 DEF LongMatchRejected, ReadsLength

\* Behind the token of the last sequence there is no room for a copy ahead.
LEMMA LastIsNear ==
  ASSUME OnTheWay, op = Pos
  PROVE  /\ current = Len(sequences) => op + Run = oend /\ Place + 1 + RunExtra + Run = iend
         /\ Place \in Nat /\ Run \in Nat /\ RunExtra \in Nat /\ iend \in Nat /\ oend \in Nat
         /\ Run < 15 => RunExtra = 0
BY Ahead DEF OnTheWay

LEMMA FastLiteralsDecodes ==
  ASSUME OnTheWay, Follows, FastLiterals(Run)
  PROVE  PackInv'
<1> DEFINE first == Place + 1 + RunExtra
<1>1. at = "fast" /\ ip = Place /\ op = Pos
  BY AtLabel DEF FastLiterals
<1>2. /\ current = Len(sequences) => op + Run = oend /\ first + Run = iend
      /\ Place \in Nat /\ Run \in Nat /\ RunExtra \in Nat /\ iend \in Nat /\ oend \in Nat
      /\ Run < 15 => RunExtra = 0
  BY <1>1, LastIsNear
<1>3. Run >= 15 => ReadsLength(ip + 1, RunExtra, LitLimit, TRUE)
  BY <1>1, RunIsRead
<1>4. ip + 1 + LitExtra(Run) = first /\ LitExtra(Run) = RunExtra
  BY <1>1 DEF RunExtra
<1> HIDE DEF first
<1>5. \/ DeferLiterals(Run, first)
      \/ /\ Run >= 15 /\ FastWildFits(Run, first)
         /\ TakeLiterals(Run, first, CopyEnd(first, Run, 32), CopyEnd(op, Run, 32), "fast_match")
      \/ /\ Run < 15 /\ first <= iend - 17
         /\ TakeLiterals(Run, first, first + 16, op + 16, "fast_match")
  <2>1. CASE Run >= 15
    <3>1. \/ /\ FastWildFits(Run, first)
             /\ TakeLiterals(Run, first, CopyEnd(first, Run, 32), CopyEnd(op, Run, 32), "fast_match")
          \/ DeferLiterals(Run, first)
      BY <1>3, <1>4, <2>1, Zenon DEF FastLiterals
    <3> QED BY <2>1, <3>1
  <2>2. CASE ~(Run >= 15)
    <3>1. \/ /\ first <= iend - (16 + 1)
             /\ TakeLiterals(Run, first, first + 16, op + 16, "fast_match")
          \/ DeferLiterals(Run, first)
      BY <1>4, <2>2, Zenon DEF FastLiterals
    <3> QED BY <1>2, <2>2, <3>1
  <2> QED BY <2>1, <2>2
<1>6. CASE DeferLiterals(Run, first)
  BY <1>1, <1>6, DeferLiteralsDecodes DEF first
<1>7. CASE /\ Run >= 15 /\ FastWildFits(Run, first)
           /\ TakeLiterals(Run, first, CopyEnd(first, Run, 32), CopyEnd(op, Run, 32), "fast_match")
  <2>1. current # Len(sequences)
    BY <1>2, <1>7 DEF FastWildFits
  <2>2. current < Len(sequences)
    BY <2>1, AtLabel
  <2> QED BY <1>1, <1>7, <2>2, TakeLiteralsDecodes DEF first
<1>8. CASE /\ Run < 15 /\ first <= iend - 17
           /\ TakeLiterals(Run, first, first + 16, op + 16, "fast_match")
  <2>1. current # Len(sequences)
    BY <1>2, <1>8 DEF first
  <2>2. current < Len(sequences)
    BY <2>1, AtLabel
  <2> QED BY <1>1, <1>8, <2>2, TakeLiteralsDecodes DEF first
<1> QED BY <1>5, <1>6, <1>7, <1>8

LEMMA SafeLiteralsDecodes ==
  ASSUME OnTheWay, Follows, SafeLiterals(Run)
  PROVE  PackInv'
<1> DEFINE first == Place + 1 + RunExtra
<1>1. at = "safe" /\ ip = Place /\ op = Pos
  BY AtLabel DEF SafeLiterals
<1>2. /\ current = Len(sequences) => op + Run = oend /\ first + Run = iend
      /\ Place \in Nat /\ Run \in Nat /\ RunExtra \in Nat /\ iend \in Nat /\ oend \in Nat
      /\ Run < 15 => RunExtra = 0
  BY <1>1, LastIsNear
<1>3. Run >= 15 => ReadsLength(ip + 1, RunExtra, LitLimit, TRUE)
  BY <1>1, RunIsRead
<1>4. ip + 1 + LitExtra(Run) = first /\ LitExtra(Run) = RunExtra
  BY <1>1 DEF RunExtra
<1> HIDE DEF first
<1>5. \/ DeferLiterals(Run, first)
      \/ /\ Run < 15 /\ ShortcutFits
         /\ TakeLiterals(Run, first, first + 16, op + 16, "shortcut")
  BY <1>2, <1>3, <1>4 DEF SafeLiterals
<1>6. CASE DeferLiterals(Run, first)
  BY <1>1, <1>6, DeferLiteralsDecodes DEF first
<1>7. CASE /\ Run < 15 /\ ShortcutFits
           /\ TakeLiterals(Run, first, first + 16, op + 16, "shortcut")
  <2>1. current # Len(sequences)
    BY <1>1, <1>2, <1>7 DEF ShortcutFits, first
  <2>2. current < Len(sequences)
    BY <2>1, AtLabel
  <2> QED BY <1>1, <1>7, <2>2, TakeLiteralsDecodes DEF first
<1> QED BY <1>5, <1>6, <1>7

LEMMA SafeLiteralCopyDecodes ==
  ASSUME OnTheWay, Follows, SafeLiteralCopy
  PROVE  PackInv'
<1> DEFINE first == Place + 1 + RunExtra
<1>1. at = "safe_literal_copy" /\ ip = first /\ op = Pos /\ length = Run
  BY AtLabel DEF SafeLiteralCopy
<1>2. /\ current = Len(sequences) => op + Run = oend /\ first + Run = iend
      /\ Place \in Nat /\ Run \in Nat /\ RunExtra \in Nat /\ iend \in Nat /\ oend \in Nat
  BY <1>1, LastIsNear
<1>3. CASE current < Len(sequences)
  <2>1. /\ Pos \in Nat /\ SizeExtra \in Nat /\ Pos + Run <= oend - 12
        /\ Place + 1 + RunExtra + Run + 2 + SizeExtra + 6 <= iend
    BY <1>3, Ahead DEF OnTheWay
  <2>2. ~LastRunOnly
    BY <1>1, <1>2, <2>1 DEF LastRunOnly
  <2>3. TakeLiterals(Run, first, CopyEnd(ip, length, 8), CopyEnd(op, length, 8), "safe_match")
    BY <1>1, <2>2 DEF SafeLiteralCopy
  <2> QED BY <1>1, <1>3, <2>3, TakeLiteralsDecodes
<1>4. CASE current = Len(sequences)
  <2>1. LastRunOnly /\ ip + length = iend /\ op + length = oend
    BY <1>1, <1>2, <1>4 DEF LastRunOnly
  <2>2. TakeLiterals(Run, first, ip + length, op + length, "accepted")
    BY <1>1, <1>2, <2>1 DEF SafeLiteralCopy
  <2> HIDE DEF first
  <2>3. /\ dst' = Literals(dst, op, Run, op + length) /\ op' = op + Run
        /\ at' = "accepted" /\ UNCHANGED <<iend, oend>> /\ current' = current
    BY <2>2 DEF TakeLiterals, Frame, Follows
  <2>4. Copied(dst', srcSize, Wanted(sequences), op')
    BY <1>1, <2>3, LiteralsStep
  <2>5. op' = TextAt(sequences, Len(sequences) + 1) /\ current' \in 1 .. Len(sequences)
    BY <1>2, <1>4, <2>3 DEF OnTheWay, PackInv, Encoding, Decoding, Complete
  <2>6. OnWay(sequences, current', at', ip', op', length', offset', match')
    BY <2>3, <2>5 DEF OnWay
  <2> QED BY <2>3, <2>4, <2>5, <2>6, Moves
<1> QED BY <1>3, <1>4, AtLabel

LEMMA FastMatchDecodes ==
  ASSUME OnTheWay, Follows, FastMatch(Off, Size)
  PROVE  PackInv'
<1> DEFINE first == BlockAt(sequences, current + 1)
<1>1. /\ at = "fast_match" /\ ip = Place + 1 + RunExtra + Run /\ op = Pos + Run
      /\ current < Len(sequences)
  BY AtLabel DEF FastMatch
<1>2. ~LongMatchRejected(ip + 2, Size) /\ ip + 2 + MatchExtra(Size) = first
  BY <1>1, SizeIsRead
<1>3. /\ srcSize \in Nat /\ dst \in Memory(srcSize) /\ op \in Nat /\ Size \in Nat /\ Off \in Nat
      /\ Off <= op /\ Matches(dst, Wanted(sequences), op, op + Size, Off)
  BY <1>1, MatchStep
<1> HIDE DEF first
<1>4. \/ DeferMatch(Off, Size, first)
      \/ /\ Size - 4 < 15 /\ Off >= 8
         /\ TakeMatch(Off, Size, first, op + 18, Eighteen(dst, op, op - Off), "fast")
      \/ TakeMatch(Off, Size, first, FastCopyEnd(Size, Off), FastCopy(Size, Off), "fast")
  BY <1>2, <1>3 DEF FastMatch, ShortMatch
<1>5. CASE DeferMatch(Off, Size, first)
  BY <1>1, <1>5, DeferMatchDecodes DEF first
<1>6. CASE /\ Size - 4 < 15 /\ Off >= 8
           /\ TakeMatch(Off, Size, first, op + 18, Eighteen(dst, op, op - Off), "fast")
  <2>1. Copied(Eighteen(dst, op, op - Off), srcSize, Wanted(sequences), op + Size)
    <3>1. Off >= 8 /\ Size <= 18
      BY <1>3, <1>6
    <3> QED BY <1>3, <3>1, EighteenHolds
  <2> QED BY <1>1, <1>6, <2>1, TakeMatchDecodes DEF first
<1>7. CASE TakeMatch(Off, Size, first, FastCopyEnd(Size, Off), FastCopy(Size, Off), "fast")
  <2>1. Copied(FastCopy(Size, Off), srcSize, Wanted(sequences), op + Size)
    BY <1>3, FastCopyHolds
  <2> QED BY <1>1, <1>7, <2>1, TakeMatchDecodes DEF first
<1> QED BY <1>4, <1>5, <1>6, <1>7

LEMMA SafeMatchDecodes ==
  ASSUME OnTheWay, Follows, SafeMatch(Off, Size)
  PROVE  PackInv'
<1> DEFINE first == BlockAt(sequences, current + 1)
<1>1. /\ at \in {"shortcut", "safe_match"} /\ ip = Place + 1 + RunExtra + Run /\ op = Pos + Run
      /\ current < Len(sequences)
  BY AtLabel DEF SafeMatch
<1>2. ~LongMatchRejected(ip + 2, Size) /\ ip + 2 + MatchExtra(Size) = first
  BY <1>1, SizeIsRead
<1>3. /\ srcSize \in Nat /\ dst \in Memory(srcSize) /\ op \in Nat /\ Size \in Nat /\ Off \in Nat
      /\ Off <= op /\ Matches(dst, Wanted(sequences), op, op + Size, Off)
  BY <1>1, MatchStep
<1> HIDE DEF first
<1>4. \/ DeferMatch(Off, Size, first)
      \/ /\ Size - 4 < 15 /\ Off >= 8
         /\ TakeMatch(Off, Size, first, op + 18, Eighteen(dst, op, op - Off), "safe")
  BY <1>2, <1>3 DEF SafeMatch, ShortMatch
<1>5. CASE DeferMatch(Off, Size, first)
  BY <1>1, <1>5, DeferMatchDecodes DEF first
<1>6. CASE /\ Size - 4 < 15 /\ Off >= 8
           /\ TakeMatch(Off, Size, first, op + 18, Eighteen(dst, op, op - Off), "safe")
  <2>1. Copied(Eighteen(dst, op, op - Off), srcSize, Wanted(sequences), op + Size)
    <3>1. Off >= 8 /\ Size <= 18
      BY <1>3, <1>6
    <3> QED BY <1>3, <3>1, EighteenHolds
  <2> QED BY <1>1, <1>6, <2>1, TakeMatchDecodes DEF first
<1> QED BY <1>4, <1>5, <1>6

LEMMA SafeMatchCopyDecodes ==
  ASSUME OnTheWay, Follows, SafeMatchCopy
  PROVE  PackInv'
<1>1. /\ at = "safe_match_copy" /\ ip = BlockAt(sequences, current + 1) /\ op = Pos + Run
      /\ current < Len(sequences) /\ length = Size /\ offset = Off /\ match = op - Off
  BY AtLabel DEF SafeMatchCopy
<1>2. /\ srcSize \in Nat /\ dst \in Memory(srcSize) /\ op \in Nat /\ length \in Nat
      /\ offset \in Nat /\ oend \in Nat /\ offset <= op /\ match = op - offset
      /\ Matches(dst, Wanted(sequences), op, op + length, offset)
  BY <1>1, MatchStep
<1>3. op + length <= oend - 5
  BY <1>1, Ahead DEF OnTheWay
<1>4. ~(match < 0) /\ ~(op + length > oend - LASTLITERALS)
  BY <1>2, <1>3
<1>5. /\ dst' = IF NearEnd THEN EndCopy ELSE MidCopy
      /\ op' = op + length /\ at' = "safe" /\ ip' = ip /\ UNCHANGED <<iend, oend>>
  BY <1>4 DEF SafeMatchCopy, Frame
<1>6. Copied(EndCopy, srcSize, Wanted(sequences), op + length)
  BY <1>2, EndCopyHolds
<1>7. Copied(MidCopy, srcSize, Wanted(sequences), op + length)
  BY <1>2, MidCopyHolds
<1>8. Copied(dst', srcSize, Wanted(sequences), op')
  BY <1>5, <1>6, <1>7
<1>9. op' = Pos + Run + Size
  BY <1>1, <1>5
<1> QED BY <1>1, <1>5, <1>8, <1>9, NextSequence

\* A step of the decoder, with the lengths that the encoder wrote.
LEMMA DecodePackInv == PackInv /\ DecodePacked => PackInv'
<1> SUFFICES ASSUME PackInv, DecodePacked PROVE PackInv'
  OBVIOUS
<1>1. /\ origin = "packed" /\ current > 0 /\ Follows
      /\ IF Len(Sequence) = 3 THEN NextDecoder({Sequence[1]}, {Sequence[2]}, {Sequence[3]})
         ELSE NextDecoder({Sequence[1]}, {0}, {MINMATCH})
  BY DEF DecodePacked, Follows
<1>2. OnTheWay
  BY <1>1 DEF PackInv, OnTheWay
<1>3. Sequence = sequences[current]
  BY <1>2, Ahead DEF OnTheWay
<1>4. Sequence[1] = Run /\ Sequence[2] = Off /\ Sequence[3] = Size
  BY <1>3 DEF Run, Off, Size
<1>5. \/ Enter(Run, IF Len(Sequence) = 3 THEN Size ELSE MINMATCH)
      \/ ReadLiterals(Run)
      \/ Len(Sequence) = 3 /\ ReadMatch(Off, Size)
      \/ Len(Sequence) # 3 /\ ReadMatch(0, MINMATCH)
      \/ Copy
  BY <1>1, <1>4 DEF NextDecoder
<1>6. CASE Len(Sequence) # 3 /\ ReadMatch(0, MINMATCH)
  <2>1. at \in {"fast_match", "shortcut", "safe_match"}
    BY <1>6 DEF ReadMatch, FastMatch, SafeMatch
  <2>2. current < Len(sequences)
    BY <1>2, <2>1, AtLabel
  <2>3. Len(Sequence) = 3
    BY <1>2, <2>2, Ahead DEF OnTheWay
  <2> QED BY <1>6, <2>3
<1> QED
  BY <1>1, <1>2, <1>5, <1>6, EnterDecodes, FastLiteralsDecodes, SafeLiteralsDecodes,
     FastMatchDecodes, SafeMatchDecodes, SafeLiteralCopyDecodes, SafeMatchCopyDecodes
  DEF ReadLiterals, ReadMatch, Copy

\* The unpacker starts with what the header says of the block.
LEMMA UnpackPackInv == PackInv /\ Unpack => PackInv'
<1> SUFFICES ASSUME PackInv, Unpack, origin = "packed" PROVE PackInv'
  BY DEF PackInv, Unpack
<1>1. /\ Encoding /\ at = "entry" /\ ip = 0 /\ op = 0 /\ encoder = "encoded"
  BY DEF PackInv, Decoding, Unpack
<1>2. /\ srcSize' = srcSize /\ sequences' = sequences /\ written' = written
      /\ encoder' = encoder /\ anchor' = anchor /\ origin' = origin
      /\ iend' = written /\ oend' = srcSize /\ dst' = [i \in 0 .. srcSize - 1 |-> Junk]
      /\ current' = 1 /\ at' = at /\ ip' = ip /\ op' = op
  BY DEF Unpack, encoderVars
<1>3. /\ srcSize \in Nat /\ sequences \in Seq(Runs) /\ Complete(sequences, srcSize, written)
  BY <1>1 DEF Encoding
<1>4. dst' \in Memory(srcSize) /\ Holds(dst', Wanted(sequences), 0)
  BY <1>2, <1>3 DEF Memory, Holds
<1>5. 1 \in 1 .. Len(sequences)
  BY <1>3 DEF Complete
<1>6. OnWay(sequences, 1, at', ip', op', length', offset', match')
  BY <1>1, <1>2 DEF OnWay
<1>7. Decoding'
  BY <1>1, <1>2, <1>4, <1>5, <1>6 DEF Decoding
<1>8. Encoding'
  BY <1>1, <1>2 DEF Encoding
<1> QED BY <1>7, <1>8 DEF PackInv

LEMMA PackInductive == SpecLz4 => []PackInv
<1>1. PackInv /\ [NextLz4]_lz4Vars => PackInv'
  <2> SUFFICES ASSUME PackInv, [NextLz4]_lz4Vars PROVE PackInv'
    OBVIOUS
  <2>1. CASE DecodeForeign
    BY <2>1 DEF DecodeForeign, PackInv
  <2>2. CASE UNCHANGED lz4Vars
    BY <2>2 DEF lz4Vars, encoderVars, decoderVars, PackInv, Encoding, Decoding
  <2> QED BY <2>1, <2>2, CompressPackInv, UnpackPackInv, DecodePackInv DEF NextLz4
<1> QED BY <1>1, InitPackInv, PTL DEF SpecLz4

\* What a packer has compressed, whatever matches it chose, the unpacker turns back into
\* the same bytes, byte for byte: LZ4_decompress_generic never refuses it, fills the
\* buffer to its end and leaves in it the text that the sequences stand for, through
\* each of its loops, shortcuts and overlapping copies (lz4.c:2025).
THEOREM DecodedHolds == SpecLz4 => []Decoded
<1>1. PackInv => Decoded
  <2> SUFFICES ASSUME PackInv, origin = "packed"
               PROVE  /\ at # "rejected"
                      /\ at = "accepted" =>
                           op = srcSize /\ \A k \in 1 .. srcSize : dst[k - 1] = Text[k]
    BY DEF Decoded
  <2>1. at = "entry" \/ Decoding
    BY DEF PackInv
  <2>2. CASE Decoding
    <3>1. OnWay(sequences, current, at, ip, op, length, offset, match)
          /\ srcSize = TextAt(sequences, Len(sequences) + 1)
          /\ srcSize \in Nat /\ dst \in Memory(srcSize) /\ Holds(dst, Wanted(sequences), op)
      BY <2>2 DEF Decoding, PackInv, Encoding, Complete
    <3>2. at # "rejected" /\ (at = "accepted" => op = srcSize)
      BY <3>1 DEF OnWay
    <3>3. ASSUME at = "accepted", NEW k \in 1 .. srcSize PROVE dst[k - 1] = Text[k]
      <4>1. k - 1 \in DOMAIN dst /\ k - 1 < op /\ k - 1 \in Nat /\ (k - 1) + 1 = k
        BY <3>1, <3>2, <3>3 DEF Memory
      <4>2. dst[k - 1] = Wanted(sequences)[k - 1]
        BY <3>1, <4>1 DEF Holds
      <4>3. Wanted(sequences)[k - 1] = TextOf(sequences)[k]
        BY <4>1 DEF Wanted
      <4>4. Text = TextOf(sequences)
        BY DEF Text, TextOf
      <4> QED BY <4>2, <4>3, <4>4
    <3> QED BY <3>2, <3>3
  <2> QED BY <2>1, <2>2
<1> QED BY <1>1, PackInductive, PTL

USE BitsAssumption, PolyAssumption

-----------------------------------------------------------------------------
(* Recursion.                                                              *)

(* Strict only tells TLC when to evaluate.                                 *)
LEMMA StrictIs == ASSUME NEW f PROVE Strict(f) = f
BY Zenon DEF Strict

(* What Iterates is, when the steps stay in a set.                         *)
StepsIn(n, S) == [1 .. n -> [S -> S]]

Iterated(u, n, S, first, step) ==
  /\ u \in [0 .. n -> S]
  /\ u[0] = first
  /\ \A i \in 1 .. n : u[i] = step[i][u[i - 1]]

(* The recursion of Iterates has a solution, and it is the one CHOOSE      *)
(* takes.                                                                  *)
LEMMA IteratesAre ==
  \A n, S, first, step : n \in Nat /\ first \in S /\ step \in StepsIn(n, S) =>
    Iterated(Iterates(n, first, step), n, S, first, step)
<1> SUFFICES ASSUME NEW n, NEW S, NEW first, NEW step, n \in Nat, first \in S, step \in [1 .. n -> [S -> S]]
             PROVE  Iterated(Iterates(n, first, step), n, S, first, step)
  BY DEF StepsIn
<1> DEFINE u == Iterates(n, first, step)
<1>1. PICK f \in [0 .. n -> S] : Recurs(f, n, first, step) /\ \A v : Recurs(v, n, first, step) => v = f
  BY Recursion
<1>2. u = CHOOSE v : Recurs(v, n, first, step)
  BY DEF Iterates, Recurs
<1>3. Recurs(u, n, first, step)
  BY <1>1, <1>2, Zenon
<1>4. u \in [0 .. n -> S]
  BY <1>1, <1>3
<1>5. \A i \in 0 .. n : u[i] = IF i = 0 THEN first ELSE step[i][u[i - 1]]
  <2> HIDE DEF u
  <2> QED BY <1>3 DEF Recurs
<1>6. 0 \in 0 .. n /\ \A i \in 1 .. n : i \in 0 .. n /\ i # 0
  OBVIOUS
<1> HIDE DEF u
<1>7. u[0] = first /\ \A i \in 1 .. n : u[i] = step[i][u[i - 1]]
  BY <1>5, <1>6, Zenon
<1> QED BY <1>4, <1>7 DEF u, Iterated

(* The recursion of Pow2.                                                  *)
LEMMA Pow2Is ==
  /\ Pow2 \in [0 .. ByteBits -> Nat] /\ Pow2[0] = 1
  /\ \A n \in 1 .. ByteBits : Pow2[n] = 2 * Pow2[n - 1]
<1> DEFINE step == [n \in 1 .. ByteBits |-> [x \in Nat |-> 2 * x]]
           R(u) == u = [n \in 0 .. ByteBits |-> IF n = 0 THEN 1 ELSE 2 * u[n - 1]]
<1>1. step \in [1 .. ByteBits -> [Nat -> Nat]]
  OBVIOUS
<1>2. PICK f \in [0 .. ByteBits -> Nat] : Recurs(f, ByteBits, 1, step)
  <2> HIDE DEF step
  <2>1. ByteBits \in Nat /\ 1 \in Nat
    OBVIOUS
  <2> QED BY <1>1, <2>1, Recursion
<1>3. \A n \in 0 .. ByteBits : f[n] = IF n = 0 THEN 1 ELSE 2 * f[n - 1]
  <2>1. f = [n \in 0 .. ByteBits |-> IF n = 0 THEN 1 ELSE step[n][f[n - 1]]]
    BY <1>2, Zenon DEF Recurs
  <2>2. \A n \in 0 .. ByteBits : n # 0 => n \in 1 .. ByteBits /\ f[n - 1] \in Nat
    OBVIOUS
  <2> QED BY <2>1, <2>2
<1>4. R(f)
  BY <1>2, <1>3
<1>5. R(Pow2)
  <2>1. Pow2 = CHOOSE u : R(u)
    BY DEF Pow2
  <2> QED BY <1>4, <2>1, Zenon
<1>6. \A n \in 0 .. ByteBits : Pow2[n] = IF n = 0 THEN 1 ELSE 2 * Pow2[n - 1]
  BY <1>5, Zenon
<1>7. Pow2[0] = 1 /\ \A n \in 1 .. ByteBits : Pow2[n] = 2 * Pow2[n - 1]
  BY <1>6
<1>8. \A n \in 0 .. ByteBits : Pow2[n] \in Nat
  <2> DEFINE G == {n \in 0 .. ByteBits : Pow2[n] \in Nat}
  <2>1. 0 \in G
    BY <1>7
  <2>2. \A n \in 0 .. ByteBits - 1 : n \in G => n + 1 \in G
    <3> SUFFICES ASSUME NEW n \in 0 .. ByteBits - 1, n \in G PROVE n + 1 \in G
      OBVIOUS
    <3>1. n + 1 \in 1 .. ByteBits /\ n + 1 \in 0 .. ByteBits /\ (n + 1) - 1 = n
      OBVIOUS
    <3>2. Pow2[n + 1] = 2 * Pow2[n]
      BY <1>7, <3>1
    <3> QED BY <3>1, <3>2
  <2> HIDE DEF G
  <2>3. 0 .. ByteBits \subseteq G
    BY <2>1, <2>2, UpTo
  <2> QED BY <2>3 DEF G
<1>9. DOMAIN Pow2 = 0 .. ByteBits /\ Pow2 = [n \in 0 .. ByteBits |-> Pow2[n]]
  BY <1>5, <1>6
<1> HIDE DEF R
<1>10. Pow2 \in [0 .. ByteBits -> Nat]
  BY <1>8, <1>9
<1> QED BY <1>7, <1>10

-----------------------------------------------------------------------------
(* Exclusive or, bit by bit.                                               *)

(* The powers of two up to the number of bytes.                            *)
LEMMA QIs ==
  /\ \A n \in 0 .. ByteBits : Pow2[n] \in Nat /\ Pow2[n] >= 1
  /\ \A n \in 0 .. ByteBits : Pow2[n] <= Q
  /\ Q \in Nat /\ Q >= 2 /\ Q = 2 * Pow2[ByteBits - 1]
<1>1. \A n \in 0 .. ByteBits : Pow2[n] \in Nat
  BY Pow2Is
<1>2. \A n \in 0 .. ByteBits : Pow2[n] >= 1
  <2> DEFINE G == {n \in 0 .. ByteBits : Pow2[n] >= 1}
  <2>1. 0 \in G
    BY Pow2Is
  <2>2. \A n \in 0 .. ByteBits - 1 : n \in G => n + 1 \in G
    <3> SUFFICES ASSUME NEW n \in 0 .. ByteBits - 1, n \in G PROVE n + 1 \in G
      OBVIOUS
    <3>1. n + 1 \in 1 .. ByteBits /\ n + 1 \in 0 .. ByteBits /\ (n + 1) - 1 = n
      OBVIOUS
    <3>2. Pow2[n + 1] = 2 * Pow2[n] /\ Pow2[n] >= 1 /\ Pow2[n] \in Nat
      BY Pow2Is, <1>1, <3>1
    <3> QED BY <3>1, <3>2
  <2> HIDE DEF G
  <2>3. 0 .. ByteBits \subseteq G
    BY <2>1, <2>2, UpTo
  <2> QED BY <2>3 DEF G
<1>3. \A n \in 0 .. ByteBits : Pow2[n] <= Pow2[ByteBits]
  <2> DEFINE G == {d \in 0 .. ByteBits : Pow2[ByteBits - d] <= Pow2[ByteBits]}
  <2>1. 0 \in G
    BY <1>1
  <2>2. \A d \in 0 .. ByteBits - 1 : d \in G => d + 1 \in G
    <3> SUFFICES ASSUME NEW d \in 0 .. ByteBits - 1, d \in G PROVE d + 1 \in G
      OBVIOUS
    <3> DEFINE n == ByteBits - d
    <3>1. n \in 1 .. ByteBits /\ n \in 0 .. ByteBits /\ n - 1 \in 0 .. ByteBits /\ n - 1 = ByteBits - (d + 1)
          /\ ByteBits \in 0 .. ByteBits /\ d + 1 \in 0 .. ByteBits
      OBVIOUS
    <3>2. Pow2[n] <= Pow2[ByteBits]
      OBVIOUS
    <3> HIDE DEF n
    <3>3. Pow2[n] = 2 * Pow2[n - 1] /\ Pow2[n - 1] \in Nat /\ Pow2[ByteBits] \in Nat /\ Pow2[n] \in Nat
      BY <1>1, <3>1, Pow2Is
    <3>4. Pow2[n - 1] <= Pow2[ByteBits]
      BY <3>2, <3>3
    <3> QED BY <3>1, <3>4
  <2> HIDE DEF G
  <2>3. 0 .. ByteBits \subseteq G
    BY <2>1, <2>2, UpTo
  <2>4. \A n \in 0 .. ByteBits : ByteBits - n \in G /\ ByteBits - (ByteBits - n) = n
    BY <2>3
  <2> QED BY <2>4 DEF G
<1>4. ByteBits \in 1 .. ByteBits /\ ByteBits - 1 \in 0 .. ByteBits /\ ByteBits \in 0 .. ByteBits
  OBVIOUS
<1>5. Q = 2 * Pow2[ByteBits - 1]
  BY <1>4, Pow2Is DEF Q
<1>6. Q \in Nat /\ Q >= 2
  <2>1. Pow2[ByteBits - 1] \in Nat /\ Pow2[ByteBits - 1] >= 1
    BY <1>1, <1>2, <1>4
  <2> QED BY <1>5, <2>1
<1> QED BY <1>1, <1>2, <1>3, <1>5, <1>6 DEF Q

(* The half of a byte is one, and so is zero.                              *)
LEMMA Halves ==
  /\ 0 \in Byte /\ 1 \in Byte
  /\ \A a \in Byte : /\ a \in Nat /\ a < Q /\ a \div 2 \in Byte /\ a % 2 \in {0, 1}
                     /\ a = 2 * (a \div 2) + (a % 2)
BY QIs DEF Byte

XorParity(a, b) == IF a % 2 = b % 2 THEN 0 ELSE 1

(* The recursion of LowXor.                                                *)
LEMMA LowXorIs ==
  /\ \A a, b \in Byte : LowXor[0][a][b] = 0
  /\ \A n \in 1 .. ByteBits : \A a, b \in Byte :
       LowXor[n][a][b] = 2 * LowXor[n - 1][a \div 2][b \div 2] + XorParity(a, b)
  /\ \A n \in 0 .. ByteBits : LowXor[n] \in [Byte -> [Byte -> Nat]]
<1> DEFINE S == [Byte -> [Byte -> Nat]]
           more(f) == [a \in Byte |-> [b \in Byte |-> 2 * f[a \div 2][b \div 2] + XorParity(a, b)]]
           first == [a \in Byte |-> [b \in Byte |-> 0]]
           step == [n \in 1 .. ByteBits |-> [x \in S |-> more(x)]]
           R(u) == u = [n \in 0 .. ByteBits |->
                          [a \in Byte |-> [b \in Byte |->
                             IF n = 0 THEN 0
                             ELSE 2 * u[n - 1][a \div 2][b \div 2] + XorParity(a, b)]]]
<1>1. first \in S
  OBVIOUS
<1>2. \A x \in S : more(x) \in S
  <2> SUFFICES ASSUME NEW x \in S PROVE more(x) \in S
    OBVIOUS
  <2>1. \A a, b \in Byte : x[a \div 2][b \div 2] \in Nat
    BY Halves
  <2>2. \A a, b \in Byte : XorParity(a, b) \in Nat
    BY DEF XorParity
  <2>3. \A a, b \in Byte : 2 * x[a \div 2][b \div 2] + XorParity(a, b) \in Nat
    BY <2>1, <2>2
  <2> QED BY <2>3
<1>3. step \in [1 .. ByteBits -> [S -> S]]
  <2> HIDE DEF S, more
  <2> QED BY <1>2
<1>4. PICK f \in [0 .. ByteBits -> S] : Recurs(f, ByteBits, first, step)
  <2> HIDE DEF step, first, S
  <2> QED BY <1>1, <1>3, Recursion
<1>5. \A n \in 0 .. ByteBits : f[n] = IF n = 0 THEN first ELSE more(f[n - 1])
  <2>1. f = [n \in 0 .. ByteBits |-> IF n = 0 THEN first ELSE step[n][f[n - 1]]]
    BY <1>4, Zenon DEF Recurs
  <2> HIDE DEF more, first, S
  <2>2. \A n \in 0 .. ByteBits : n # 0 => n \in 1 .. ByteBits /\ f[n - 1] \in S
    OBVIOUS
  <2> QED BY <2>1, <2>2
<1>6. R(f)
  <2>1. \A n \in 0 .. ByteBits :
          f[n] = [a \in Byte |-> [b \in Byte |-> IF n = 0 THEN 0
                                    ELSE 2 * f[n - 1][a \div 2][b \div 2] + XorParity(a, b)]]
    <3> SUFFICES ASSUME NEW n \in 0 .. ByteBits
                 PROVE f[n] = [a \in Byte |-> [b \in Byte |-> IF n = 0 THEN 0
                                ELSE 2 * f[n - 1][a \div 2][b \div 2] + XorParity(a, b)]]
      OBVIOUS
    <3>1. CASE n = 0
      <4>1. f[n] = first
        <5> HIDE DEF first, more
        <5> QED BY <1>5, <3>1
      <4> QED BY <3>1, <4>1
    <3>2. CASE n # 0
      <4>1. f[n] = more(f[n - 1])
        <5> HIDE DEF first, more
        <5> QED BY <1>5, <3>2
      <4> QED BY <3>2, <4>1
    <3> QED BY <3>1, <3>2
  <2>2. f = [n \in 0 .. ByteBits |-> f[n]]
    OBVIOUS
  <2> QED BY <2>1, <2>2
<1>7. R(LowXor)
  <2>1. LowXor = CHOOSE u : R(u)
    BY DEF LowXor, XorParity
  <2> HIDE DEF R
  <2> QED BY <1>6, <2>1, Zenon
<1>8. \A n \in 0 .. ByteBits : LowXor[n] = IF n = 0 THEN first ELSE more(LowXor[n - 1])
  <2>1. \A n \in 0 .. ByteBits :
          LowXor[n] = [a \in Byte |-> [b \in Byte |-> IF n = 0 THEN 0
                           ELSE 2 * LowXor[n - 1][a \div 2][b \div 2] + XorParity(a, b)]]
    BY <1>7, Zenon
  <2> QED BY <2>1
<1>9. \A n \in 0 .. ByteBits : LowXor[n] \in S
  <2> HIDE DEF S, first, more
  <2> DEFINE G == {n \in 0 .. ByteBits : LowXor[n] \in S}
  <2>1. 0 \in G
    BY <1>1, <1>8
  <2>2. \A n \in 0 .. ByteBits - 1 : n \in G => n + 1 \in G
    <3> SUFFICES ASSUME NEW n \in 0 .. ByteBits - 1, n \in G PROVE n + 1 \in G
      OBVIOUS
    <3>1. n + 1 # 0 /\ n + 1 \in 0 .. ByteBits /\ (n + 1) - 1 = n
      OBVIOUS
    <3>2. LowXor[n + 1] = more(LowXor[n])
      BY <1>8, <3>1
    <3> QED BY <1>2, <3>1, <3>2
  <2> HIDE DEF G
  <2>3. 0 .. ByteBits \subseteq G
    BY <2>1, <2>2, UpTo
  <2> QED BY <2>3 DEF G
<1>10. 0 \in 0 .. ByteBits /\ \A n \in 1 .. ByteBits : n \in 0 .. ByteBits /\ n # 0
  OBVIOUS
<1>11. LowXor[0] = first /\ \A n \in 1 .. ByteBits : LowXor[n] = more(LowXor[n - 1])
  <2> HIDE DEF first, more
  <2> QED BY <1>8, <1>10, Zenon
<1>12. \A a, b \in Byte : LowXor[0][a][b] = 0
  BY <1>11
<1>13. ASSUME NEW n \in 1 .. ByteBits, NEW a \in Byte, NEW b \in Byte
       PROVE  LowXor[n][a][b] = 2 * LowXor[n - 1][a \div 2][b \div 2] + XorParity(a, b)
  <2>1. LowXor[n] = more(LowXor[n - 1])
    <3> HIDE DEF more, first
    <3> QED BY <1>11
  <2> QED BY <2>1
<1>14. \A n \in 1 .. ByteBits : \A a, b \in Byte :
         LowXor[n][a][b] = 2 * LowXor[n - 1][a \div 2][b \div 2] + XorParity(a, b)
  BY <1>13
<1> QED BY <1>9, <1>12, <1>14, Zenon DEF S

(* Of n bits the exclusive or has no more than n.                          *)
LEMMA LowXorBound ==
  \A n \in 0 .. ByteBits : \A a, b \in Byte :
    /\ LowXor[n][a][b] \in Nat /\ LowXor[n][a][b] < Pow2[n] /\ LowXor[n][a][b] \in Byte
<1> DEFINE G == {n \in 0 .. ByteBits : \A a, b \in Byte : LowXor[n][a][b] < Pow2[n]}
<1>1. 0 \in G
  <2>1. Pow2[0] = 1 /\ \A a, b \in Byte : LowXor[0][a][b] = 0
    BY LowXorIs, Pow2Is, Zenon
  <2>2. 0 \in 0 .. ByteBits
    OBVIOUS
  <2> QED BY <2>1, <2>2
<1>2. \A n \in 0 .. ByteBits - 1 : n \in G => n + 1 \in G
  <2> SUFFICES ASSUME NEW n \in 0 .. ByteBits - 1, n \in G PROVE n + 1 \in G
    OBVIOUS
  <2>1. n + 1 \in 1 .. ByteBits /\ n + 1 \in 0 .. ByteBits /\ (n + 1) - 1 = n
    OBVIOUS
  <2> SUFFICES ASSUME NEW a \in Byte, NEW b \in Byte
               PROVE  LowXor[n + 1][a][b] < Pow2[n + 1]
    BY <2>1
  <2> DEFINE x == LowXor[n][a \div 2][b \div 2]
  <2>2. a \div 2 \in Byte /\ b \div 2 \in Byte
    BY Halves
  <2>3. x \in Nat /\ x < Pow2[n]
    BY <2>2, LowXorIs
  <2>4. LowXor[n + 1][a][b] = 2 * x + XorParity(a, b)
    BY <2>1, LowXorIs
  <2>5. Pow2[n + 1] = 2 * Pow2[n] /\ Pow2[n] \in Nat
    BY <2>1, Pow2Is
  <2>6. XorParity(a, b) \in {0, 1}
    BY DEF XorParity
  <2> HIDE DEF x
  <2> QED BY <2>3, <2>4, <2>5, <2>6
<1> HIDE DEF G
<1>3. 0 .. ByteBits \subseteq G
  BY <1>1, <1>2, UpTo
<1>4. ASSUME NEW n \in 0 .. ByteBits, NEW a \in Byte, NEW b \in Byte
      PROVE  LowXor[n][a][b] \in Nat /\ LowXor[n][a][b] < Pow2[n] /\ LowXor[n][a][b] \in Byte
  <2>1. LowXor[n][a][b] < Pow2[n]
    BY <1>3 DEF G
  <2>2. LowXor[n][a][b] \in Nat
    BY LowXorIs
  <2>3. Pow2[n] \in Nat /\ Pow2[n] <= Q /\ Q \in Nat
    BY QIs
  <2> QED BY <2>1, <2>2, <2>3 DEF Byte
<1> QED BY <1>4

\* B gives the n lowest bits of a byte as a set.
BitSets(B, n) ==
  /\ B \in [Byte -> SUBSET (0 .. n - 1)]
  /\ \A a, b \in Byte : \A i \in 0 .. n - 1 :
       i \in B[LowXor[n][a][b]] <=> ~(i \in B[a] <=> i \in B[b])
  /\ \A a, b \in Byte : a < Pow2[n] /\ b < Pow2[n] /\ B[a] = B[b] => a = b

(* There is such an assignment for as many bits as a byte has.             *)
LEMMA BitSetsExist == \E B : BitSets(B, ByteBits)
<1> DEFINE G == {n \in 0 .. ByteBits : \E B : BitSets(B, n)}
<1>1. 0 \in G
  <2> DEFINE B == [a \in Byte |-> {}]
  <2>1. B \in [Byte -> SUBSET (0 .. 0 - 1)]
    OBVIOUS
  <2>2. \A a, b \in Byte : a < Pow2[0] /\ b < Pow2[0] => a = b
    <3>1. Pow2[0] = 1 /\ \A a \in Byte : a \in Nat
      BY Pow2Is, Halves, Zenon
    <3> QED BY <3>1
  <2>3. BitSets(B, 0)
    BY <2>1, <2>2 DEF BitSets
  <2> HIDE DEF B
  <2> QED BY <2>3
<1>2. \A n \in 0 .. ByteBits - 1 : n \in G => n + 1 \in G
  <2> SUFFICES ASSUME NEW n \in 0 .. ByteBits - 1, n \in G PROVE n + 1 \in G
    OBVIOUS
  <2>1. PICK B : BitSets(B, n)
    OBVIOUS
  <2>2. n + 1 \in 1 .. ByteBits /\ n + 1 \in 0 .. ByteBits /\ (n + 1) - 1 = n /\ n \in 0 .. ByteBits
    OBVIOUS
  <2> DEFINE has(a, i) == IF i = 0 THEN a % 2 = 1 ELSE (i - 1) \in B[a \div 2]
             C == [a \in Byte |-> {i \in 0 .. n : has(a, i)}]
  <2>3. C \in [Byte -> SUBSET (0 .. n)]
    OBVIOUS
  <2>4. ASSUME NEW a \in Byte, NEW b \in Byte, NEW i \in 0 .. n
        PROVE  i \in C[LowXor[n + 1][a][b]] <=> ~(i \in C[a] <=> i \in C[b])
    <3> DEFINE x == LowXor[n + 1][a][b]
               y == LowXor[n][a \div 2][b \div 2]
    <3>1. x \in Byte /\ a \div 2 \in Byte /\ b \div 2 \in Byte
      BY <2>2, LowXorBound, Halves
    <3>2. y \in Nat /\ x = 2 * y + XorParity(a, b)
      BY <2>2, <3>1, LowXorIs
    <3>3. XorParity(a, b) \in {0, 1} /\ (XorParity(a, b) = 1 <=> a % 2 # b % 2)
      BY DEF XorParity
    <3> HIDE DEF x, y
    <3>4. x \div 2 = y /\ x % 2 = XorParity(a, b)
      BY <3>2, <3>3
    <3>5. a % 2 \in {0, 1} /\ b % 2 \in {0, 1}
      BY Halves
    <3>6. \A z \in Byte : i \in C[z] <=> has(z, i)
      BY <3>1
    <3>7. CASE i = 0
      <4>1. \A z \in Byte : has(z, 0) <=> z % 2 = 1
        OBVIOUS
      <4>2. (x % 2 = 1) <=> ~((a % 2 = 1) <=> (b % 2 = 1))
        BY <3>3, <3>4, <3>5
      <4> HIDE DEF has, C
      <4> QED BY <3>1, <3>6, <3>7, <4>1, <4>2 DEF x
    <3>8. CASE i # 0
      <4>1. i - 1 \in 0 .. n - 1
        BY <3>8
      <4>2. (i - 1) \in B[y] <=> ~((i - 1) \in B[a \div 2] <=> (i - 1) \in B[b \div 2])
        BY <2>1, <3>1, <4>1 DEF BitSets, y
      <4>3. \A z \in Byte : has(z, i) <=> (i - 1) \in B[z \div 2]
        BY <3>8
      <4> HIDE DEF has, C
      <4> QED BY <3>1, <3>4, <3>6, <4>2, <4>3 DEF x
    <3> QED BY <3>7, <3>8
  <2>5. ASSUME NEW a \in Byte, NEW b \in Byte, a < Pow2[n + 1], b < Pow2[n + 1], C[a] = C[b]
        PROVE  a = b
    <3>1. /\ a \div 2 \in Byte /\ a % 2 \in {0, 1} /\ a = 2 * (a \div 2) + (a % 2)
          /\ b \div 2 \in Byte /\ b % 2 \in {0, 1} /\ b = 2 * (b \div 2) + (b % 2)
          /\ a \in Nat /\ b \in Nat
      BY Halves
    <3>2. \A i \in 0 .. n : has(a, i) <=> has(b, i)
      <4>1. \A i \in 0 .. n : (i \in C[a] <=> has(a, i)) /\ (i \in C[b] <=> has(b, i))
        OBVIOUS
      <4> HIDE DEF C, has
      <4> QED BY <2>5, <4>1
    <3>3. a % 2 = b % 2
      <4>1. has(a, 0) <=> has(b, 0)
        <5>1. 0 \in 0 .. n
          OBVIOUS
        <5> HIDE DEF has
        <5> QED BY <3>2, <5>1
      <4>2. has(a, 0) <=> a % 2 = 1
        OBVIOUS
      <4>3. has(b, 0) <=> b % 2 = 1
        OBVIOUS
      <4> HIDE DEF has
      <4> QED BY <3>1, <4>1, <4>2, <4>3
    <3>4. B[a \div 2] = B[b \div 2]
      <4>1. B[a \div 2] \subseteq 0 .. n - 1 /\ B[b \div 2] \subseteq 0 .. n - 1
        BY <2>1, <3>1 DEF BitSets
      <4>2. ASSUME NEW k \in 0 .. n - 1 PROVE k \in B[a \div 2] <=> k \in B[b \div 2]
        <5>1. k + 1 \in 0 .. n /\ k + 1 # 0 /\ (k + 1) - 1 = k
          OBVIOUS
        <5>2. has(a, k + 1) <=> has(b, k + 1)
          <6> HIDE DEF has
          <6> QED BY <3>2, <5>1
        <5> QED BY <5>1, <5>2
      <4> HIDE DEF C, has
      <4> QED BY <4>1, <4>2
    <3>5. a \div 2 < Pow2[n] /\ b \div 2 < Pow2[n]
      <4>1. Pow2[n + 1] = 2 * Pow2[n] /\ Pow2[n] \in Nat
        BY <2>2, Pow2Is
      <4> HIDE DEF C, has
      <4> QED BY <2>5, <3>1, <4>1
    <3>6. a \div 2 = b \div 2
      BY <2>1, <3>1, <3>4, <3>5 DEF BitSets
    <3> QED BY <3>1, <3>3, <3>6
  <2> HIDE DEF C
  <2>6. BitSets(C, n + 1)
    BY <2>2, <2>3, <2>4, <2>5 DEF BitSets
  <2> QED BY <2>2, <2>6
<1> HIDE DEF G
<1>3. 0 .. ByteBits \subseteq G
  BY <1>1, <1>2, UpTo
<1>4. ByteBits \in G
  BY <1>3
<1> QED BY <1>4 DEF G

BitsOf == CHOOSE B : BitSets(B, ByteBits)

(* A byte is its set of bits, and exclusive or their symmetric difference. *)
LEMMA XorBits ==
  /\ \A a, b \in Byte : a (+) b \in Byte
  /\ \A a, b \in Byte : \A i : i \in BitsOf[a (+) b] <=> ~(i \in BitsOf[a] <=> i \in BitsOf[b])
  /\ \A a, b \in Byte : BitsOf[a] = BitsOf[b] => a = b
<1>1. BitSets(BitsOf, ByteBits)
  BY BitSetsExist, Zenon DEF BitsOf
<1>2. ByteBits \in 0 .. ByteBits
  OBVIOUS
<1>3. \A a, b : a (+) b = LowXor[ByteBits][a][b]
  BY StrictIs, Zenon DEF (+), XorTbl
<1>4. \A a, b \in Byte : a (+) b \in Byte
  BY <1>2, <1>3, LowXorBound
<1>5. \A a, b \in Byte : BitsOf[a] = BitsOf[b] => a = b
  <2>1. \A a \in Byte : a < Pow2[ByteBits]
    BY Halves DEF Q
  <2> QED BY <1>1, <2>1, Zenon DEF BitSets
<1>6. ASSUME NEW a \in Byte, NEW b \in Byte, NEW i
      PROVE  i \in BitsOf[a (+) b] <=> ~(i \in BitsOf[a] <=> i \in BitsOf[b])
  <2>1. \A c \in Byte : BitsOf[c] \subseteq 0 .. ByteBits - 1
    BY <1>1 DEF BitSets
  <2>2. CASE i \in 0 .. ByteBits - 1
    BY <1>1, <1>3, <2>2, Zenon DEF BitSets
  <2>3. CASE i \notin 0 .. ByteBits - 1
    BY <1>4, <2>1, <2>3
  <2> QED BY <2>2, <2>3
<1> QED BY <1>4, <1>5, <1>6, Zenon

(* Nothing with nothing is nothing.                                        *)
LEMMA XorZero == 0 (+) 0 = 0
<1> DEFINE G == {n \in 0 .. ByteBits : LowXor[n][0][0] = 0}
<1>1. 0 \in G
  BY LowXorIs, Halves
<1>2. \A n \in 0 .. ByteBits - 1 : n \in G => n + 1 \in G
  <2> SUFFICES ASSUME NEW n \in 0 .. ByteBits - 1, n \in G PROVE n + 1 \in G
    OBVIOUS
  <2>1. n + 1 \in 1 .. ByteBits /\ n + 1 \in 0 .. ByteBits /\ (n + 1) - 1 = n /\ 0 \div 2 = 0
    OBVIOUS
  <2>2. XorParity(0, 0) = 0 /\ 0 \in Byte
    BY Halves DEF XorParity
  <2>3. LowXor[n + 1][0][0] = 2 * LowXor[(n + 1) - 1][0 \div 2][0 \div 2] + XorParity(0, 0)
    BY <2>1, <2>2, LowXorIs, Zenon
  <2> QED BY <2>1, <2>2, <2>3
<1> HIDE DEF G
<1>3. 0 .. ByteBits \subseteq G
  BY <1>1, <1>2, UpTo
<1>4. LowXor[ByteBits][0][0] = 0
  BY <1>3 DEF G
<1> QED BY <1>4, StrictIs DEF (+), XorTbl

(* The laws of exclusive or.                                               *)
LEMMA XorLaws ==
  /\ \A a, b \in Byte : a (+) b = b (+) a
  /\ \A a, b, c \in Byte : (a (+) b) (+) c = a (+) (b (+) c)
  /\ \A a \in Byte : a (+) a = 0
  /\ \A a \in Byte : a (+) 0 = a
  /\ \A a, b \in Byte : (a (+) b) (+) b = a
<1>1. \A a, b \in Byte : a (+) b = b (+) a
  <2> SUFFICES ASSUME NEW a \in Byte, NEW b \in Byte PROVE a (+) b = b (+) a
    OBVIOUS
  <2>1. a (+) b \in Byte /\ b (+) a \in Byte
    BY XorBits, Zenon
  <2>2. \A i : i \in BitsOf[a (+) b] <=> i \in BitsOf[b (+) a]
    BY XorBits, Zenon
  <2>3. BitsOf[a (+) b] = BitsOf[b (+) a]
    BY <2>2
  <2> QED BY <2>1, <2>3, XorBits, Zenon
<1>2. ASSUME NEW a \in Byte, NEW b \in Byte, NEW c \in Byte
      PROVE  (a (+) b) (+) c = a (+) (b (+) c)
  <2> DEFINE x == (a (+) b) (+) c
             y == a (+) (b (+) c)
  <2>1. a (+) b \in Byte /\ b (+) c \in Byte
    BY XorBits, Zenon
  <2>2. x \in Byte /\ y \in Byte
    BY <2>1, XorBits, Zenon
  <2>3. \A i : i \in BitsOf[x] <=> ~(i \in BitsOf[a (+) b] <=> i \in BitsOf[c])
    BY <2>1, XorBits, Zenon
  <2>4. \A i : i \in BitsOf[y] <=> ~(i \in BitsOf[a] <=> i \in BitsOf[b (+) c])
    BY <2>1, XorBits, Zenon
  <2>5. \A i : /\ i \in BitsOf[a (+) b] <=> ~(i \in BitsOf[a] <=> i \in BitsOf[b])
               /\ i \in BitsOf[b (+) c] <=> ~(i \in BitsOf[b] <=> i \in BitsOf[c])
    BY XorBits, Zenon
  <2> HIDE DEF x, y
  <2>6. \A i : i \in BitsOf[x] <=> i \in BitsOf[y]
    BY <2>3, <2>4, <2>5
  <2>7. BitsOf[x] = BitsOf[y]
    BY <2>6
  <2>8. x = y
    BY <2>2, <2>7, XorBits, Zenon
  <2> QED BY <2>8 DEF x, y
<1>3. ASSUME NEW a \in Byte PROVE a (+) a = 0
  <2>1. a (+) a \in Byte /\ 0 \in Byte
    BY XorBits, Halves, Zenon
  <2>2. \A i : i \notin BitsOf[a (+) a]
    BY XorBits, Zenon
  <2>3. \A i : i \notin BitsOf[0 (+) 0]
    BY <2>1, XorBits, Zenon
  <2>4. BitsOf[a (+) a] = BitsOf[0]
    BY <2>2, <2>3, XorZero
  <2> QED BY <2>1, <2>4, XorBits, Zenon
<1>4. ASSUME NEW a \in Byte PROVE a (+) 0 = a
  <2>1. a (+) 0 \in Byte /\ 0 \in Byte
    BY XorBits, Halves, Zenon
  <2>2. \A i : i \notin BitsOf[0 (+) 0]
    BY <2>1, XorBits, Zenon
  <2>3. \A i : i \in BitsOf[a (+) 0] <=> ~(i \in BitsOf[a] <=> i \in BitsOf[0])
    BY <2>1, XorBits, Zenon
  <2>4. BitsOf[a (+) 0] = BitsOf[a]
    BY <2>2, <2>3, XorZero
  <2> QED BY <2>1, <2>4, XorBits, Zenon
<1>5. ASSUME NEW a \in Byte, NEW b \in Byte PROVE (a (+) b) (+) b = a
  <2>1. (a (+) b) (+) b = a (+) (b (+) b)
    BY <1>2
  <2>2. b (+) b = 0
    BY <1>3
  <2>3. a (+) 0 = a
    BY <1>4
  <2> QED BY <2>1, <2>2, <2>3, Zenon
<1> QED BY <1>1, <1>2, <1>3, <1>4, <1>5, Zenon

(* The exclusive or of bytes is a byte; the laws again, one by one.        *)
LEMMA XorIn == \A a, b \in Byte : a (+) b \in Byte
BY XorBits, Zenon

(* The order of two bytes makes no difference.                             *)
LEMMA XorComm == \A a, b \in Byte : a (+) b = b (+) a
BY XorLaws, Zenon

(* Neither does that of three.                                             *)
LEMMA XorAssoc == \A a, b, c \in Byte : (a (+) b) (+) c = a (+) (b (+) c)
BY XorLaws, Zenon

(* What is added twice is gone: the law every key of xorCrypt rests on.    *)
LEMMA XorCancel == \A a, b \in Byte : (a (+) b) (+) b = a
BY XorLaws, Zenon

-----------------------------------------------------------------------------
(* Products in the field.                                                  *)

\* One bit more than a and b have changes nothing unless it is set.
TopBit(n) ==
  \A a, b \in Byte : a < Pow2[n] /\ b < Pow2[n] =>
    /\ LowXor[n + 1][a][b] = LowXor[n][a][b]
    /\ LowXor[n + 1][a + Pow2[n]][b] = LowXor[n][a][b] + Pow2[n]
    /\ LowXor[n + 1][a + Pow2[n]][b + Pow2[n]] = LowXor[n][a][b]

(* All of this holds at the top bit of a byte.                             *)
LEMMA TopBits == TopBit(ByteBits - 1)
<1> DEFINE G == {n \in 0 .. ByteBits - 1 : TopBit(n)}
<1>1. 0 \in G
  <2> SUFFICES ASSUME NEW a \in Byte, NEW b \in Byte, a < Pow2[0], b < Pow2[0]
               PROVE  /\ LowXor[0 + 1][a][b] = LowXor[0][a][b]
                      /\ LowXor[0 + 1][a + Pow2[0]][b] = LowXor[0][a][b] + Pow2[0]
                      /\ LowXor[0 + 1][a + Pow2[0]][b + Pow2[0]] = LowXor[0][a][b]
    BY DEF TopBit
  <2>1. Pow2[0] = 1 /\ a \in Nat /\ b \in Nat /\ 0 \in Byte /\ 1 \in Byte
    BY Pow2Is, Halves, Zenon
  <2>2. a = 0 /\ b = 0
    BY <2>1
  <2>3. \A c, d \in Byte : LowXor[0][c][d] = 0
    BY LowXorIs, Zenon
  <2>4. 1 \in 1 .. ByteBits /\ 1 - 1 = 0 /\ 0 \div 2 = 0 /\ 1 \div 2 = 0 /\ 0 % 2 = 0 /\ 1 % 2 = 1 /\ 0 + 1 = 1
    OBVIOUS
  <2>5. LowXor[1][0][0] = 2 * 0 + 0
    BY <2>1, <2>3, <2>4, LowXorIs DEF XorParity
  <2>6. LowXor[1][1][0] = 2 * 0 + 1
    BY <2>1, <2>3, <2>4, LowXorIs DEF XorParity
  <2>7. LowXor[1][1][1] = 2 * 0 + 0
    BY <2>1, <2>3, <2>4, LowXorIs DEF XorParity
  <2> QED BY <2>1, <2>2, <2>3, <2>4, <2>5, <2>6, <2>7
<1>2. \A n \in 0 .. (ByteBits - 1) - 1 : n \in G => n + 1 \in G
  <2> SUFFICES ASSUME NEW n \in 0 .. (ByteBits - 1) - 1, n \in G PROVE n + 1 \in G
    OBVIOUS
  <2> DEFINE P == Pow2[n]
             R == Pow2[n + 1]
  <2>1. /\ n \in 0 .. ByteBits /\ n + 1 \in 1 .. ByteBits /\ n + 1 \in 0 .. ByteBits
        /\ (n + 1) + 1 \in 1 .. ByteBits /\ (n + 1) + 1 \in 0 .. ByteBits
        /\ (n + 1) - 1 = n /\ ((n + 1) + 1) - 1 = n + 1 /\ n + 1 \in 0 .. ByteBits - 1
    OBVIOUS
  <2>2. P \in Nat /\ R = 2 * P /\ R \in Nat
    BY <2>1, Pow2Is
  <2>3. 2 * R <= Q /\ Q \in Nat
    <3>1. Pow2[(n + 1) + 1] = 2 * Pow2[n + 1]
      BY <2>1, Pow2Is
    <3>2. Pow2[(n + 1) + 1] <= Q /\ Q \in Nat
      BY <2>1, QIs
    <3> QED BY <3>1, <3>2
  <2> SUFFICES ASSUME NEW a \in Byte, NEW b \in Byte, a < R, b < R
               PROVE  /\ LowXor[(n + 1) + 1][a][b] = LowXor[n + 1][a][b]
                      /\ LowXor[(n + 1) + 1][a + R][b] = LowXor[n + 1][a][b] + R
                      /\ LowXor[(n + 1) + 1][a + R][b + R] = LowXor[n + 1][a][b]
    BY <2>1 DEF TopBit
  <2>0. \A e, f \in Byte : LowXor[(n + 1) + 1][e][f]
                              = 2 * LowXor[n + 1][e \div 2][f \div 2] + XorParity(e, f)
    BY <2>1, LowXorIs
  <2> DEFINE c == a \div 2
             d == b \div 2
             L == LowXor[n][c][d]
             par == XorParity(a, b)
  <2>4. /\ c \in Byte /\ d \in Byte /\ a \in Nat /\ b \in Nat /\ c \in Nat /\ d \in Nat
        /\ a % 2 \in {0, 1} /\ b % 2 \in {0, 1} /\ a = 2 * c + (a % 2) /\ b = 2 * d + (b % 2)
    BY Halves
  <2> HIDE DEF P, R, c, d
  <2>5. c < P /\ d < P
    BY <2>2, <2>4
  <2>6. /\ LowXor[n + 1][c][d] = L
        /\ LowXor[n + 1][c + P][d] = L + P
        /\ LowXor[n + 1][c + P][d + P] = L
    BY <2>4, <2>5 DEF TopBit, P
  <2>7. /\ a + R \in Byte /\ b + R \in Byte /\ (a + R) \div 2 = c + P /\ (b + R) \div 2 = d + P
        /\ (a + R) % 2 = a % 2 /\ (b + R) % 2 = b % 2
    <3>1. a + R \in Byte /\ b + R \in Byte
      BY <2>2, <2>3, <2>4 DEF Byte
    <3>2. (a + R) \div 2 = c + P /\ (a + R) % 2 = a % 2
      BY <2>2, <2>4
    <3>3. (b + R) \div 2 = d + P /\ (b + R) % 2 = b % 2
      BY <2>2, <2>4
    <3> QED BY <3>1, <3>2, <3>3
  <2>8. /\ XorParity(a, b) = par /\ XorParity(a + R, b) = par /\ XorParity(a + R, b + R) = par
        /\ par \in {0, 1}
    BY <2>7 DEF XorParity
  <2>9. L \in Nat
    BY <2>1, <2>4, LowXorBound
  <2>10. LowXor[n + 1][a][b] = 2 * L + par
    BY <2>1, LowXorIs DEF c, d
  <2>11. LowXor[(n + 1) + 1][a][b] = 2 * L + par
    <3>1. LowXor[(n + 1) + 1][a][b] = 2 * LowXor[n + 1][c][d] + par
      BY <2>1, LowXorIs DEF c, d
    <3> QED BY <2>6, <3>1
  <2>12. LowXor[(n + 1) + 1][a + R][b] = 2 * (L + P) + par
    <3>1. LowXor[(n + 1) + 1][a + R][b] = 2 * LowXor[n + 1][(a + R) \div 2][b \div 2] + XorParity(a + R, b)
      BY <2>0, <2>7
    <3> QED BY <2>6, <2>7, <2>8, <3>1 DEF d
  <2>13. LowXor[(n + 1) + 1][a + R][b + R] = 2 * L + par
    <3>1. LowXor[(n + 1) + 1][a + R][b + R]
            = 2 * LowXor[n + 1][(a + R) \div 2][(b + R) \div 2] + XorParity(a + R, b + R)
      BY <2>0, <2>7
    <3> QED BY <2>6, <2>7, <2>8, <3>1
  <2> HIDE DEF L, par
  <2> QED BY <2>2, <2>8, <2>9, <2>10, <2>11, <2>12, <2>13
<1> HIDE DEF G
<1>3. 0 .. ByteBits - 1 \subseteq G
  <2>1. ByteBits - 1 \in Nat
    OBVIOUS
  <2> QED BY <1>1, <1>2, <2>1, UpTo
<1>4. ByteBits - 1 \in G
  BY <1>3
<1> QED BY <1>4 DEF G

(* Doubling, a carry out of the byte being taken out again, is linear.     *)
LEMMA Mul2Linear ==
  /\ \A a \in Byte : Mul2[a] \in Byte
  /\ \A a, b \in Byte : Mul2[a (+) b] = Mul2[a] (+) Mul2[b]
<1> DEFINE N == ByteBits - 1
           H == Pow2[N]
           L(a, b) == LowXor[N][a][b]
<1>1. /\ N \in 0 .. ByteBits /\ ByteBits \in 1 .. ByteBits /\ N + 1 = ByteBits
      /\ ByteBits - 1 = N /\ ByteBits \in 0 .. ByteBits
  OBVIOUS
<1>2. H \in Nat /\ H >= 1 /\ Q = 2 * H /\ Q \in Nat
  BY <1>1, QIs
<1> HIDE DEF H
<1>3. \A a \in Byte : a \in Nat /\ a < 2 * H
  BY <1>2 DEF Byte
<1>4. \A a \in Nat : a < 2 * H => a \in Byte
  BY <1>2 DEF Byte
<1>5. \A a, b : a (+) b = LowXor[ByteBits][a][b]
  BY StrictIs, Zenon DEF (+), XorTbl
<1>6. \A a, b \in Byte : L(a, b) \in Nat /\ L(a, b) < H
  BY <1>1, LowXorBound DEF H
<1>7. \A a, b \in Byte : a < H /\ b < H =>
        /\ a (+) b = L(a, b) /\ (a + H) (+) b = L(a, b) + H /\ (a + H) (+) (b + H) = L(a, b)
  <2>1. \A a, b \in Byte : a < H /\ b < H =>
          /\ LowXor[N + 1][a][b] = LowXor[N][a][b]
          /\ LowXor[N + 1][a + H][b] = LowXor[N][a][b] + H
          /\ LowXor[N + 1][a + H][b + H] = LowXor[N][a][b]
    BY TopBits, Zenon DEF TopBit, H
  <2> QED BY <1>1, <1>5, <2>1
<1>8. \A a, b \in Byte : a < H /\ b < H =>
        2 * a \in Byte /\ 2 * b \in Byte /\ (2 * a) (+) (2 * b) = 2 * L(a, b)
  <2> SUFFICES ASSUME NEW a \in Byte, NEW b \in Byte, a < H, b < H
               PROVE  2 * a \in Byte /\ 2 * b \in Byte /\ (2 * a) (+) (2 * b) = 2 * L(a, b)
    OBVIOUS
  <2>1. a \in Nat /\ b \in Nat
    BY <1>3
  <2>2. 2 * a \in Byte /\ 2 * b \in Byte
    BY <1>2, <1>4, <2>1
  <2>3. (2 * a) \div 2 = a /\ (2 * b) \div 2 = b /\ (2 * a) % 2 = 0 /\ (2 * b) % 2 = 0
    BY <2>1
  <2>4. LowXor[ByteBits][2 * a][2 * b]
          = 2 * LowXor[ByteBits - 1][(2 * a) \div 2][(2 * b) \div 2] + XorParity(2 * a, 2 * b)
    BY <1>1, <2>2, LowXorIs, Zenon
  <2>5. XorParity(2 * a, 2 * b) = 0
    BY <2>3 DEF XorParity
  <2>6. 2 * L(a, b) + 0 = 2 * L(a, b)
    BY <1>6
  <2> QED BY <1>5, <2>2, <2>3, <2>4, <2>5, <2>6
<1>9. /\ \A a \in Byte : a < H => Mul2[a] = 2 * a
      /\ \A c \in Byte : c < H => c + H \in Byte /\ Mul2[c + H] = (2 * c) (+) Poly
  <2>1. \A a \in Byte : a < H => Mul2[a] = 2 * a
    BY <1>2, <1>3 DEF Mul2
  <2>2. ASSUME NEW c \in Byte, c < H PROVE c + H \in Byte /\ Mul2[c + H] = (2 * c) (+) Poly
    <3>1. c + H \in Byte
      BY <1>2, <1>3, <1>4, <2>2
    <3>2. ~(2 * (c + H) < Q) /\ 2 * (c + H) - Q = 2 * c
      BY <1>2, <1>3, <2>2
    <3>3. Mul2[c + H] = IF 2 * (c + H) < Q THEN 2 * (c + H) ELSE (2 * (c + H) - Q) (+) Poly
      BY <3>1 DEF Mul2
    <3> QED BY <3>1, <3>2, <3>3
  <2> QED BY <2>1, <2>2
<1>10. \A a \in Byte : a < H \/ \E c \in Byte : c < H /\ a = c + H
  <2> SUFFICES ASSUME NEW a \in Byte, ~(a < H) PROVE \E c \in Byte : c < H /\ a = c + H
    OBVIOUS
  <2>1. a - H \in Byte /\ a - H < H /\ a = (a - H) + H
    BY <1>2, <1>3, <1>4
  <2> QED BY <2>1
<1>11. Poly \in Byte
  OBVIOUS
<1>12. \A a \in Byte : Mul2[a] \in Byte
  <2> SUFFICES ASSUME NEW a \in Byte PROVE Mul2[a] \in Byte
    OBVIOUS
  <2>1. CASE a < H
    BY <1>8, <1>9, <2>1
  <2>2. ASSUME NEW c \in Byte, c < H, a = c + H PROVE Mul2[a] \in Byte
    BY <1>8, <1>9, <1>11, <2>2, XorBits
  <2> QED BY <1>10, <2>1, <2>2
<1>13. ASSUME NEW a \in Byte, NEW b \in Byte, a < H, b < H
       PROVE  Mul2[a (+) b] = Mul2[a] (+) Mul2[b]
  <2>1. a (+) b = L(a, b) /\ L(a, b) \in Byte /\ L(a, b) < H
    BY <1>6, <1>7, <1>13, XorBits
  <2>2. Mul2[L(a, b)] = 2 * L(a, b)
    BY <1>9, <2>1, Zenon
  <2>3. Mul2[a] = 2 * a /\ Mul2[b] = 2 * b
    BY <1>9, <1>13, Zenon
  <2>4. (2 * a) (+) (2 * b) = 2 * L(a, b)
    BY <1>8, <1>13, Zenon
  <2> QED BY <2>1, <2>2, <2>3, <2>4, Zenon
<1>14. ASSUME NEW c \in Byte, NEW b \in Byte, c < H, b < H
       PROVE  Mul2[(c + H) (+) b] = Mul2[c + H] (+) Mul2[b]
  <2> DEFINE x == 2 * c
             y == 2 * b
  <2>1. c (+) b = L(c, b) /\ L(c, b) \in Byte /\ L(c, b) < H /\ (c + H) (+) b = L(c, b) + H
    BY <1>6, <1>7, <1>14, XorBits
  <2>2. Mul2[L(c, b) + H] = (2 * L(c, b)) (+) Poly
    BY <1>9, <2>1, Zenon
  <2>3. Mul2[c + H] = x (+) Poly /\ Mul2[b] = y
    BY <1>9, <1>14, Zenon
  <2>4. x \in Byte /\ y \in Byte /\ x (+) y = 2 * L(c, b)
    BY <1>8, <1>14, Zenon
  <2> HIDE DEF x, y
  <2>5. (x (+) Poly) (+) y = (x (+) y) (+) Poly
    <3>1. (x (+) Poly) (+) y = x (+) (Poly (+) y)
      BY <1>11, <2>4, XorAssoc
    <3>2. Poly (+) y = y (+) Poly
      BY <1>11, <2>4, XorComm
    <3>3. (x (+) y) (+) Poly = x (+) (y (+) Poly)
      BY <1>11, <2>4, XorAssoc
    <3> QED BY <3>1, <3>2, <3>3, Zenon
  <2> QED BY <2>1, <2>2, <2>3, <2>4, <2>5, Zenon
<1>15. ASSUME NEW c \in Byte, NEW d \in Byte, c < H, d < H
       PROVE  Mul2[(c + H) (+) (d + H)] = Mul2[c + H] (+) Mul2[d + H]
  <2> DEFINE x == 2 * c
             y == 2 * d
  <2>1. L(c, d) \in Byte /\ L(c, d) < H /\ (c + H) (+) (d + H) = L(c, d)
    <3>1. c (+) d = L(c, d) /\ (c + H) (+) (d + H) = L(c, d) /\ L(c, d) < H
      BY <1>6, <1>7, <1>15
    <3> QED BY <3>1, XorBits
  <2>2. Mul2[L(c, d)] = 2 * L(c, d)
    BY <1>9, <2>1, Zenon
  <2>3. Mul2[c + H] = x (+) Poly /\ Mul2[d + H] = y (+) Poly
    BY <1>9, <1>15, Zenon
  <2>4. x \in Byte /\ y \in Byte /\ x (+) y = 2 * L(c, d)
    BY <1>8, <1>15, Zenon
  <2> HIDE DEF x, y
  <2>5. (x (+) Poly) (+) (y (+) Poly) = x (+) y
    BY <1>11, <2>4, XorIn, XorComm, XorAssoc, XorCancel
  <2> QED BY <2>1, <2>2, <2>3, <2>4, <2>5, Zenon
<1>16. ASSUME NEW a \in Byte, NEW b \in Byte PROVE Mul2[a (+) b] = Mul2[a] (+) Mul2[b]
  <2>1. CASE a < H /\ b < H
    BY <1>13, <2>1
  <2>2. CASE ~(a < H) /\ b < H
    BY <1>10, <1>14, <2>2
  <2>3. CASE a < H /\ ~(b < H)
    <3>1. Mul2[b (+) a] = Mul2[b] (+) Mul2[a]
      BY <1>10, <1>14, <2>3
    <3>2. b (+) a = a (+) b /\ Mul2[b] (+) Mul2[a] = Mul2[a] (+) Mul2[b]
      BY <1>12, XorComm, Zenon
    <3> QED BY <3>1, <3>2, Zenon
  <2>4. CASE ~(a < H) /\ ~(b < H)
    BY <1>10, <1>15, <2>4
  <2> QED BY <2>1, <2>2, <2>3, <2>4
<1> QED BY <1>12, <1>16

(* Bytes with the same bits are equal.                                     *)
LEMMA XorEqual ==
  ASSUME NEW a \in Byte, NEW b \in Byte, \A i : i \in BitsOf[a] <=> i \in BitsOf[b]
  PROVE  a = b
<1>1. BitsOf[a] = BitsOf[b]
  OBVIOUS
<1> QED BY <1>1, XorBits, Zenon

(* The bits of an exclusive or.                                            *)
LEMMA XorMember ==
  \A a, b \in Byte : \A i : i \in BitsOf[a (+) b] <=> ~(i \in BitsOf[a] <=> i \in BitsOf[b])
BY XorBits, Zenon

ZeroIs == 0 \in Byte /\ \A i : i \notin BitsOf[0]

(* Zero is a byte without bits.                                            *)
LEMMA ZeroBits == ZeroIs
<1>1. 0 \in Byte
  BY Halves
<1>2. \A i : i \notin BitsOf[0 (+) 0]
  BY <1>1, XorMember, Zenon
<1> QED BY <1>1, <1>2, XorZero DEF ZeroIs

LinearMaps == {f \in [Byte -> Byte] : \A a, b \in Byte : f[a (+) b] = f[a] (+) f[b]}

(* What being linear means.                                                *)
LEMMA LinearIs ==
  ASSUME NEW f \in LinearMaps
  PROVE  /\ f \in [Byte -> Byte] /\ \A a \in Byte : f[a] \in Byte
         /\ \A a, b \in Byte : f[a (+) b] = f[a] (+) f[b]
BY DEF LinearMaps

(* Two sums of two are added crosswise.                                    *)
LEMMA Interchange ==
  \A a, b, c, d \in Byte : (a (+) b) (+) (c (+) d) = (a (+) c) (+) (b (+) d)
<1> SUFFICES ASSUME NEW a \in Byte, NEW b \in Byte, NEW c \in Byte, NEW d \in Byte
             PROVE  (a (+) b) (+) (c (+) d) = (a (+) c) (+) (b (+) d)
  OBVIOUS
<1> DEFINE x == (a (+) b) (+) (c (+) d)
           y == (a (+) c) (+) (b (+) d)
<1>1. x \in Byte /\ y \in Byte
  BY XorIn
<1>2. \A i : i \in BitsOf[x] <=> i \in BitsOf[y]
  <2>1. a (+) b \in Byte /\ c (+) d \in Byte /\ a (+) c \in Byte /\ b (+) d \in Byte
    BY XorIn
  <2> SUFFICES ASSUME NEW i PROVE i \in BitsOf[x] <=> i \in BitsOf[y]
    OBVIOUS
  <2>2. i \in BitsOf[x] <=> ~(i \in BitsOf[a (+) b] <=> i \in BitsOf[c (+) d])
    BY <2>1, XorMember
  <2>3. i \in BitsOf[y] <=> ~(i \in BitsOf[a (+) c] <=> i \in BitsOf[b (+) d])
    BY <2>1, XorMember
  <2>4. /\ i \in BitsOf[a (+) b] <=> ~(i \in BitsOf[a] <=> i \in BitsOf[b])
        /\ i \in BitsOf[c (+) d] <=> ~(i \in BitsOf[c] <=> i \in BitsOf[d])
        /\ i \in BitsOf[a (+) c] <=> ~(i \in BitsOf[a] <=> i \in BitsOf[c])
        /\ i \in BitsOf[b (+) d] <=> ~(i \in BitsOf[b] <=> i \in BitsOf[d])
    BY XorMember
  <2> HIDE DEF x, y
  <2> QED BY <2>2, <2>3, <2>4
<1> HIDE DEF x, y
<1>3. x = y
  BY <1>1, <1>2, XorEqual
<1> QED BY <1>3 DEF x, y

(* Doubling in the field is linear.                                        *)
LEMMA Mul2Map == Mul2 \in LinearMaps
<1>1. Mul2 = [x \in Byte |-> Mul2[x]]
  BY DEF Mul2
<1> QED BY <1>1, Mul2Linear DEF LinearMaps

(* Products with a constant are sums of doublings.                         *)
Doublings(x) ==
  LET m2 == Mul2[x]  m4 == Mul2[m2]  m8 == Mul2[m4]  m16 == Mul2[m8]
  IN  /\ Mul3[x] = m2 (+) x
      /\ Mul9[x] = m8 (+) x
      /\ MulB[x] = (m8 (+) x) (+) m2
      /\ MulD[x] = (m8 (+) x) (+) m4
      /\ MulE[x] = (m8 (+) m4) (+) m2

(* The tables mul2Tbl to mulEtbl are such sums.                            *)
LEMMA Products == \A x \in Byte : Doublings(x)
<1> SUFFICES ASSUME NEW x \in Byte PROVE Doublings(x)
  OBVIOUS
<1>1. Mul3[x] = Mul2[x] (+) x
  BY DEF Mul3
<1>2. Mul9[x] = Mul2[Mul2[Mul2[x]]] (+) x
  BY DEF Mul9
<1>3. MulB[x] = Mul9[x] (+) Mul2[x]
  BY DEF MulB
<1>4. MulD[x] = Mul9[x] (+) Mul2[Mul2[x]]
  BY DEF MulD
<1>5. MulE[x] = Mul2[Mul2[Mul3[x]]] (+) Mul2[x]
  BY DEF MulE
<1>6. Mul2[Mul2[Mul3[x]]] = Mul2[Mul2[Mul2[x]]] (+) Mul2[Mul2[x]]
  <2>1. Mul2[x] \in Byte /\ Mul2[Mul2[x]] \in Byte
    BY Mul2Linear, Zenon
  <2>2. Mul2[Mul2[x] (+) x] = Mul2[Mul2[x]] (+) Mul2[x]
    BY <2>1, Mul2Linear, Zenon
  <2>3. Mul2[Mul2[Mul2[x]] (+) Mul2[x]] = Mul2[Mul2[Mul2[x]]] (+) Mul2[Mul2[x]]
    BY <2>1, Mul2Linear, Zenon
  <2> QED BY <1>1, <2>2, <2>3, Zenon
<1> QED BY <1>1, <1>2, <1>3, <1>4, <1>5, <1>6, Zenon DEF Doublings

Xor4(a, b, c, d) == a (+) b (+) c (+) d

(* The sum of four bytes is a byte.                                        *)
LEMMA SumIn == \A a, b, c, d \in Byte : Xor4(a, b, c, d) \in Byte
BY XorIn DEF Xor4

(* The sum of linear maps is linear.                                       *)
LEMMA LinearPlus ==
  ASSUME NEW f \in LinearMaps, NEW g \in LinearMaps, NEW h,
         h = [x \in Byte |-> f[x] (+) g[x]]
  PROVE  h \in LinearMaps
<1>1. \A x \in Byte : h[x] = f[x] (+) g[x] /\ f[x] \in Byte /\ g[x] \in Byte
  BY LinearIs
<1>2. h \in [Byte -> Byte]
  BY <1>1, XorIn
<1>3. ASSUME NEW a \in Byte, NEW b \in Byte PROVE h[a (+) b] = h[a] (+) h[b]
  <2>1. a (+) b \in Byte
    BY XorIn
  <2>2. f[a (+) b] = f[a] (+) f[b] /\ g[a (+) b] = g[a] (+) g[b]
    BY LinearIs
  <2>3. (f[a] (+) f[b]) (+) (g[a] (+) g[b]) = (f[a] (+) g[a]) (+) (f[b] (+) g[b])
    BY <1>1, Interchange
  <2>4. h[a (+) b] = f[a (+) b] (+) g[a (+) b] /\ h[a] = f[a] (+) g[a] /\ h[b] = f[b] (+) g[b]
    BY <1>1, <2>1
  <2> QED BY <2>2, <2>3, <2>4, Zenon
<1> QED BY <1>2, <1>3 DEF LinearMaps

(* So is one after the other.                                              *)
LEMMA LinearCompose ==
  ASSUME NEW f \in LinearMaps, NEW g \in LinearMaps, NEW h, h = [x \in Byte |-> f[g[x]]]
  PROVE  h \in LinearMaps
<1>1. \A x \in Byte : h[x] = f[g[x]] /\ g[x] \in Byte /\ f[g[x]] \in Byte
  <2>1. \A x \in Byte : g[x] \in Byte /\ f[x] \in Byte
    BY LinearIs
  <2> QED BY <2>1
<1>2. h \in [Byte -> Byte]
  BY <1>1
<1>3. ASSUME NEW a \in Byte, NEW b \in Byte PROVE h[a (+) b] = h[a] (+) h[b]
  <2>1. a (+) b \in Byte
    BY XorIn
  <2>2. g[a (+) b] = g[a] (+) g[b] /\ g[a] \in Byte /\ g[b] \in Byte
    BY LinearIs
  <2>3. f[g[a] (+) g[b]] = f[g[a]] (+) f[g[b]]
    BY <2>2, LinearIs
  <2> QED BY <1>1, <2>1, <2>2, <2>3
<1> QED BY <1>2, <1>3 DEF LinearMaps

IdMap == [x \in Byte |-> x]

(* Hence every product table is a linear map.                              *)
LEMMA MapsLinear ==
  /\ IdMap \in LinearMaps /\ Mul2 \in LinearMaps /\ Mul3 \in LinearMaps /\ Mul9 \in LinearMaps
  /\ MulB \in LinearMaps /\ MulD \in LinearMaps /\ MulE \in LinearMaps
<1>1. IdMap \in LinearMaps
  BY XorIn DEF IdMap, LinearMaps
<1> DEFINE m4 == [x \in Byte |-> Mul2[Mul2[x]]]
           m8 == [x \in Byte |-> Mul2[m4[x]]]
<1>2. m4 \in LinearMaps
  BY Mul2Map, LinearCompose
<1> HIDE DEF m4
<1>3. m8 \in LinearMaps
  BY <1>2, Mul2Map, LinearCompose
<1> HIDE DEF m8
<1>4. \A x \in Byte : m4[x] = Mul2[Mul2[x]] /\ m8[x] = Mul2[Mul2[Mul2[x]]] /\ IdMap[x] = x
  BY DEF m4, m8, IdMap
<1>5. Mul3 \in LinearMaps
  <2>1. Mul3 = [x \in Byte |-> Mul2[x] (+) IdMap[x]]
    BY <1>4 DEF Mul3
  <2> QED BY <1>1, <2>1, Mul2Map, LinearPlus
<1>6. Mul9 \in LinearMaps
  <2>1. Mul9 = [x \in Byte |-> m8[x] (+) IdMap[x]]
    BY <1>4 DEF Mul9
  <2> QED BY <1>1, <1>3, <2>1, LinearPlus
<1>7. MulB \in LinearMaps
  <2>1. MulB = [x \in Byte |-> Mul9[x] (+) Mul2[x]]
    BY DEF MulB
  <2> QED BY <1>6, <2>1, Mul2Map, LinearPlus
<1>8. MulD \in LinearMaps
  <2>1. MulD = [x \in Byte |-> Mul9[x] (+) m4[x]]
    BY <1>4 DEF MulD
  <2> QED BY <1>2, <1>6, <2>1, LinearPlus
<1>9. MulE \in LinearMaps
  <2> DEFINE q == [x \in Byte |-> m4[Mul3[x]]]
  <2>1. q \in LinearMaps
    BY <1>2, <1>5, LinearCompose
  <2>2. \A x \in Byte : Mul3[x] \in Byte
    BY <1>5, LinearIs
  <2>3. \A x \in Byte : q[x] = Mul2[Mul2[Mul3[x]]]
    BY <1>4, <2>2
  <2> HIDE DEF q
  <2>4. MulE = [x \in Byte |-> q[x] (+) Mul2[x]]
    BY <2>3 DEF MulE
  <2> QED BY <2>1, <2>4, Mul2Map, LinearPlus
<1> QED BY <1>1, <1>5, <1>6, <1>7, <1>8, <1>9, Mul2Map

-----------------------------------------------------------------------------
(* mixCols and mixColsInv as circulant matrices.                           *)

(* Sums of four are added place by place.                                  *)
LEMMA SumAdd ==
  \A a, b, c, d, e, f, g, h :
    a \in Byte /\ b \in Byte /\ c \in Byte /\ d \in Byte
    /\ e \in Byte /\ f \in Byte /\ g \in Byte /\ h \in Byte =>
    Xor4(a, b, c, d) (+) Xor4(e, f, g, h) = Xor4(a (+) e, b (+) f, c (+) g, d (+) h)
<1> SUFFICES ASSUME NEW a, NEW b, NEW c, NEW d, NEW e, NEW f, NEW g, NEW h,
                    a \in Byte, b \in Byte, c \in Byte, d \in Byte,
                    e \in Byte, f \in Byte, g \in Byte, h \in Byte
             PROVE  Xor4(a, b, c, d) (+) Xor4(e, f, g, h) = Xor4(a (+) e, b (+) f, c (+) g, d (+) h)
  OBVIOUS
<1> DEFINE p == a (+) b  q == e (+) f  r == p (+) c  s == q (+) g
<1>1. p \in Byte /\ q \in Byte
  BY XorIn
<1>2. p (+) q = (a (+) e) (+) (b (+) f)
  BY Interchange
<1> HIDE DEF p, q
<1>3. r \in Byte /\ s \in Byte
  BY <1>1, XorIn
<1>4. r (+) s = (p (+) q) (+) (c (+) g)
  BY <1>1, Interchange
<1> HIDE DEF r, s
<1>5. (r (+) d) (+) (s (+) h) = (r (+) s) (+) (d (+) h)
  BY <1>3, Interchange
<1>6. Xor4(a, b, c, d) = r (+) d /\ Xor4(e, f, g, h) = s (+) h
  BY DEF Xor4, r, s, p, q
<1> QED BY <1>2, <1>4, <1>5, <1>6, Zenon DEF Xor4

(* A square of sixteen bytes is added up by rows or by columns.            *)
LEMMA SumTransposed ==
  \A a1, a2, a3, a4, b1, b2, b3, b4, c1, c2, c3, c4, d1, d2, d3, d4 :
    a1 \in Byte /\ a2 \in Byte /\ a3 \in Byte /\ a4 \in Byte
    /\ b1 \in Byte /\ b2 \in Byte /\ b3 \in Byte /\ b4 \in Byte
    /\ c1 \in Byte /\ c2 \in Byte /\ c3 \in Byte /\ c4 \in Byte
    /\ d1 \in Byte /\ d2 \in Byte /\ d3 \in Byte /\ d4 \in Byte =>
    Xor4(Xor4(a1, b1, c1, d1), Xor4(a2, b2, c2, d2), Xor4(a3, b3, c3, d3), Xor4(a4, b4, c4, d4))
      = Xor4(Xor4(a1, a2, a3, a4), Xor4(b1, b2, b3, b4), Xor4(c1, c2, c3, c4), Xor4(d1, d2, d3, d4))
<1> SUFFICES ASSUME NEW a1, NEW a2, NEW a3, NEW a4, NEW b1, NEW b2, NEW b3, NEW b4,
                    NEW c1, NEW c2, NEW c3, NEW c4, NEW d1, NEW d2, NEW d3, NEW d4,
                    a1 \in Byte, a2 \in Byte, a3 \in Byte, a4 \in Byte,
                    b1 \in Byte, b2 \in Byte, b3 \in Byte, b4 \in Byte,
                    c1 \in Byte, c2 \in Byte, c3 \in Byte, c4 \in Byte,
                    d1 \in Byte, d2 \in Byte, d3 \in Byte, d4 \in Byte
             PROVE  Xor4(Xor4(a1, b1, c1, d1), Xor4(a2, b2, c2, d2),
                        Xor4(a3, b3, c3, d3), Xor4(a4, b4, c4, d4))
                      = Xor4(Xor4(a1, a2, a3, a4), Xor4(b1, b2, b3, b4),
                            Xor4(c1, c2, c3, c4), Xor4(d1, d2, d3, d4))
  OBVIOUS
<1> DEFINE S1 == Xor4(a1, b1, c1, d1)  S2 == Xor4(a2, b2, c2, d2)
           S3 == Xor4(a3, b3, c3, d3)  S4 == Xor4(a4, b4, c4, d4)
<1>3. S1 (+) S2 = Xor4(a1 (+) a2, b1 (+) b2, c1 (+) c2, d1 (+) d2)
  BY SumAdd
<1> DEFINE A2 == a1 (+) a2  B2 == b1 (+) b2  C2x == c1 (+) c2  D2 == d1 (+) d2
<1>4. A2 \in Byte /\ B2 \in Byte /\ C2x \in Byte /\ D2 \in Byte
  BY XorIn
<1> HIDE DEF A2, B2, C2x, D2
<1>5. Xor4(A2, B2, C2x, D2) (+) S3
        = Xor4(A2 (+) a3, B2 (+) b3, C2x (+) c3, D2 (+) d3)
  BY <1>4, SumAdd
<1> DEFINE A3 == A2 (+) a3  B3 == B2 (+) b3  C3x == C2x (+) c3  D3 == D2 (+) d3
<1>6. A3 \in Byte /\ B3 \in Byte /\ C3x \in Byte /\ D3 \in Byte
  BY <1>4, XorIn
<1> HIDE DEF A3, B3, C3x, D3
<1>7. Xor4(A3, B3, C3x, D3) (+) S4
        = Xor4(A3 (+) a4, B3 (+) b4, C3x (+) c4, D3 (+) d4)
  BY <1>6, SumAdd
<1>8. /\ A3 (+) a4 = Xor4(a1, a2, a3, a4) /\ B3 (+) b4 = Xor4(b1, b2, b3, b4)
      /\ C3x (+) c4 = Xor4(c1, c2, c3, c4) /\ D3 (+) d4 = Xor4(d1, d2, d3, d4)
  BY Zenon DEF Xor4, A2, B2, C2x, D2, A3, B3, C3x, D3
<1>9. Xor4(S1, S2, S3, S4) = ((S1 (+) S2) (+) S3) (+) S4
  BY DEF Xor4
<1>10. (S1 (+) S2) (+) S3 = Xor4(A3, B3, C3x, D3)
  BY <1>3, <1>5, Zenon DEF A2, B2, C2x, D2, A3, B3, C3x, D3
<1> HIDE DEF S1, S2, S3, S4
<1>11. Xor4(S1, S2, S3, S4)
         = Xor4(Xor4(a1, a2, a3, a4), Xor4(b1, b2, b3, b4),
               Xor4(c1, c2, c3, c4), Xor4(d1, d2, d3, d4))
  BY <1>7, <1>8, <1>9, <1>10, Zenon
<1> QED BY <1>11 DEF S1, S2, S3, S4

(* A sum of four may start at any of them.                                 *)
LEMMA SumTurn ==
  \A p, q, r, s \in Byte : /\ Xor4(p, q, r, s) = Xor4(s, p, q, r)
                          /\ Xor4(p, q, r, s) = Xor4(r, s, p, q)
                          /\ Xor4(p, q, r, s) = Xor4(q, r, s, p)
<1>1. \A p, q, r, s \in Byte : Xor4(p, q, r, s) = Xor4(s, p, q, r)
  <2> SUFFICES ASSUME NEW p \in Byte, NEW q \in Byte, NEW r \in Byte, NEW s \in Byte
               PROVE  Xor4(p, q, r, s) = Xor4(s, p, q, r)
    OBVIOUS
  <2>1. p (+) q \in Byte /\ (p (+) q) (+) r \in Byte /\ s (+) p \in Byte
    BY XorIn
  <2>2. ((p (+) q) (+) r) (+) s = s (+) ((p (+) q) (+) r)
    BY <2>1, XorComm
  <2>3. s (+) ((p (+) q) (+) r) = (s (+) (p (+) q)) (+) r
    BY <2>1, XorAssoc
  <2>4. s (+) (p (+) q) = (s (+) p) (+) q
    BY XorAssoc
  <2> QED BY <2>2, <2>3, <2>4, Zenon DEF Xor4
<1>2. \A p, q, r, s \in Byte : Xor4(p, q, r, s) = Xor4(r, s, p, q)
  BY <1>1
<1>3. \A p, q, r, s \in Byte : Xor4(p, q, r, s) = Xor4(q, r, s, p)
  BY <1>1
<1> QED BY <1>1, <1>2, <1>3

(* The second and the fourth byte of a sum change places.                  *)
LEMMA XorSwap == \A p, q, r, s \in Byte : Xor4(p, q, r, s) = Xor4(p, s, r, q)
<1> SUFFICES ASSUME NEW p \in Byte, NEW q \in Byte, NEW r \in Byte, NEW s \in Byte
             PROVE  Xor4(p, q, r, s) = Xor4(p, s, r, q)
  OBVIOUS
<1>1. p (+) q \in Byte /\ p (+) s \in Byte /\ q (+) s \in Byte /\ r (+) s \in Byte /\ r (+) q \in Byte
  BY XorIn
<1>2. ((p (+) q) (+) r) (+) s = (p (+) q) (+) (r (+) s)
  BY <1>1, XorAssoc
<1>3. (p (+) q) (+) (r (+) s) = (p (+) q) (+) (s (+) r)
  BY XorComm
<1>4. (p (+) q) (+) (s (+) r) = (p (+) s) (+) (q (+) r)
  BY Interchange
<1>5. (p (+) s) (+) (q (+) r) = (p (+) s) (+) (r (+) q)
  BY XorComm
<1>6. ((p (+) s) (+) r) (+) q = (p (+) s) (+) (r (+) q)
  BY <1>1, XorAssoc
<1> QED BY <1>2, <1>3, <1>4, <1>5, <1>6, Zenon DEF Xor4

(* A linear map goes through a sum of four.                                *)
LEMMA LinearSum ==
  \A f, a, b, c, d :
    f \in LinearMaps /\ a \in Byte /\ b \in Byte /\ c \in Byte /\ d \in Byte =>
      f[Xor4(a, b, c, d)] = Xor4(f[a], f[b], f[c], f[d])
<1> SUFFICES ASSUME NEW f, NEW a, NEW b, NEW c, NEW d,
                    f \in LinearMaps, a \in Byte, b \in Byte, c \in Byte, d \in Byte
             PROVE  f[Xor4(a, b, c, d)] = Xor4(f[a], f[b], f[c], f[d])
  OBVIOUS
<1>1. a (+) b \in Byte /\ (a (+) b) (+) c \in Byte
  BY XorIn
<1>2. f[a (+) b] = f[a] (+) f[b]
  BY LinearIs
<1>3. f[(a (+) b) (+) c] = f[a (+) b] (+) f[c]
  BY <1>1, LinearIs
<1>4. f[((a (+) b) (+) c) (+) d] = f[(a (+) b) (+) c] (+) f[d]
  BY <1>1, LinearIs
<1> QED BY <1>2, <1>3, <1>4, Zenon DEF Xor4

\* A column times the circulant matrix with f0 .. f3 in its first row.
Circulant(f0, f1, f2, f3, key) ==
  [i \in Idx |-> Xor4(f0[InColumn(key, i, 0)], f1[InColumn(key, i, 1)],
                     f2[InColumn(key, i, 2)], f3[InColumn(key, i, 3)])]

(* The bytes of a column are bytes.                                        *)
LEMMA InColumnIn ==
  \A key \in Block : \A i \in Idx : \A n \in 0 .. 3 : InColumn(key, i, n) \in Byte
<1> SUFFICES ASSUME NEW key \in Block, NEW i \in Idx, NEW n \in 0 .. 3
             PROVE  InColumn(key, i, n) \in Byte
  OBVIOUS
<1>1. 4 * (i \div 4) + ((i + n) % 4) \in Idx
  BY DEF Idx
<1> QED BY <1>1 DEF InColumn, Block

(* A column times such a matrix is a column.                               *)
LEMMA CirculantIn ==
  ASSUME NEW f0 \in LinearMaps, NEW f1 \in LinearMaps, NEW f2 \in LinearMaps, NEW f3 \in LinearMaps,
         NEW key \in Block
  PROVE  Circulant(f0, f1, f2, f3, key) \in Block
<1>1. \A x \in Byte : f0[x] \in Byte /\ f1[x] \in Byte /\ f2[x] \in Byte /\ f3[x] \in Byte
  BY LinearIs
<1>2. 0 \in 0 .. 3 /\ 1 \in 0 .. 3 /\ 2 \in 0 .. 3 /\ 3 \in 0 .. 3
  OBVIOUS
<1>3. \A i \in Idx : Xor4(f0[InColumn(key, i, 0)], f1[InColumn(key, i, 1)],
                        f2[InColumn(key, i, 2)], f3[InColumn(key, i, 3)]) \in Byte
  BY <1>1, <1>2, SumIn, InColumnIn
<1> QED BY <1>3 DEF Circulant, Block

\* f times g is the identity, entry by entry of the product of the matrices.
Inverses(f0, f1, f2, f3, g0, g1, g2, g3) ==
  \A x \in Byte :
    /\ Xor4(f0[g0[x]], f1[g3[x]], f2[g2[x]], f3[g1[x]]) = x
    /\ Xor4(f0[g1[x]], f1[g0[x]], f2[g3[x]], f3[g2[x]]) = 0
    /\ Xor4(f0[g2[x]], f1[g1[x]], f2[g0[x]], f3[g3[x]]) = 0
    /\ Xor4(f0[g3[x]], f1[g2[x]], f2[g1[x]], f3[g0[x]]) = 0

At(i, n) == 4 * (i \div 4) + ((i + n) % 4)

(* Which byte of the key InColumn reads, and from which byte the column is *)
(* the same.                                                               *)
LEMMA InColumnOf ==
  /\ \A i \in Idx : \A n \in 0 .. 3 : At(i, n) \in Idx
  /\ \A key, i, n : InColumn(key, i, n) = key[At(i, n)]
  /\ \A i \in Idx : At(i, 0) = i
  /\ \A key, i, n, u : i \in Idx /\ n \in 0 .. 3 /\ u \in 0 .. 3 =>
       InColumn(key, At(i, n), u) = InColumn(key, i, (n + u) % 4)
<1>1. ASSUME NEW i \in Idx, NEW n \in 0 .. 3, NEW u \in 0 .. 3
      PROVE  At(i, n) \in Idx /\ At(At(i, n), u) = At(i, (n + u) % 4)
  <2> DEFINE q == i \div 4
             lo == 4 * q + ((i + n) % 4)
  <2>1. q \in 0 .. 3 /\ i \in 0 .. 15 /\ i = 4 * q + (i % 4) /\ i % 4 \in 0 .. 3
    BY DEF Idx
  <2> HIDE DEF q
  <2>2. lo \in Idx /\ lo \div 4 = q
    BY <2>1 DEF Idx
  <2>3. (lo + u) % 4 = (i + ((n + u) % 4)) % 4
    <3>1. lo \in Int /\ (lo + u) % 4 = (i + n + u) % 4
      BY <2>1
    <3>2. (i + ((n + u) % 4)) % 4 = (i + n + u) % 4
      BY <2>1
    <3> QED BY <3>1, <3>2
  <2> HIDE DEF lo
  <2> QED BY <2>2, <2>3 DEF At, lo, q
<1>2. \A i \in Idx : At(i, 0) = i
  BY DEF Idx, At
<1>3. \A key, i, n : InColumn(key, i, n) = key[At(i, n)]
  BY DEF InColumn, At
<1> QED BY <1>1, <1>2, <1>3

(* When the products of the coefficients are those of the unit matrix, one *)
(* circulant matrix undoes the other.                                      *)
LEMMA Composite ==
  \A f0, f1, f2, f3, g0, g1, g2, g3, key :
    f0 \in LinearMaps /\ f1 \in LinearMaps /\ f2 \in LinearMaps /\ f3 \in LinearMaps
    /\ g0 \in LinearMaps /\ g1 \in LinearMaps /\ g2 \in LinearMaps /\ g3 \in LinearMaps
    /\ key \in Block /\ Inverses(f0, f1, f2, f3, g0, g1, g2, g3) =>
      Circulant(f0, f1, f2, f3, Circulant(g0, g1, g2, g3, key)) = key
<1> SUFFICES ASSUME NEW f0, NEW f1, NEW f2, NEW f3, NEW g0, NEW g1, NEW g2, NEW g3, NEW key,
                    f0 \in LinearMaps, f1 \in LinearMaps, f2 \in LinearMaps, f3 \in LinearMaps,
                    g0 \in LinearMaps, g1 \in LinearMaps, g2 \in LinearMaps, g3 \in LinearMaps,
                    key \in Block, Inverses(f0, f1, f2, f3, g0, g1, g2, g3)
             PROVE  Circulant(f0, f1, f2, f3, Circulant(g0, g1, g2, g3, key)) = key
  OBVIOUS
<1> DEFINE m == Circulant(g0, g1, g2, g3, key)
           C(i, n) == InColumn(key, i, n)
<1>1. m \in Block
  BY CirculantIn
<1>2. /\ 0 \in 0 .. 3 /\ 1 \in 0 .. 3 /\ 2 \in 0 .. 3 /\ 3 \in 0 .. 3
      /\ (0 + 0) % 4 = 0 /\ (0 + 1) % 4 = 1 /\ (0 + 2) % 4 = 2 /\ (0 + 3) % 4 = 3
      /\ (1 + 0) % 4 = 1 /\ (1 + 1) % 4 = 2 /\ (1 + 2) % 4 = 3 /\ (1 + 3) % 4 = 0
      /\ (2 + 0) % 4 = 2 /\ (2 + 1) % 4 = 3 /\ (2 + 2) % 4 = 0 /\ (2 + 3) % 4 = 1
      /\ (3 + 0) % 4 = 3 /\ (3 + 1) % 4 = 0 /\ (3 + 2) % 4 = 1 /\ (3 + 3) % 4 = 2
  OBVIOUS
<1>3. ASSUME NEW i \in Idx
      PROVE  Xor4(f0[InColumn(m, i, 0)], f1[InColumn(m, i, 1)],
                 f2[InColumn(m, i, 2)], f3[InColumn(m, i, 3)]) = key[i]
  <2> DEFINE a == C(i, 0)  b == C(i, 1)  c == C(i, 2)  d == C(i, 3)
  <2>1. a \in Byte /\ b \in Byte /\ c \in Byte /\ d \in Byte
    BY <1>2, InColumnIn
  <2>2. ASSUME NEW n \in 0 .. 3
        PROVE  InColumn(m, i, n) = Xor4(g0[C(i, (n + 0) % 4)], g1[C(i, (n + 1) % 4)],
                                       g2[C(i, (n + 2) % 4)], g3[C(i, (n + 3) % 4)])
    <3> DEFINE lo == At(i, n)
    <3>1. lo \in Idx
      BY InColumnOf
    <3>2. \A u \in 0 .. 3 : InColumn(key, lo, u) = C(i, (n + u) % 4)
      BY InColumnOf
    <3>3. InColumn(m, i, n) = m[lo]
      BY InColumnOf
    <3> HIDE DEF lo
    <3>4. m[lo] = Xor4(g0[InColumn(key, lo, 0)], g1[InColumn(key, lo, 1)],
                      g2[InColumn(key, lo, 2)], g3[InColumn(key, lo, 3)])
      BY <3>1 DEF Circulant
    <3> QED BY <1>2, <3>2, <3>3, <3>4
  <2>3. /\ InColumn(m, i, 0) = Xor4(g0[a], g1[b], g2[c], g3[d])
        /\ InColumn(m, i, 1) = Xor4(g0[b], g1[c], g2[d], g3[a])
        /\ InColumn(m, i, 2) = Xor4(g0[c], g1[d], g2[a], g3[b])
        /\ InColumn(m, i, 3) = Xor4(g0[d], g1[a], g2[b], g3[c])
    BY <1>2, <2>2
  <2>4. a = key[i]
    BY InColumnOf
  <2> HIDE DEF m, C, a, b, c, d
  <2>5. \A x \in Byte : /\ f0[x] \in Byte /\ f1[x] \in Byte /\ f2[x] \in Byte /\ f3[x] \in Byte
                        /\ g0[x] \in Byte /\ g1[x] \in Byte /\ g2[x] \in Byte /\ g3[x] \in Byte
    BY LinearIs
  <2>6. f0[InColumn(m, i, 0)] = Xor4(f0[g0[a]], f0[g1[b]], f0[g2[c]], f0[g3[d]])
    BY <2>1, <2>3, <2>5, LinearSum
  <2>7. f1[InColumn(m, i, 1)] = Xor4(f1[g3[a]], f1[g0[b]], f1[g1[c]], f1[g2[d]])
    <3>1. f1[InColumn(m, i, 1)] = Xor4(f1[g0[b]], f1[g1[c]], f1[g2[d]], f1[g3[a]])
      BY <2>1, <2>3, <2>5, LinearSum
    <3>2. \A p, q, r, s \in Byte : Xor4(p, q, r, s) = Xor4(s, p, q, r)
      BY SumTurn
    <3>3. f1[g0[b]] \in Byte /\ f1[g1[c]] \in Byte /\ f1[g2[d]] \in Byte /\ f1[g3[a]] \in Byte
      BY <2>1, <2>5
    <3> QED BY <3>1, <3>2, <3>3
  <2>8. f2[InColumn(m, i, 2)] = Xor4(f2[g2[a]], f2[g3[b]], f2[g0[c]], f2[g1[d]])
    <3>1. f2[InColumn(m, i, 2)] = Xor4(f2[g0[c]], f2[g1[d]], f2[g2[a]], f2[g3[b]])
      BY <2>1, <2>3, <2>5, LinearSum
    <3>2. \A p, q, r, s \in Byte : Xor4(p, q, r, s) = Xor4(r, s, p, q)
      BY SumTurn
    <3>3. f2[g0[c]] \in Byte /\ f2[g1[d]] \in Byte /\ f2[g2[a]] \in Byte /\ f2[g3[b]] \in Byte
      BY <2>1, <2>5
    <3> QED BY <3>1, <3>2, <3>3
  <2>9. f3[InColumn(m, i, 3)] = Xor4(f3[g1[a]], f3[g2[b]], f3[g3[c]], f3[g0[d]])
    <3>1. f3[InColumn(m, i, 3)] = Xor4(f3[g0[d]], f3[g1[a]], f3[g2[b]], f3[g3[c]])
      BY <2>1, <2>3, <2>5, LinearSum
    <3>2. \A p, q, r, s \in Byte : Xor4(p, q, r, s) = Xor4(q, r, s, p)
      BY SumTurn
    <3>3. f3[g0[d]] \in Byte /\ f3[g1[a]] \in Byte /\ f3[g2[b]] \in Byte /\ f3[g3[c]] \in Byte
      BY <2>1, <2>5
    <3> QED BY <3>1, <3>2, <3>3
  <2>10. /\ f0[g0[a]] \in Byte /\ f0[g1[b]] \in Byte /\ f0[g2[c]] \in Byte /\ f0[g3[d]] \in Byte
         /\ f1[g3[a]] \in Byte /\ f1[g0[b]] \in Byte /\ f1[g1[c]] \in Byte /\ f1[g2[d]] \in Byte
         /\ f2[g2[a]] \in Byte /\ f2[g3[b]] \in Byte /\ f2[g0[c]] \in Byte /\ f2[g1[d]] \in Byte
         /\ f3[g1[a]] \in Byte /\ f3[g2[b]] \in Byte /\ f3[g3[c]] \in Byte /\ f3[g0[d]] \in Byte
    BY <2>1, <2>5
  <2>11. Xor4(f0[InColumn(m, i, 0)], f1[InColumn(m, i, 1)], f2[InColumn(m, i, 2)], f3[InColumn(m, i, 3)])
           = Xor4(Xor4(f0[g0[a]], f1[g3[a]], f2[g2[a]], f3[g1[a]]),
                 Xor4(f0[g1[b]], f1[g0[b]], f2[g3[b]], f3[g2[b]]),
                 Xor4(f0[g2[c]], f1[g1[c]], f2[g0[c]], f3[g3[c]]),
                 Xor4(f0[g3[d]], f1[g2[d]], f2[g1[d]], f3[g0[d]]))
    <3>1. Xor4(f0[InColumn(m, i, 0)], f1[InColumn(m, i, 1)],
              f2[InColumn(m, i, 2)], f3[InColumn(m, i, 3)])
            = Xor4(Xor4(f0[g0[a]], f0[g1[b]], f0[g2[c]], f0[g3[d]]),
                  Xor4(f1[g3[a]], f1[g0[b]], f1[g1[c]], f1[g2[d]]),
                  Xor4(f2[g2[a]], f2[g3[b]], f2[g0[c]], f2[g1[d]]),
                  Xor4(f3[g1[a]], f3[g2[b]], f3[g3[c]], f3[g0[d]]))
      BY <2>6, <2>7, <2>8, <2>9, Zenon
    <3>2. Xor4(Xor4(f0[g0[a]], f0[g1[b]], f0[g2[c]], f0[g3[d]]),
              Xor4(f1[g3[a]], f1[g0[b]], f1[g1[c]], f1[g2[d]]),
              Xor4(f2[g2[a]], f2[g3[b]], f2[g0[c]], f2[g1[d]]),
              Xor4(f3[g1[a]], f3[g2[b]], f3[g3[c]], f3[g0[d]]))
            = Xor4(Xor4(f0[g0[a]], f1[g3[a]], f2[g2[a]], f3[g1[a]]),
                  Xor4(f0[g1[b]], f1[g0[b]], f2[g3[b]], f3[g2[b]]),
                  Xor4(f0[g2[c]], f1[g1[c]], f2[g0[c]], f3[g3[c]]),
                  Xor4(f0[g3[d]], f1[g2[d]], f2[g1[d]], f3[g0[d]]))
      <4> DEFINE a1 == f0[g0[a]]  b1 == f0[g1[b]]  c1 == f0[g2[c]]  d1 == f0[g3[d]]
                 a2 == f1[g3[a]]  b2 == f1[g0[b]]  c2 == f1[g1[c]]  d2 == f1[g2[d]]
                 a3 == f2[g2[a]]  b3 == f2[g3[b]]  c3 == f2[g0[c]]  d3 == f2[g1[d]]
                 a4 == f3[g1[a]]  b4 == f3[g2[b]]  c4 == f3[g3[c]]  d4 == f3[g0[d]]
      <4>1. /\ a1 \in Byte /\ b1 \in Byte /\ c1 \in Byte /\ d1 \in Byte
            /\ a2 \in Byte /\ b2 \in Byte /\ c2 \in Byte /\ d2 \in Byte
            /\ a3 \in Byte /\ b3 \in Byte /\ c3 \in Byte /\ d3 \in Byte
            /\ a4 \in Byte /\ b4 \in Byte /\ c4 \in Byte /\ d4 \in Byte
        BY <2>10
      <4> HIDE DEF a1, a2, a3, a4, b1, b2, b3, b4, c1, c2, c3, c4, d1, d2, d3, d4
      <4>2. Xor4(Xor4(a1, b1, c1, d1), Xor4(a2, b2, c2, d2), Xor4(a3, b3, c3, d3), Xor4(a4, b4, c4, d4))
              = Xor4(Xor4(a1, a2, a3, a4), Xor4(b1, b2, b3, b4), Xor4(c1, c2, c3, c4), Xor4(d1, d2, d3, d4))
        BY <4>1, SumTransposed
      <4> QED BY <4>2 DEF a1, a2, a3, a4, b1, b2, b3, b4, c1, c2, c3, c4, d1, d2, d3, d4
    <3> QED BY <3>1, <3>2, Zenon
  <2>12. /\ Xor4(f0[g0[a]], f1[g3[a]], f2[g2[a]], f3[g1[a]]) = a
         /\ Xor4(f0[g1[b]], f1[g0[b]], f2[g3[b]], f3[g2[b]]) = 0
         /\ Xor4(f0[g2[c]], f1[g1[c]], f2[g0[c]], f3[g3[c]]) = 0
         /\ Xor4(f0[g3[d]], f1[g2[d]], f2[g1[d]], f3[g0[d]]) = 0
    BY <2>1 DEF Inverses
  <2>13. Xor4(a, 0, 0, 0) = a
    BY <2>1, XorLaws DEF Xor4
  <2> QED BY <2>4, <2>11, <2>12, <2>13
<1>4. Circulant(f0, f1, f2, f3, m) = [i \in Idx |-> key[i]]
  BY <1>3 DEF Circulant
<1> QED BY <1>4 DEF Block

(* The bits of a sum of four.                                              *)
LEMMA SumBits ==
  \A a, b, c, d : a \in Byte /\ b \in Byte /\ c \in Byte /\ d \in Byte =>
    \A i : i \in BitsOf[Xor4(a, b, c, d)]
             <=> ~(~(~(i \in BitsOf[a] <=> i \in BitsOf[b]) <=> i \in BitsOf[c]) <=> i \in BitsOf[d])
<1> SUFFICES ASSUME NEW a, NEW b, NEW c, NEW d, a \in Byte, b \in Byte, c \in Byte, d \in Byte, NEW i
             PROVE  i \in BitsOf[Xor4(a, b, c, d)]
                      <=> ~(~(~(i \in BitsOf[a] <=> i \in BitsOf[b]) <=> i \in BitsOf[c]) <=> i \in BitsOf[d])
  OBVIOUS
<1> DEFINE p == a (+) b  q == p (+) c
<1>1. p \in Byte /\ (i \in BitsOf[p] <=> ~(i \in BitsOf[a] <=> i \in BitsOf[b]))
  BY XorIn, XorMember
<1> HIDE DEF p
<1>2. q \in Byte /\ (i \in BitsOf[q] <=> ~(i \in BitsOf[p] <=> i \in BitsOf[c]))
  BY <1>1, XorIn, XorMember
<1> HIDE DEF q
<1>3. i \in BitsOf[q (+) d] <=> ~(i \in BitsOf[q] <=> i \in BitsOf[d])
  BY <1>2, XorMember
<1>4. Xor4(a, b, c, d) = q (+) d
  BY DEF Xor4, p, q
<1> QED BY <1>1, <1>2, <1>3, <1>4

\* The products of 2 x and of 3 x with c are those of c x with 2 and with 3.
Commutes(c, x) ==
  /\ c[x] \in Byte /\ c[Mul2[x]] \in Byte
  /\ Mul2[c[x]] = c[Mul2[x]]
  /\ c[Mul3[x]] = c[Mul2[x]] (+) c[x]
  /\ Mul3[c[x]] = c[Mul2[x]] (+) c[x]

(* The coefficients of mixColsInv commute with those of mixCols.           *)
LEMMA Commuting ==
  ASSUME NEW x \in Byte
  PROVE  Commutes(Mul9, x) /\ Commutes(MulB, x) /\ Commutes(MulD, x) /\ Commutes(MulE, x)
<1> DEFINE m2 == Mul2[x]  m4 == Mul2[m2]  m8 == Mul2[m4]  m16 == Mul2[m8]
<1>1. m2 \in Byte /\ m4 \in Byte /\ m8 \in Byte /\ m16 \in Byte
  BY Mul2Linear, Zenon
<1>2. Doublings(x) /\ Doublings(m2)
  BY <1>1, Products, Zenon
<1>3. ASSUME NEW c \in LinearMaps, Mul2[c[x]] = c[m2] PROVE Commutes(c, x)
  <2>1. c[x] \in Byte /\ c[m2] \in Byte
    BY <1>1, LinearIs
  <2>2. Mul3[c[x]] = Mul2[c[x]] (+) c[x]
    BY <2>1, Products DEF Doublings
  <2>3. Mul3[x] = m2 (+) x
    BY <1>2 DEF Doublings
  <2>4. c[m2 (+) x] = c[m2] (+) c[x]
    BY <1>1, LinearIs
  <2> QED BY <1>3, <2>1, <2>2, <2>3, <2>4, Zenon DEF Commutes
<1>4. /\ Mul9[x] = m8 (+) x /\ MulB[x] = (m8 (+) x) (+) m2
      /\ MulD[x] = (m8 (+) x) (+) m4 /\ MulE[x] = (m8 (+) m4) (+) m2
      /\ Mul9[m2] = m16 (+) m2 /\ MulB[m2] = (m16 (+) m2) (+) m4
      /\ MulD[m2] = (m16 (+) m2) (+) m8 /\ MulE[m2] = (m16 (+) m8) (+) m4
  BY <1>2 DEF Doublings
<1>5. m16 = Mul2[m8] /\ m8 = Mul2[m4] /\ m4 = Mul2[m2] /\ m2 = Mul2[x]
  OBVIOUS
<1> HIDE DEF m2, m4, m8, m16
<1>6. \A a, b \in Byte : Mul2[a (+) b] = Mul2[a] (+) Mul2[b] /\ a (+) b \in Byte
  BY Mul2Linear, XorIn, Zenon
<1>7. Mul2[m8 (+) x] = m16 (+) m2 /\ m8 (+) x \in Byte
  BY <1>1, <1>5, <1>6
<1>8. Mul2[(m8 (+) x) (+) m2] = (m16 (+) m2) (+) m4
  BY <1>1, <1>5, <1>6, <1>7
<1>9. Mul2[(m8 (+) x) (+) m4] = (m16 (+) m2) (+) m8
  BY <1>1, <1>5, <1>6, <1>7
<1>10. Mul2[(m8 (+) m4) (+) m2] = (m16 (+) m8) (+) m4
  <2>1. Mul2[m8 (+) m4] = m16 (+) m8 /\ m8 (+) m4 \in Byte
    BY <1>1, <1>5, <1>6
  <2> QED BY <1>1, <1>5, <1>6, <2>1
<1>11. Mul2[Mul9[x]] = Mul9[m2] /\ Mul2[MulB[x]] = MulB[m2]
       /\ Mul2[MulD[x]] = MulD[m2] /\ Mul2[MulE[x]] = MulE[m2]
  BY <1>4, <1>7, <1>8, <1>9, <1>10, Zenon
<1> QED BY <1>3, <1>11, MapsLinear

(* The matrices of mixCols and mixColsInv are inverse to each other: the   *)
(* products of 14, 11, 13 and 9 with 2, 3, 1 and 1 cancel out but for one. *)
LEMMA MatrixInverse ==
  /\ Inverses(Mul2, Mul3, IdMap, IdMap, MulE, MulB, MulD, Mul9)
  /\ Inverses(MulE, MulB, MulD, Mul9, Mul2, Mul3, IdMap, IdMap)
<1> SUFFICES ASSUME NEW x \in Byte
             PROVE  /\ Xor4(Mul2[MulE[x]], Mul3[Mul9[x]], IdMap[MulD[x]], IdMap[MulB[x]]) = x
                    /\ Xor4(Mul2[MulB[x]], Mul3[MulE[x]], IdMap[Mul9[x]], IdMap[MulD[x]]) = 0
                    /\ Xor4(Mul2[MulD[x]], Mul3[MulB[x]], IdMap[MulE[x]], IdMap[Mul9[x]]) = 0
                    /\ Xor4(Mul2[Mul9[x]], Mul3[MulD[x]], IdMap[MulB[x]], IdMap[MulE[x]]) = 0
                    /\ Xor4(MulE[Mul2[x]], MulB[IdMap[x]], MulD[IdMap[x]], Mul9[Mul3[x]]) = x
                    /\ Xor4(MulE[Mul3[x]], MulB[Mul2[x]], MulD[IdMap[x]], Mul9[IdMap[x]]) = 0
                    /\ Xor4(MulE[IdMap[x]], MulB[Mul3[x]], MulD[Mul2[x]], Mul9[IdMap[x]]) = 0
                    /\ Xor4(MulE[IdMap[x]], MulB[IdMap[x]], MulD[Mul3[x]], Mul9[Mul2[x]]) = 0
  BY DEF Inverses
<1> DEFINE m2 == Mul2[x]  m4 == Mul2[m2]  m8 == Mul2[m4]  m16 == Mul2[m8]
           n1 == Mul9[x]  b1 == MulB[x]  d1 == MulD[x]  e1 == MulE[x]
           n2 == Mul9[m2]  b2 == MulB[m2]  d2 == MulD[m2]  e2 == MulE[m2]
           n3 == n2 (+) n1  b3 == b2 (+) b1  d3 == d2 (+) d1  e3 == e2 (+) e1
<1>1. m2 \in Byte /\ m4 \in Byte /\ m8 \in Byte /\ m16 \in Byte
  BY Mul2Linear, Zenon
<1>2. Doublings(x) /\ Doublings(m2)
  BY <1>1, Products, Zenon
<1>3. Commutes(Mul9, x) /\ Commutes(MulB, x) /\ Commutes(MulD, x) /\ Commutes(MulE, x)
  BY Commuting
<1>4. /\ Mul2[MulE[x]] = e2 /\ Mul2[MulD[x]] = d2 /\ Mul2[MulB[x]] = b2 /\ Mul2[Mul9[x]] = n2
      /\ MulE[Mul3[x]] = e3 /\ MulD[Mul3[x]] = d3 /\ MulB[Mul3[x]] = b3 /\ Mul9[Mul3[x]] = n3
      /\ Mul3[MulE[x]] = e3 /\ Mul3[MulD[x]] = d3 /\ Mul3[MulB[x]] = b3 /\ Mul3[Mul9[x]] = n3
  BY <1>3 DEF Commutes
<1>5. n1 \in Byte /\ b1 \in Byte /\ d1 \in Byte /\ e1 \in Byte
      /\ n2 \in Byte /\ b2 \in Byte /\ d2 \in Byte /\ e2 \in Byte
  BY <1>3 DEF Commutes
<1>6. n3 \in Byte /\ b3 \in Byte /\ d3 \in Byte /\ e3 \in Byte
  BY <1>5, XorIn
<1>7. /\ IdMap[x] = x /\ IdMap[n1] = n1 /\ IdMap[b1] = b1 /\ IdMap[d1] = d1 /\ IdMap[e1] = e1
  BY <1>5 DEF IdMap
<1>8. /\ n1 = m8 (+) x /\ b1 = (m8 (+) x) (+) m2 /\ d1 = (m8 (+) x) (+) m4 /\ e1 = (m8 (+) m4) (+) m2
      /\ n2 = m16 (+) m2 /\ b2 = (m16 (+) m2) (+) m4 /\ d2 = (m16 (+) m2) (+) m8
      /\ e2 = (m16 (+) m8) (+) m4
  BY <1>2 DEF Doublings
<1>9. n3 = n2 (+) n1 /\ b3 = b2 (+) b1 /\ d3 = d2 (+) d1 /\ e3 = e2 (+) e1
  OBVIOUS
<1>10. /\ Xor4(Mul2[MulE[x]], Mul3[Mul9[x]], IdMap[MulD[x]], IdMap[MulB[x]]) = Xor4(e2, n3, d1, b1)
       /\ Xor4(Mul2[MulB[x]], Mul3[MulE[x]], IdMap[Mul9[x]], IdMap[MulD[x]]) = Xor4(b2, e3, n1, d1)
       /\ Xor4(Mul2[MulD[x]], Mul3[MulB[x]], IdMap[MulE[x]], IdMap[Mul9[x]]) = Xor4(d2, b3, e1, n1)
       /\ Xor4(Mul2[Mul9[x]], Mul3[MulD[x]], IdMap[MulB[x]], IdMap[MulE[x]]) = Xor4(n2, d3, b1, e1)
  BY <1>4, <1>7, Zenon
<1>11. /\ Xor4(MulE[Mul2[x]], MulB[IdMap[x]], MulD[IdMap[x]], Mul9[Mul3[x]]) = Xor4(e2, b1, d1, n3)
       /\ Xor4(MulE[Mul3[x]], MulB[Mul2[x]], MulD[IdMap[x]], Mul9[IdMap[x]]) = Xor4(e3, b2, d1, n1)
       /\ Xor4(MulE[IdMap[x]], MulB[Mul3[x]], MulD[Mul2[x]], Mul9[IdMap[x]]) = Xor4(e1, b3, d2, n1)
       /\ Xor4(MulE[IdMap[x]], MulB[IdMap[x]], MulD[Mul3[x]], Mul9[Mul2[x]]) = Xor4(e1, b1, d3, n2)
  BY <1>4, <1>7, Zenon
<1> HIDE DEF m2, m4, m8, m16, n1, b1, d1, e1, n2, b2, d2, e2, n3, b3, d3, e3
<1>12. ASSUME NEW i
       PROVE  /\ i \in BitsOf[n1] <=> ~(i \in BitsOf[m8] <=> i \in BitsOf[x])
              /\ i \in BitsOf[b1] <=> ~(i \in BitsOf[n1] <=> i \in BitsOf[m2])
              /\ i \in BitsOf[d1] <=> ~(i \in BitsOf[n1] <=> i \in BitsOf[m4])
              /\ i \in BitsOf[e1] <=> ~(~(i \in BitsOf[m8] <=> i \in BitsOf[m4]) <=> i \in BitsOf[m2])
              /\ i \in BitsOf[n2] <=> ~(i \in BitsOf[m16] <=> i \in BitsOf[m2])
              /\ i \in BitsOf[b2] <=> ~(i \in BitsOf[n2] <=> i \in BitsOf[m4])
              /\ i \in BitsOf[d2] <=> ~(i \in BitsOf[n2] <=> i \in BitsOf[m8])
              /\ i \in BitsOf[e2] <=> ~(~(i \in BitsOf[m16] <=> i \in BitsOf[m8]) <=> i \in BitsOf[m4])
              /\ i \in BitsOf[n3] <=> ~(i \in BitsOf[n2] <=> i \in BitsOf[n1])
              /\ i \in BitsOf[b3] <=> ~(i \in BitsOf[b2] <=> i \in BitsOf[b1])
              /\ i \in BitsOf[d3] <=> ~(i \in BitsOf[d2] <=> i \in BitsOf[d1])
              /\ i \in BitsOf[e3] <=> ~(i \in BitsOf[e2] <=> i \in BitsOf[e1])
  <2>1. /\ i \in BitsOf[n1] <=> ~(i \in BitsOf[m8] <=> i \in BitsOf[x])
        /\ i \in BitsOf[n2] <=> ~(i \in BitsOf[m16] <=> i \in BitsOf[m2])
    BY <1>1, <1>8, XorMember
  <2>2. b1 = n1 (+) m2 /\ d1 = n1 (+) m4 /\ b2 = n2 (+) m4 /\ d2 = n2 (+) m8
    BY <1>8
  <2>3. /\ i \in BitsOf[b1] <=> ~(i \in BitsOf[n1] <=> i \in BitsOf[m2])
        /\ i \in BitsOf[d1] <=> ~(i \in BitsOf[n1] <=> i \in BitsOf[m4])
    BY <1>1, <1>5, <2>2, XorMember
  <2>4. /\ i \in BitsOf[b2] <=> ~(i \in BitsOf[n2] <=> i \in BitsOf[m4])
        /\ i \in BitsOf[d2] <=> ~(i \in BitsOf[n2] <=> i \in BitsOf[m8])
    BY <1>1, <1>5, <2>2, XorMember
  <2>5. m8 (+) m4 \in Byte /\ m16 (+) m8 \in Byte
    BY <1>1, XorIn
  <2>6. i \in BitsOf[e1] <=> ~(~(i \in BitsOf[m8] <=> i \in BitsOf[m4]) <=> i \in BitsOf[m2])
    <3>1. i \in BitsOf[m8 (+) m4] <=> ~(i \in BitsOf[m8] <=> i \in BitsOf[m4])
      BY <1>1, XorMember
    <3>2. i \in BitsOf[(m8 (+) m4) (+) m2] <=> ~(i \in BitsOf[m8 (+) m4] <=> i \in BitsOf[m2])
      BY <1>1, <2>5, XorMember
    <3> QED BY <1>8, <3>1, <3>2
  <2>7. i \in BitsOf[e2] <=> ~(~(i \in BitsOf[m16] <=> i \in BitsOf[m8]) <=> i \in BitsOf[m4])
    <3>1. i \in BitsOf[m16 (+) m8] <=> ~(i \in BitsOf[m16] <=> i \in BitsOf[m8])
      BY <1>1, XorMember
    <3>2. i \in BitsOf[(m16 (+) m8) (+) m4] <=> ~(i \in BitsOf[m16 (+) m8] <=> i \in BitsOf[m4])
      BY <1>1, <2>5, XorMember
    <3> QED BY <1>8, <3>1, <3>2
  <2>8. /\ i \in BitsOf[n3] <=> ~(i \in BitsOf[n2] <=> i \in BitsOf[n1])
        /\ i \in BitsOf[b3] <=> ~(i \in BitsOf[b2] <=> i \in BitsOf[b1])
    BY <1>5, <1>9, XorMember
  <2>9. /\ i \in BitsOf[d3] <=> ~(i \in BitsOf[d2] <=> i \in BitsOf[d1])
        /\ i \in BitsOf[e3] <=> ~(i \in BitsOf[e2] <=> i \in BitsOf[e1])
    BY <1>5, <1>9, XorMember
  <2> QED BY <2>1, <2>3, <2>4, <2>6, <2>7, <2>8, <2>9
<1>13. ZeroIs
  BY ZeroBits
<1>14. Xor4(e2, n3, d1, b1) = x /\ Xor4(e2, b1, d1, n3) = x
  <2> DEFINE p == Xor4(e2, n3, d1, b1)  q == Xor4(e2, b1, d1, n3)
  <2>1. p \in Byte /\ q \in Byte
    BY <1>5, <1>6, SumIn
  <2>2. ASSUME NEW i
        PROVE  /\ i \in BitsOf[p] <=> i \in BitsOf[x]
               /\ i \in BitsOf[q] <=> i \in BitsOf[x]
    <3>1. i \in BitsOf[p]
            <=> ~(~(~(i \in BitsOf[e2] <=> i \in BitsOf[n3]) <=> i \in BitsOf[d1]) <=> i \in BitsOf[b1])
      BY <1>5, <1>6, SumBits
    <3>2. i \in BitsOf[q]
            <=> ~(~(~(i \in BitsOf[e2] <=> i \in BitsOf[b1]) <=> i \in BitsOf[d1]) <=> i \in BitsOf[n3])
      BY <1>5, <1>6, SumBits
    <3> HIDE DEF p, q
    <3> QED BY <1>12, <3>1, <3>2
  <2> HIDE DEF p, q
  <2>3. p = x /\ q = x
    BY <2>1, <2>2, XorEqual
  <2> QED BY <2>3 DEF p, q
<1>15. ASSUME NEW p, NEW a \in Byte, NEW b \in Byte, NEW c \in Byte, NEW d \in Byte, p = Xor4(a, b, c, d),
              \A i : ~(~(~(~(i \in BitsOf[a] <=> i \in BitsOf[b]) <=> i \in BitsOf[c]) <=> i \in BitsOf[d]))
       PROVE  p = 0
  <2>1. p \in Byte
    BY <1>15, SumIn
  <2>2. \A i : i \in BitsOf[p] <=> ~(~(~(i \in BitsOf[a] <=> i \in BitsOf[b])
                                         <=> i \in BitsOf[c]) <=> i \in BitsOf[d])
    BY <1>15, SumBits
  <2>3. \A i : i \in BitsOf[p] <=> i \in BitsOf[0]
    BY <1>13, <1>15, <2>2, Zenon DEF ZeroIs
  <2> QED BY <1>13, <2>1, <2>3, XorEqual DEF ZeroIs
<1>16. Xor4(b2, e3, n1, d1) = 0 /\ Xor4(e3, b2, d1, n1) = 0
  <2>1. \A i : /\ ~(~(~(~(i \in BitsOf[b2] <=> i \in BitsOf[e3]) <=> i \in BitsOf[n1]) <=> i \in BitsOf[d1]))
               /\ ~(~(~(~(i \in BitsOf[e3] <=> i \in BitsOf[b2]) <=> i \in BitsOf[d1]) <=> i \in BitsOf[n1]))
    BY <1>12
  <2> QED BY <1>5, <1>6, <1>15, <2>1
<1>17. Xor4(d2, b3, e1, n1) = 0 /\ Xor4(e1, b3, d2, n1) = 0
  <2>1. \A i : /\ ~(~(~(~(i \in BitsOf[d2] <=> i \in BitsOf[b3]) <=> i \in BitsOf[e1]) <=> i \in BitsOf[n1]))
               /\ ~(~(~(~(i \in BitsOf[e1] <=> i \in BitsOf[b3]) <=> i \in BitsOf[d2]) <=> i \in BitsOf[n1]))
    BY <1>12
  <2> QED BY <1>5, <1>6, <1>15, <2>1
<1>18. Xor4(n2, d3, b1, e1) = 0 /\ Xor4(e1, b1, d3, n2) = 0
  <2>1. \A i : /\ ~(~(~(~(i \in BitsOf[n2] <=> i \in BitsOf[d3]) <=> i \in BitsOf[b1]) <=> i \in BitsOf[e1]))
               /\ ~(~(~(~(i \in BitsOf[e1] <=> i \in BitsOf[b1]) <=> i \in BitsOf[d3]) <=> i \in BitsOf[n2]))
    BY <1>12
  <2> QED BY <1>5, <1>6, <1>15, <2>1
<1> QED BY <1>10, <1>11, <1>14, <1>16, <1>17, <1>18, Zenon

-----------------------------------------------------------------------------
(* aes.                                                                    *)

(* The steps of a round each have their inverse.                           *)
LEMMA MixInverse ==
  \A key \in Block : /\ mixCols(key) \in Block /\ mixColsInv(key) \in Block
                     /\ mixCols(mixColsInv(key)) = key /\ mixColsInv(mixCols(key)) = key
<1>1. \A key \in Block : mixCols(key) = Circulant(Mul2, Mul3, IdMap, IdMap, key)
  <2> SUFFICES ASSUME NEW key \in Block PROVE mixCols(key) = Circulant(Mul2, Mul3, IdMap, IdMap, key)
    OBVIOUS
  <2>1. ASSUME NEW i \in Idx
        PROVE  Mul2[InColumn(key, i, 0)] (+) Mul3[InColumn(key, i, 1)]
                   (+) InColumn(key, i, 2) (+) InColumn(key, i, 3)
                 = Xor4(Mul2[InColumn(key, i, 0)], Mul3[InColumn(key, i, 1)],
                        IdMap[InColumn(key, i, 2)], IdMap[InColumn(key, i, 3)])
    <3>1. 2 \in 0 .. 3 /\ 3 \in 0 .. 3
      OBVIOUS
    <3>2. InColumn(key, i, 2) \in Byte /\ InColumn(key, i, 3) \in Byte
      BY <3>1, InColumnIn
    <3> QED BY <3>2 DEF Xor4, IdMap
  <2> QED BY <2>1 DEF mixCols, Circulant
<1>2. \A key \in Block : mixColsInv(key) = Circulant(MulE, MulB, MulD, Mul9, key)
  <2> SUFFICES ASSUME NEW key \in Block PROVE mixColsInv(key) = Circulant(MulE, MulB, MulD, Mul9, key)
    OBVIOUS
  <2>1. ASSUME NEW i \in Idx
        PROVE  MulE[InColumn(key, i, 0)] (+) Mul9[InColumn(key, i, 3)]
                   (+) MulD[InColumn(key, i, 2)] (+) MulB[InColumn(key, i, 1)]
                 = Xor4(MulE[InColumn(key, i, 0)], MulB[InColumn(key, i, 1)],
                        MulD[InColumn(key, i, 2)], Mul9[InColumn(key, i, 3)])
    <3> DEFINE a == MulE[InColumn(key, i, 0)]  b == MulB[InColumn(key, i, 1)]
               c == MulD[InColumn(key, i, 2)]  d == Mul9[InColumn(key, i, 3)]
    <3>1. 0 \in 0 .. 3 /\ 1 \in 0 .. 3 /\ 2 \in 0 .. 3 /\ 3 \in 0 .. 3
      OBVIOUS
    <3>2. InColumn(key, i, 0) \in Byte /\ InColumn(key, i, 1) \in Byte
          /\ InColumn(key, i, 2) \in Byte /\ InColumn(key, i, 3) \in Byte
      BY <3>1, InColumnIn
    <3>3. \A x \in Byte : MulE[x] \in Byte /\ MulB[x] \in Byte /\ MulD[x] \in Byte /\ Mul9[x] \in Byte
      BY MapsLinear, LinearIs
    <3>4. a \in Byte /\ b \in Byte /\ c \in Byte /\ d \in Byte
      BY <3>2, <3>3
    <3> HIDE DEF a, b, c, d
    <3>5. Xor4(a, d, c, b) = Xor4(a, b, c, d)
      BY <3>4, XorSwap
    <3>6. Xor4(a, d, c, b) = ((a (+) d) (+) c) (+) b
      BY DEF Xor4
    <3> QED BY <3>5, <3>6 DEF a, b, c, d
  <2> QED BY <2>1 DEF mixColsInv, Circulant
<1>3. \A key \in Block : mixCols(key) \in Block /\ mixColsInv(key) \in Block
  BY <1>1, <1>2, MapsLinear, CirculantIn
<1>4. ASSUME NEW key \in Block PROVE mixCols(mixColsInv(key)) = key /\ mixColsInv(mixCols(key)) = key
  <2>1. Circulant(Mul2, Mul3, IdMap, IdMap, Circulant(MulE, MulB, MulD, Mul9, key)) = key
    BY MapsLinear, MatrixInverse, Composite
  <2>2. Circulant(MulE, MulB, MulD, Mul9, Circulant(Mul2, Mul3, IdMap, IdMap, key)) = key
    BY MapsLinear, MatrixInverse, Composite
  <2> QED BY <1>1, <1>2, <1>3, <2>1, <2>2
<1> QED BY <1>3, <1>4

(* subBytes and subBytesInv do.                                            *)
LEMMA SubInverse ==
  \A key \in Block : /\ subBytes(key) \in Block /\ subBytesInv(key) \in Block
                     /\ subBytes(subBytesInv(key)) = key /\ subBytesInv(subBytes(key)) = key
<1>1. /\ Sbox \in [Byte -> Byte] /\ SboxInv \in [Byte -> Byte]
      /\ \A x \in Byte : Sbox[SboxInv[x]] = x /\ SboxInv[Sbox[x]] = x
  <2>1. /\ Sbox \in [Byte -> Byte] /\ \A x, y \in Byte : Sbox[x] = Sbox[y] => x = y
        /\ \A y \in Byte : \E x \in Byte : Sbox[x] = y
    BY SboxAssumption, Fun_BijectionProperties, Fun_InjectionProperties, Fun_SurjectionProperties
  <2>2. \A y \in Byte : SboxInv[y] \in Byte /\ Sbox[SboxInv[y]] = y
    <3>1. \A y \in Byte : SboxInv[y] = IF \E s \in Byte : Sbox[s] = y
                                          THEN CHOOSE s \in Byte : Sbox[s] = y ELSE CHOOSE s \in Byte : TRUE
      BY DEF SboxInv, Inverse
    <3> SUFFICES ASSUME NEW y \in Byte PROVE SboxInv[y] \in Byte /\ Sbox[SboxInv[y]] = y
      OBVIOUS
    <3>2. SboxInv[y] = CHOOSE s \in Byte : Sbox[s] = y
      BY <2>1, <3>1
    <3> QED BY <2>1, <3>2
  <2>3. SboxInv \in [Byte -> Byte]
    BY <2>2 DEF SboxInv, Inverse
  <2>4. \A x \in Byte : SboxInv[Sbox[x]] = x
    BY <2>1, <2>2
  <2> QED BY <2>1, <2>2, <2>3, <2>4
<1> QED BY <1>1 DEF subBytes, subBytesInv, Block

(* shiftRows and shiftRowsInv do.                                          *)
LEMMA ShiftInverse ==
  \A key \in Block : /\ shiftRows(key) \in Block /\ shiftRowsInv(key) \in Block
                     /\ shiftRows(shiftRowsInv(key)) = key /\ shiftRowsInv(shiftRows(key)) = key
<1>1. \A i \in Idx : /\ ShiftTbl[i] \in Idx /\ ShiftTblInv[i] \in Idx
                     /\ ShiftTbl[ShiftTblInv[i]] = i /\ ShiftTblInv[ShiftTbl[i]] = i
  BY DEF Idx, ShiftTbl, ShiftTblInv
<1> QED BY <1>1 DEF shiftRows, shiftRowsInv, Block

(* The same round key twice is none.                                       *)
LEMMA KeyInverse ==
  \A key, round \in Block : roundKey(key, round) \in Block /\ roundKey(roundKey(key, round), round) = key
<1> SUFFICES ASSUME NEW key \in Block, NEW round \in Block
             PROVE  roundKey(key, round) \in Block /\ roundKey(roundKey(key, round), round) = key
  OBVIOUS
<1>1. \A k : roundKey(k, round) = [i \in Idx |-> k[i] (+) round[i]]
  BY StrictIs, Zenon DEF roundKey
<1>2. \A i \in Idx : key[i] \in Byte /\ round[i] \in Byte
  BY DEF Block
<1>3. \A i \in Idx : key[i] (+) round[i] \in Byte /\ (key[i] (+) round[i]) (+) round[i] = key[i]
  BY <1>2, XorIn, XorCancel
<1>4. roundKey(key, round) \in Block
  BY <1>1, <1>3 DEF Block
<1>5. roundKey(roundKey(key, round), round) = [i \in Idx |-> key[i]]
  BY <1>1, <1>3
<1> QED BY <1>4, <1>5 DEF Block

(* Nine rounds forwards and their inverses in the other order.             *)
Undoes(F, G, S) == \A i \in 1 .. 9 : \A x \in S : G[10 - i][F[i][x]] = x

(* They give back what the first of them was applied to.                   *)
LEMMA RoundsBack ==
  \A S, F, G, a : F \in StepsIn(9, S) /\ G \in StepsIn(9, S) /\ a \in S /\ Undoes(F, G, S) =>
    /\ Iterates(9, a, F)[9] \in S
    /\ Iterates(9, Iterates(9, a, F)[9], G)[9] = a
<1> SUFFICES ASSUME NEW S, NEW F, NEW G, NEW a, F \in StepsIn(9, S), G \in StepsIn(9, S), a \in S,
                    Undoes(F, G, S)
             PROVE  /\ Iterates(9, a, F)[9] \in S
                    /\ Iterates(9, Iterates(9, a, F)[9], G)[9] = a
  OBVIOUS
<1> DEFINE s == Iterates(9, a, F)
           u == Iterates(9, s[9], G)
<1>1. /\ s \in [0 .. 9 -> S] /\ s[0] = a /\ \A i \in 1 .. 9 : s[i] = F[i][s[i - 1]]
  <2>1. 9 \in Nat
    OBVIOUS
  <2>2. Iterated(Iterates(9, a, F), 9, S, a, F)
    BY <2>1, IteratesAre, Zenon
  <2> QED BY <2>2 DEF Iterated
<1> HIDE DEF s
<1>2. /\ u \in [0 .. 9 -> S] /\ u[0] = s[9] /\ \A i \in 1 .. 9 : u[i] = G[i][u[i - 1]]
  <2>1. 9 \in Nat /\ s[9] \in S
    BY <1>1
  <2>2. Iterated(Iterates(9, s[9], G), 9, S, s[9], G)
    BY <2>1, IteratesAre, Zenon
  <2> QED BY <2>2 DEF Iterated
<1> HIDE DEF u
<1>3. \A i \in 0 .. 9 : u[i] = s[9 - i]
  <2> DEFINE H == {i \in 0 .. 9 : u[i] = s[9 - i]}
  <2>1. 0 \in H
    BY <1>2
  <2>2. \A i \in 0 .. 9 - 1 : i \in H => i + 1 \in H
    <3> SUFFICES ASSUME NEW i \in 0 .. 9 - 1, i \in H PROVE i + 1 \in H
      OBVIOUS
    <3>0. u[i] = s[9 - i]
      OBVIOUS
    <3> SUFFICES u[i + 1] = s[9 - (i + 1)]
      OBVIOUS
    <3> HIDE DEF H
    <3> DEFINE j == 9 - i
    <3>1. j \in 1 .. 9 /\ i + 1 \in 1 .. 9 /\ i + 1 \in 0 .. 9 /\ (i + 1) - 1 = i /\ 10 - j = i + 1
          /\ 9 - (i + 1) = j - 1 /\ j - 1 \in 0 .. 9
      OBVIOUS
    <3>2. u[i + 1] = G[i + 1][u[i]] /\ u[i] = s[j]
      BY <1>2, <3>0, <3>1
    <3> HIDE DEF j
    <3>3. s[j] = F[j][s[j - 1]] /\ s[j - 1] \in S
      BY <1>1, <3>1
    <3>4. G[i + 1][F[j][s[j - 1]]] = s[j - 1]
      BY <3>1, <3>3 DEF Undoes
    <3> QED BY <3>1, <3>2, <3>3, <3>4
  <2> HIDE DEF H
  <2>3. 9 \in Nat
    OBVIOUS
  <2>4. 0 .. 9 \subseteq H
    BY <2>1, <2>2, <2>3, UpTo
  <2> QED BY <2>4 DEF H
<1>4. u[9] = s[0]
  BY <1>3
<1>5. s[9] \in S
  BY <1>1
<1> QED BY <1>1, <1>4, <1>5, Zenon DEF u, s

RoundKeysType == [0 .. 10 -> Block]

(* KeyInverse once more, in the form that is easy to apply.                *)
LEMMA Involved ==
  \A key, round : key \in Block /\ round \in Block =>
    roundKey(key, round) \in Block /\ roundKey(roundKey(key, round), round) = key
BY KeyInverse

(* aes, both of its variants that differ in the direction.                 *)
LEMMA AesInverse ==
  ASSUME NEW key \in Block, NEW rk \in RoundKeysType
  PROVE  /\ aesUnscrambleKey(key, rk) \in Block
         /\ aesScrambleKey(aesUnscrambleKey(key, rk), rk) = key
<1> DEFINE F == [i \in 1 .. 9 |->
                   [k \in Block |-> roundKey(mixCols(shiftRows(subBytes(k))), rk[i])]]
           G == [i \in 1 .. 9 |->
                   [k \in Block |-> subBytesInv(shiftRowsInv(mixColsInv(roundKey(k, rk[10 - i]))))]]
           first == subBytesInv(shiftRowsInv(roundKey(key, rk[10])))
           last  == Iterates(9, first, G)[9]
           out   == roundKey(last, rk[0])
           back  == Iterates(9, roundKey(out, rk[0]), F)[9]
<1>1. \A i \in 0 .. 10 : rk[i] \in Block
  BY DEF RoundKeysType
<1>2. \A k, r \in Block :
        /\ roundKey(mixCols(shiftRows(subBytes(k))), r) \in Block
        /\ subBytesInv(shiftRowsInv(mixColsInv(roundKey(k, r)))) \in Block
        /\ roundKey(mixCols(shiftRows(subBytes(
             subBytesInv(shiftRowsInv(mixColsInv(roundKey(k, r))))))), r) = k
  <2> SUFFICES ASSUME NEW k \in Block, NEW r \in Block
               PROVE  /\ roundKey(mixCols(shiftRows(subBytes(k))), r) \in Block
                      /\ subBytesInv(shiftRowsInv(mixColsInv(roundKey(k, r)))) \in Block
                      /\ roundKey(mixCols(shiftRows(subBytes(
                           subBytesInv(shiftRowsInv(mixColsInv(roundKey(k, r))))))), r) = k
    OBVIOUS
  <2> DEFINE a == roundKey(k, r)  b == mixColsInv(a)  c == shiftRowsInv(b)  d == subBytesInv(c)
  <2>1. a \in Block /\ roundKey(a, r) = k
    BY KeyInverse
  <2> HIDE DEF a
  <2>2. b \in Block /\ mixCols(b) = a
    BY <2>1, MixInverse
  <2> HIDE DEF b
  <2>3. c \in Block /\ shiftRows(c) = b
    BY <2>2, ShiftInverse
  <2> HIDE DEF c
  <2>4. d \in Block /\ subBytes(d) = c
    BY <2>3, SubInverse
  <2> HIDE DEF d
  <2>5. roundKey(mixCols(shiftRows(subBytes(k))), r) \in Block
    BY SubInverse, ShiftInverse, MixInverse, KeyInverse
  <2>6. d \in Block /\ roundKey(mixCols(shiftRows(subBytes(d))), r) = k
    BY <2>1, <2>2, <2>3, <2>4
  <2> QED BY <2>5, <2>6 DEF a, b, c, d
<1>3. F \in StepsIn(9, Block) /\ G \in StepsIn(9, Block)
  <2>1. \A i \in 1 .. 9 : rk[i] \in Block /\ rk[10 - i] \in Block
    BY <1>1
  <2> QED BY <1>2, <2>1 DEF StepsIn
<1>4. Undoes(G, F, Block)
  <2> SUFFICES ASSUME NEW i \in 1 .. 9, NEW x \in Block PROVE F[10 - i][G[i][x]] = x
    BY DEF Undoes
  <2> DEFINE r == rk[10 - i]
             y == subBytesInv(shiftRowsInv(mixColsInv(roundKey(x, r))))
  <2>1. 10 - i \in 1 .. 9 /\ r \in Block
    BY <1>1
  <2>2. G[i][x] = y
    OBVIOUS
  <2>3. y \in Block /\ roundKey(mixCols(shiftRows(subBytes(y))), r) = x
    BY <1>2, <2>1
  <2> HIDE DEF y
  <2>4. F[10 - i][y] = roundKey(mixCols(shiftRows(subBytes(y))), r)
    BY <2>1, <2>3
  <2> HIDE DEF F, G
  <2> QED BY <2>2, <2>3, <2>4
<1>5. rk[0] \in Block /\ rk[10] \in Block
  BY <1>1
<1>6. first \in Block /\ roundKey(shiftRows(subBytes(first)), rk[10]) = key
  <2> DEFINE a == roundKey(key, rk[10])  c == shiftRowsInv(a)  d == subBytesInv(c)
  <2>1. a \in Block /\ roundKey(a, rk[10]) = key
    BY <1>5, KeyInverse
  <2> HIDE DEF a
  <2>2. c \in Block /\ shiftRows(c) = a
    BY <2>1, ShiftInverse
  <2> HIDE DEF c
  <2>3. d \in Block /\ subBytes(d) = c
    BY <2>2, SubInverse
  <2> QED BY <2>1, <2>2, <2>3 DEF c, a
<1> HIDE DEF F, G, first
<1>7. last \in Block /\ Iterates(9, last, F)[9] = first
  BY <1>3, <1>4, <1>6, RoundsBack
<1> HIDE DEF last
<1>8. out \in Block /\ roundKey(out, rk[0]) = last
  BY <1>5, <1>7, KeyInverse
<1> HIDE DEF out
<1>9. back = first
  BY <1>7, <1>8
<1>10. aesUnscrambleKey(key, rk) = out
  BY Zenon DEF aesUnscrambleKey, Unscrambled, out, last, first, G
<1>11. aesScrambleKey(out, rk) = roundKey(shiftRows(subBytes(back)), rk[10])
  BY Zenon DEF aesScrambleKey, Scrambled, F
<1> QED BY <1>6, <1>8, <1>9, <1>10, <1>11

(* The same of the variant with the directions swapped.                     *)
LEMMA AesMhyInverse ==
  ASSUME NEW key \in Block, NEW rk \in RoundKeysType
  PROVE  /\ aesUnscrambleKeyMhy(key, rk) \in Block
         /\ aesScrambleKeyMhy(aesUnscrambleKeyMhy(key, rk), rk) = key
<1> DEFINE F == [i \in 1 .. 9 |->
                   [k \in Block |-> roundKey(mixColsInv(shiftRowsInv(subBytesInv(k))), rk[i])]]
           G == [i \in 1 .. 9 |->
                   [k \in Block |-> subBytes(shiftRows(mixCols(roundKey(k, rk[10 - i]))))]]
           first == subBytes(shiftRows(roundKey(key, rk[10])))
           last  == Iterates(9, first, G)[9]
           out   == roundKey(last, rk[0])
           back  == Iterates(9, roundKey(out, rk[0]), F)[9]
<1>1. \A i \in 0 .. 10 : rk[i] \in Block
  BY DEF RoundKeysType
<1>2. \A k, r \in Block :
        /\ roundKey(mixColsInv(shiftRowsInv(subBytesInv(k))), r) \in Block
        /\ subBytes(shiftRows(mixCols(roundKey(k, r)))) \in Block
        /\ roundKey(mixColsInv(shiftRowsInv(subBytesInv(
             subBytes(shiftRows(mixCols(roundKey(k, r))))))), r) = k
  <2> SUFFICES ASSUME NEW k \in Block, NEW r \in Block
               PROVE  /\ roundKey(mixColsInv(shiftRowsInv(subBytesInv(k))), r) \in Block
                      /\ subBytes(shiftRows(mixCols(roundKey(k, r)))) \in Block
                      /\ roundKey(mixColsInv(shiftRowsInv(subBytesInv(
                           subBytes(shiftRows(mixCols(roundKey(k, r))))))), r) = k
    OBVIOUS
  <2> DEFINE a == roundKey(k, r)  b == mixCols(a)  c == shiftRows(b)  d == subBytes(c)
  <2>1. a \in Block /\ roundKey(a, r) = k
    BY KeyInverse
  <2> HIDE DEF a
  <2>2. b \in Block /\ mixColsInv(b) = a
    BY <2>1, MixInverse
  <2> HIDE DEF b
  <2>3. c \in Block /\ shiftRowsInv(c) = b
    BY <2>2, ShiftInverse
  <2> HIDE DEF c
  <2>4. d \in Block /\ subBytesInv(d) = c
    BY <2>3, SubInverse
  <2> HIDE DEF d
  <2>5. roundKey(mixColsInv(shiftRowsInv(subBytesInv(k))), r) \in Block
    BY SubInverse, ShiftInverse, MixInverse, KeyInverse
  <2>6. d \in Block /\ roundKey(mixColsInv(shiftRowsInv(subBytesInv(d))), r) = k
    BY <2>1, <2>2, <2>3, <2>4
  <2> QED BY <2>5, <2>6 DEF a, b, c, d
<1>3. F \in StepsIn(9, Block) /\ G \in StepsIn(9, Block)
  <2>1. \A i \in 1 .. 9 : rk[i] \in Block /\ rk[10 - i] \in Block
    BY <1>1
  <2> QED BY <1>2, <2>1 DEF StepsIn
<1>4. Undoes(G, F, Block)
  <2> SUFFICES ASSUME NEW i \in 1 .. 9, NEW x \in Block PROVE F[10 - i][G[i][x]] = x
    BY DEF Undoes
  <2> DEFINE r == rk[10 - i]
             y == subBytes(shiftRows(mixCols(roundKey(x, r))))
  <2>1. 10 - i \in 1 .. 9 /\ r \in Block
    BY <1>1
  <2>2. G[i][x] = y
    OBVIOUS
  <2>3. y \in Block /\ roundKey(mixColsInv(shiftRowsInv(subBytesInv(y))), r) = x
    BY <1>2, <2>1
  <2> HIDE DEF y
  <2>4. F[10 - i][y] = roundKey(mixColsInv(shiftRowsInv(subBytesInv(y))), r)
    BY <2>1, <2>3
  <2> HIDE DEF F, G
  <2> QED BY <2>2, <2>3, <2>4
<1>5. rk[0] \in Block /\ rk[10] \in Block
  BY <1>1
<1>6. first \in Block /\ roundKey(shiftRowsInv(subBytesInv(first)), rk[10]) = key
  <2> DEFINE a == roundKey(key, rk[10])  c == shiftRows(a)  d == subBytes(c)
  <2>1. a \in Block /\ roundKey(a, rk[10]) = key
    BY <1>5, KeyInverse
  <2> HIDE DEF a
  <2>2. c \in Block /\ shiftRowsInv(c) = a
    BY <2>1, ShiftInverse
  <2> HIDE DEF c
  <2>3. d \in Block /\ subBytesInv(d) = c
    BY <2>2, SubInverse
  <2> QED BY <2>1, <2>2, <2>3 DEF c, a
<1> HIDE DEF F, G, first
<1>7. last \in Block /\ Iterates(9, last, F)[9] = first
  BY <1>3, <1>4, <1>6, RoundsBack
<1> HIDE DEF last
<1>8. out \in Block /\ roundKey(out, rk[0]) = last
  BY <1>5, <1>7, KeyInverse
<1> HIDE DEF out
<1>9. back = first
  BY <1>7, <1>8
<1>10. aesUnscrambleKeyMhy(key, rk) = out
  BY Zenon DEF aesUnscrambleKeyMhy, Unscrambled, out, last, first, G
<1>11. aesScrambleKeyMhy(out, rk) = roundKey(shiftRowsInv(subBytesInv(back)), rk[10])
  BY Zenon DEF aesScrambleKeyMhy, Scrambled, F
<1> QED BY <1>6, <1>8, <1>9, <1>10, <1>11

(* The round constants are bytes.                                          *)
LEMMA RconIn == \A r \in 1 .. 10 : Rcon[r - 1] \in Byte
<1> DEFINE F == [r \in 1 .. 9 |-> Mul2]
<1>1. F \in StepsIn(9, Byte)
  <2>1. Mul2 \in [Byte -> Byte]
    BY MapsLinear, LinearIs
  <2> QED BY <2>1 DEF StepsIn
<1>2. 9 \in Nat /\ 1 \in Byte
  BY Halves
<1> HIDE DEF F
<1>3. Iterated(Iterates(9, 1, F), 9, Byte, 1, F)
  BY <1>1, <1>2, IteratesAre, Zenon
<1>4. Rcon \in [0 .. 9 -> Byte]
  BY <1>3 DEF Rcon, Iterated, F
<1> QED BY <1>4

(* The words of a round key.                                               *)
WordsOf(prev, r) ==
  LET With(word, w) == [p \in 0 .. 3 |-> word[p] (+) prev[4 * w + p]]
      core == [p \in 0 .. 3 |->
                 Sbox[prev[12 + ((p + 1) % 4)]] (+) (IF p = 0 THEN Rcon[r - 1] ELSE 0)]
  IN  [w \in 0 .. 3 |->
         IF w = 0 THEN With(core, 0)
         ELSE IF w = 1 THEN With(With(core, 0), 1)
         ELSE IF w = 2 THEN With(With(With(core, 0), 1), 2)
         ELSE With(With(With(With(core, 0), 1), 2), 3)]

(* A round key consists of its four words, and they hold bytes.            *)
LEMMA WordsAre ==
  \A prev, r : prev \in Block /\ r \in 1 .. 10 =>
    /\ \A w, p \in 0 .. 3 : WordsOf(prev, r)[w][p] \in Byte
    /\ NextRoundKey(prev, r) = [i \in Idx |-> WordsOf(prev, r)[i \div 4][i % 4]]
    /\ NextRoundKey(prev, r) \in Block
<1> SUFFICES ASSUME NEW prev, NEW r, prev \in Block, r \in 1 .. 10
             PROVE  /\ \A w, p \in 0 .. 3 : WordsOf(prev, r)[w][p] \in Byte
                    /\ NextRoundKey(prev, r) = [i \in Idx |-> WordsOf(prev, r)[i \div 4][i % 4]]
                    /\ NextRoundKey(prev, r) \in Block
  OBVIOUS
<1> DEFINE With(word, w) == [p \in 0 .. 3 |-> word[p] (+) prev[4 * w + p]]
           core == [p \in 0 .. 3 |->
                      Sbox[prev[12 + ((p + 1) % 4)]] (+) (IF p = 0 THEN Rcon[r - 1] ELSE 0)]
           w0 == With(core, 0)  w1 == With(w0, 1)  w2 == With(w1, 2)  w3 == With(w2, 3)
           Word == [0 .. 3 -> Byte]
           all == WordsOf(prev, r)
<1>1. core \in Word
  <2>1. Sbox \in [Byte -> Byte]
    BY SboxAssumption, Fun_BijectionProperties
  <2>2. \A p \in 0 .. 3 : prev[12 + ((p + 1) % 4)] \in Byte
    BY DEF Block, Idx
  <2>3. 0 \in Byte /\ Rcon[r - 1] \in Byte
    BY RconIn, Halves
  <2>4. \A p \in 0 .. 3 : (IF p = 0 THEN Rcon[r - 1] ELSE 0) \in Byte
    BY <2>3
  <2>5. \A p \in 0 .. 3 : Sbox[prev[12 + ((p + 1) % 4)]] \in Byte
    BY <2>1, <2>2
  <2> QED BY <2>4, <2>5, XorIn
<1>2. \A word \in Word : \A w \in 0 .. 3 : With(word, w) \in Word
  <2>1. \A w, p \in 0 .. 3 : prev[4 * w + p] \in Byte
    BY DEF Block, Idx
  <2> QED BY <2>1, XorIn
<1>3. w0 \in Word /\ w1 \in Word /\ w2 \in Word /\ w3 \in Word
  <2> HIDE DEF With, core, Word
  <2>1. 0 \in 0 .. 3 /\ 1 \in 0 .. 3 /\ 2 \in 0 .. 3 /\ 3 \in 0 .. 3
    OBVIOUS
  <2> QED BY <1>1, <1>2, <2>1
<1>4. all = [w \in 0 .. 3 |-> IF w = 0 THEN w0 ELSE IF w = 1 THEN w1 ELSE IF w = 2 THEN w2 ELSE w3]
  BY DEF WordsOf
<1>5. NextRoundKey(prev, r) = [i \in Idx |-> <<w0, w1, w2, w3>>[(i \div 4) + 1][i % 4]]
  <2> DEFINE SW(word, w) == Strict([p \in 0 .. 3 |-> word[p] (+) prev[4 * w + p]])
             s0 == SW(core, 0)  s1 == SW(s0, 1)  s2 == SW(s1, 2)  s3 == SW(s2, 3)
  <2>1. \A word, w : SW(word, w) = With(word, w)
    BY StrictIs, Zenon
  <2>2. NextRoundKey(prev, r) = Strict([i \in Idx |-> <<s0, s1, s2, s3>>[(i \div 4) + 1][i % 4]])
    BY DEF NextRoundKey
  <2> HIDE DEF SW, With, core
  <2>3. s0 = w0 /\ s1 = w1 /\ s2 = w2 /\ s3 = w3
    BY <2>1, Zenon
  <2> HIDE DEF s0, s1, s2, s3, w0, w1, w2, w3
  <2>4. NextRoundKey(prev, r) = [i \in Idx |-> <<s0, s1, s2, s3>>[(i \div 4) + 1][i % 4]]
    BY <2>2, StrictIs, Zenon
  <2> QED BY <2>3, <2>4
<1> HIDE DEF all, w0, w1, w2, w3
<1>6. all[0] = w0 /\ all[1] = w1 /\ all[2] = w2 /\ all[3] = w3
  BY <1>4
<1>7. ASSUME NEW i \in Idx
      PROVE  <<w0, w1, w2, w3>>[(i \div 4) + 1][i % 4] = all[i \div 4][i % 4]
             /\ all[i \div 4][i % 4] \in Byte
  <2>1. i \div 4 \in {0, 1, 2, 3} /\ i % 4 \in 0 .. 3
    BY DEF Idx
  <2>2. <<w0, w1, w2, w3>>[(i \div 4) + 1] = all[i \div 4] /\ all[i \div 4] \in Word
    BY <1>3, <1>6, <2>1
  <2> QED BY <2>1, <2>2
<1>8. NextRoundKey(prev, r) = [i \in Idx |-> all[i \div 4][i % 4]]
  BY <1>5, <1>7
<1>9. NextRoundKey(prev, r) \in Block
  BY <1>7, <1>8 DEF Block
<1>10. \A w, p \in 0 .. 3 : all[w][p] \in Byte
  <2>1. \A w \in 0 .. 3 : w \in {0, 1, 2, 3}
    OBVIOUS
  <2>2. \A w \in 0 .. 3 : all[w] \in Word
    BY <1>3, <1>6, <2>1
  <2> QED BY <2>2
<1> QED BY <1>8, <1>9, <1>10 DEF all

-----------------------------------------------------------------------------
(* The round keys of blb3.                                                 *)

Transposed(x) == [i \in Idx |-> x[4 * (i % 4) + (i \div 4)]]

(* Rows for columns.                                                       *)
LEMMA TransposedIs ==
  \A x \in Block :
    /\ Transposed(x) \in Block
    /\ \A row, n \in 0 .. 3 : Transposed(x)[4 * row + n] = x[4 * n + row]
<1> SUFFICES ASSUME NEW x \in Block
             PROVE  /\ Transposed(x) \in Block
                    /\ \A row, n \in 0 .. 3 : Transposed(x)[4 * row + n] = x[4 * n + row]
  OBVIOUS
<1>1. \A i \in Idx : 4 * (i % 4) + (i \div 4) \in Idx
  BY DEF Idx
<1>2. Transposed(x) \in Block
  BY <1>1 DEF Transposed, Block
<1>3. ASSUME NEW row \in 0 .. 3, NEW n \in 0 .. 3
      PROVE  Transposed(x)[4 * row + n] = x[4 * n + row]
  <2> DEFINE i == 4 * row + n
  <2>1. i \in Idx /\ i % 4 = n /\ i \div 4 = row
    BY DEF Idx
  <2> HIDE DEF i
  <2>2. Transposed(x)[i] = x[4 * n + row]
    BY <2>1 DEF Transposed
  <2> QED BY <2>2 DEF i
<1> QED BY <1>2, <1>3

(* Twice is not at all.                                                    *)
LEMMA TransposedTwice ==
  \A x \in Block : Transposed(x) \in Block /\ Transposed(Transposed(x)) = x
<1> SUFFICES ASSUME NEW x \in Block PROVE Transposed(Transposed(x)) = x
  BY TransposedIs
<1>1. \A i \in Idx : Transposed(x)[4 * (i % 4) + (i \div 4)] = x[i]
  <2> SUFFICES ASSUME NEW i \in Idx PROVE Transposed(x)[4 * (i % 4) + (i \div 4)] = x[i]
    OBVIOUS
  <2>1. i % 4 \in 0 .. 3 /\ i \div 4 \in 0 .. 3 /\ 4 * (i \div 4) + (i % 4) = i
    BY DEF Idx
  <2>2. Transposed(x)[4 * (i % 4) + (i \div 4)] = x[4 * (i \div 4) + (i % 4)]
    BY <2>1, TransposedIs
  <2> QED BY <2>1, <2>2
<1> DEFINE y == Transposed(x)
<1>2. Transposed(y) = [i \in Idx |-> y[4 * (i % 4) + (i \div 4)]]
  BY DEF Transposed
<1> HIDE DEF y
<1>3. Transposed(y) = [i \in Idx |-> x[i]]
  BY <1>1, <1>2 DEF y
<1> QED BY <1>3 DEF Block, y

(* The unrolled schedule of blb3 makes the same key, transposed.           *)
LEMMA NextTransposed ==
  \A prev, r : prev \in Block /\ r \in 1 .. 10 =>
    NextRoundKeyBlb3(Transposed(prev), r) = Transposed(NextRoundKey(prev, r))
<1> SUFFICES ASSUME NEW prev, NEW r, prev \in Block, r \in 1 .. 10
             PROVE  NextRoundKeyBlb3(Transposed(prev), r) = Transposed(NextRoundKey(prev, r))
  OBVIOUS
<1> DEFINE P == Transposed(prev)
           a == Sbox[P[11]] (+) P[11]
           b == Sbox[P[15]] (+) P[15]
           c == Sbox[P[7]] (+) Rcon[r - 1] (+) P[0]
           d == Sbox[P[3]] (+) P[3]
           head == <<c, a (+) P[11] (+) P[4], b (+) P[15] (+) P[8], d (+) P[3] (+) P[12]>>
           Column(column, n) == [row \in 0 .. 3 |-> column[row] (+) P[4 * row + n]]
           c0 == [row \in 0 .. 3 |-> head[row + 1]]
           c1 == Column(c0, 1)  c2 == Column(c1, 2)  c3 == Column(c2, 3)
           With(word, w) == [p \in 0 .. 3 |-> word[p] (+) prev[4 * w + p]]
           core == [p \in 0 .. 3 |->
                      Sbox[prev[12 + ((p + 1) % 4)]] (+) (IF p = 0 THEN Rcon[r - 1] ELSE 0)]
           w0 == With(core, 0)  w1 == With(w0, 1)  w2 == With(w1, 2)  w3 == With(w2, 3)
           all == WordsOf(prev, r)
<1>1. \A row, n \in 0 .. 3 : P[4 * row + n] = prev[4 * n + row]
  BY TransposedIs
<1>2. NextRoundKeyBlb3(P, r) = [i \in Idx |-> <<c0, c1, c2, c3>>[(i % 4) + 1][i \div 4]]
  <2> DEFINE SC(column, n) == Strict([row \in 0 .. 3 |-> column[row] (+) P[4 * row + n]])
             s1 == SC(c0, 1)  s2 == SC(s1, 2)  s3 == SC(s2, 3)
  <2>1. \A column, n : SC(column, n) = Column(column, n)
    BY StrictIs, Zenon
  <2>2. NextRoundKeyBlb3(P, r) = Strict([i \in Idx |-> <<c0, s1, s2, s3>>[(i % 4) + 1][i \div 4]])
    <3> HIDE DEF P
    <3> QED BY DEF NextRoundKeyBlb3
  <2> HIDE DEF SC, Column, c0
  <2>3. s1 = c1 /\ s2 = c2 /\ s3 = c3
    BY <2>1, Zenon
  <2> HIDE DEF s1, s2, s3, c1, c2, c3
  <2>4. NextRoundKeyBlb3(P, r) = [i \in Idx |-> <<c0, s1, s2, s3>>[(i % 4) + 1][i \div 4]]
    BY <2>2, StrictIs, Zenon
  <2> QED BY <2>3, <2>4
<1>3. c0 = w0
  <2> DEFINE S(x) == Sbox[prev[x]]
  <2>1. P[11] = prev[14] /\ P[15] = prev[15] /\ P[7] = prev[13] /\ P[3] = prev[12]
        /\ P[0] = prev[0] /\ P[4] = prev[1] /\ P[8] = prev[2] /\ P[12] = prev[3]
    <3>1. \A row, n \in 0 .. 3 : \A x, y \in Int : x = 4 * row + n /\ y = 4 * n + row => P[x] = prev[y]
      BY <1>1
    <3> HIDE DEF P
    <3> QED BY <3>1
  <2>2. \A x \in Idx : prev[x] \in Byte
    BY DEF Block
  <2>3. Sbox \in [Byte -> Byte]
    BY SboxAssumption, Fun_BijectionProperties
  <2>4. \A x \in Idx : S(x) \in Byte
    BY <2>2, <2>3
  <2>5. 12 \in Idx /\ 13 \in Idx /\ 14 \in Idx /\ 15 \in Idx /\ 0 \in Idx /\ 1 \in Idx /\ 2 \in Idx /\ 3 \in Idx
    BY DEF Idx
  <2>6. c = (S(13) (+) Rcon[r - 1]) (+) prev[0]
    BY <2>1
  <2>7. a (+) P[11] (+) P[4] = S(14) (+) prev[1]
    <3>1. a (+) P[11] (+) P[4] = ((S(14) (+) prev[14]) (+) prev[14]) (+) prev[1]
      BY <2>1
    <3> QED BY <2>2, <2>4, <2>5, <3>1, XorCancel
  <2>8. b (+) P[15] (+) P[8] = S(15) (+) prev[2]
    <3>1. b (+) P[15] (+) P[8] = ((S(15) (+) prev[15]) (+) prev[15]) (+) prev[2]
      BY <2>1
    <3> QED BY <2>2, <2>4, <2>5, <3>1, XorCancel
  <2>9. d (+) P[3] (+) P[12] = S(12) (+) prev[3]
    <3>1. d (+) P[3] (+) P[12] = ((S(12) (+) prev[12]) (+) prev[12]) (+) prev[3]
      BY <2>1
    <3> QED BY <2>2, <2>4, <2>5, <3>1, XorCancel
  <2>10. c0 = [row \in 0 .. 3 |-> <<(S(13) (+) Rcon[r - 1]) (+) prev[0], S(14) (+) prev[1],
                                   S(15) (+) prev[2], S(12) (+) prev[3]>>[row + 1]]
    <3> HIDE DEF a, b, c, d, P, S
    <3> QED BY <2>6, <2>7, <2>8, <2>9
  <2>11. ASSUME NEW p \in 0 .. 3
         PROVE  core[p] (+) prev[4 * 0 + p]
                  = <<(S(13) (+) Rcon[r - 1]) (+) prev[0], S(14) (+) prev[1],
                      S(15) (+) prev[2], S(12) (+) prev[3]>>[p + 1]
    <3>1. \A x \in Idx : S(x) (+) 0 = S(x)
      BY <2>4, XorLaws
    <3>2. core[p] = S(12 + ((p + 1) % 4)) (+) (IF p = 0 THEN Rcon[r - 1] ELSE 0)
      OBVIOUS
    <3> HIDE DEF S, core
    <3>3. CASE p = 0
      <4>1. 12 + ((0 + 1) % 4) = 13 /\ 4 * 0 + 0 = 0 /\ 0 + 1 = 1
        OBVIOUS
      <4> QED BY <3>2, <3>3, <4>1
    <3>4. CASE p = 1
      <4>1. 12 + ((1 + 1) % 4) = 14 /\ 4 * 0 + 1 = 1 /\ 1 + 1 = 2
        OBVIOUS
      <4> QED BY <2>5, <3>1, <3>2, <3>4, <4>1
    <3>5. CASE p = 2
      <4>1. 12 + ((2 + 1) % 4) = 15 /\ 4 * 0 + 2 = 2 /\ 2 + 1 = 3
        OBVIOUS
      <4> QED BY <2>5, <3>1, <3>2, <3>5, <4>1
    <3>6. CASE p = 3
      <4>1. 12 + ((3 + 1) % 4) = 12 /\ 4 * 0 + 3 = 3 /\ 3 + 1 = 4
        OBVIOUS
      <4> QED BY <2>5, <3>1, <3>2, <3>6, <4>1
    <3> QED BY <3>3, <3>4, <3>5, <3>6
  <2> HIDE DEF c0, core, S
  <2> QED BY <2>10, <2>11
<1>4. \A word, w : w \in 0 .. 3 => Column(word, w) = With(word, w)
  <2> HIDE DEF P
  <2> QED BY <1>1
<1>5. c1 = w1 /\ c2 = w2 /\ c3 = w3
  <2> HIDE DEF Column, With, c0, w0
  <2>1. 1 \in 0 .. 3 /\ 2 \in 0 .. 3 /\ 3 \in 0 .. 3
    OBVIOUS
  <2> QED BY <1>3, <1>4, <2>1, Zenon
<1>6. all = [w \in 0 .. 3 |-> IF w = 0 THEN w0 ELSE IF w = 1 THEN w1 ELSE IF w = 2 THEN w2 ELSE w3]
  BY DEF WordsOf
<1>7. NextRoundKey(prev, r) = [i \in Idx |-> all[i \div 4][i % 4]]
  BY WordsAre
<1> HIDE DEF P, c0, c1, c2, c3, w0, w1, w2, w3, all
<1>8. ASSUME NEW i \in Idx
      PROVE  <<c0, c1, c2, c3>>[(i % 4) + 1][i \div 4] = NextRoundKey(prev, r)[4 * (i % 4) + (i \div 4)]
  <2> DEFINE j == 4 * (i % 4) + (i \div 4)
  <2>1. i % 4 \in {0, 1, 2, 3} /\ j \in Idx /\ j \div 4 = i % 4 /\ j % 4 = i \div 4
    BY DEF Idx
  <2> HIDE DEF j
  <2>2. NextRoundKey(prev, r)[j] = all[i % 4][i \div 4]
    BY <1>7, <2>1
  <2>3. all[0] = w0 /\ all[1] = w1 /\ all[2] = w2 /\ all[3] = w3
    BY <1>6
  <2>4. <<c0, c1, c2, c3>>[(i % 4) + 1] = all[i % 4]
    BY <1>3, <1>5, <2>1, <2>3
  <2> QED BY <2>2, <2>4 DEF j
<1> QED BY <1>2, <1>8 DEF Transposed, P

(* The schedule makes eleven keys; the unrolled one makes the same,        *)
(* transposed.                                                             *)
LEMMA RoundKeysAre ==
  \A key \in Block :
    /\ aesGetRoundKeys(key) \in RoundKeysType
    /\ \A r \in 0 .. 10 : aesGetRoundKeysBlb3(key)[r] = Transposed(aesGetRoundKeys(key)[r])
<1> SUFFICES ASSUME NEW key \in Block
             PROVE  /\ aesGetRoundKeys(key) \in RoundKeysType
                    /\ \A r \in 0 .. 10 : aesGetRoundKeysBlb3(key)[r] = Transposed(aesGetRoundKeys(key)[r])
  OBVIOUS
<1> DEFINE F == [r \in 1 .. 10 |-> [prev \in Block |-> NextRoundKey(prev, r)]]
           G == [r \in 1 .. 10 |-> [prev \in Block |-> NextRoundKeyBlb3(prev, r)]]
           first == [i \in Idx |-> key[ShiftTblBlb3[i]]]
           s == aesGetRoundKeys(key)
           t == aesGetRoundKeysBlb3(key)
<1>1. F \in StepsIn(10, Block)
  <2>1. \A r \in 1 .. 10 : \A prev \in Block : NextRoundKey(prev, r) \in Block
    BY WordsAre
  <2> QED BY <2>1 DEF StepsIn
<1>2. first = Transposed(key)
  BY DEF ShiftTblBlb3, Transposed
<1>3. 10 \in Nat
  OBVIOUS
<1>4. s = Iterates(10, key, F)
  BY Zenon DEF aesGetRoundKeys, Expanded
<1>5. t = Iterates(10, first, G)
  BY Zenon DEF aesGetRoundKeysBlb3, Expanded
<1>6. Iterated(s, 10, Block, key, F)
  <2> HIDE DEF F, s
  <2> QED BY <1>1, <1>3, <1>4, IteratesAre, Zenon
<1>7. s \in [0 .. 10 -> Block] /\ s[0] = key
      /\ \A r \in 1 .. 10 : s[r] = NextRoundKey(s[r - 1], r)
  <2>1. s \in [0 .. 10 -> Block] /\ s[0] = key /\ \A r \in 1 .. 10 : s[r] = F[r][s[r - 1]]
    BY <1>6, Zenon DEF Iterated
  <2> HIDE DEF s
  <2>2. \A r \in 1 .. 10 : s[r - 1] \in Block
    BY <2>1
  <2> QED BY <2>1, <2>2
<1>8. \A r \in 1 .. 10 : \A prev \in Block :
        NextRoundKeyBlb3(prev, r) = Transposed(NextRoundKey(Transposed(prev), r))
  <2> SUFFICES ASSUME NEW r \in 1 .. 10, NEW prev \in Block
               PROVE  NextRoundKeyBlb3(prev, r) = Transposed(NextRoundKey(Transposed(prev), r))
    OBVIOUS
  <2>1. Transposed(prev) \in Block /\ Transposed(Transposed(prev)) = prev
    BY TransposedTwice
  <2>2. NextRoundKeyBlb3(Transposed(Transposed(prev)), r) = Transposed(NextRoundKey(Transposed(prev), r))
    BY <2>1, NextTransposed
  <2> QED BY <2>1, <2>2
<1>9. G \in StepsIn(10, Block)
  <2>1. \A r \in 1 .. 10 : \A prev \in Block : NextRoundKeyBlb3(prev, r) \in Block
    BY <1>8, WordsAre, TransposedTwice
  <2> QED BY <2>1 DEF StepsIn
<1>10. Iterated(t, 10, Block, first, G)
  <2>1. first \in Block
    BY <1>2, TransposedTwice
  <2> HIDE DEF G, t, first
  <2> QED BY <1>9, <1>3, <1>5, <2>1, IteratesAre, Zenon
<1>11. t \in [0 .. 10 -> Block] /\ t[0] = Transposed(key)
       /\ \A r \in 1 .. 10 : t[r] = NextRoundKeyBlb3(t[r - 1], r)
  <2>1. t \in [0 .. 10 -> Block] /\ t[0] = first /\ \A r \in 1 .. 10 : t[r] = G[r][t[r - 1]]
    BY <1>10, Zenon DEF Iterated
  <2> HIDE DEF t, first
  <2>2. \A r \in 1 .. 10 : t[r - 1] \in Block
    BY <2>1
  <2> QED BY <1>2, <2>1, <2>2
<1> HIDE DEF s, t, F, G
<1>12. \A r \in 0 .. 10 : t[r] = Transposed(s[r])
  <2> DEFINE H == {r \in 0 .. 10 : t[r] = Transposed(s[r])}
  <2>1. 0 \in H
    BY <1>7, <1>11
  <2>2. \A r \in 0 .. 10 - 1 : r \in H => r + 1 \in H
    <3> SUFFICES ASSUME NEW r \in 0 .. 10 - 1, r \in H PROVE t[r + 1] = Transposed(s[r + 1])
      OBVIOUS
    <3>1. t[r] = Transposed(s[r])
      OBVIOUS
    <3> HIDE DEF H
    <3>2. r + 1 \in 1 .. 10 /\ (r + 1) - 1 = r /\ r \in 0 .. 10
      OBVIOUS
    <3>3. s[r] \in Block /\ s[r + 1] = NextRoundKey(s[r], r + 1) /\ t[r + 1] = NextRoundKeyBlb3(t[r], r + 1)
      BY <1>7, <1>11, <3>2
    <3> QED BY <3>1, <3>2, <3>3, NextTransposed
  <2> HIDE DEF H
  <2>3. 0 .. 10 \subseteq H
    BY <1>3, <2>1, <2>2, UpTo
  <2> QED BY <2>3 DEF H
<1> QED BY <1>7, <1>12 DEF RoundKeysType, s, t

(* Other round keys and another way to index them, the same function.      *)
LEMMA AesAgree ==
  ASSUME NEW key \in Block, NEW xor_key \in Block
  PROVE  LET rk == aesGetRoundKeys(xor_key)  rb == aesGetRoundKeysBlb3(xor_key)
         IN  /\ aesScrambleKeyBlb3(key, rb) = aesScrambleKey(key, rk)
             /\ aesUnscrambleKeyBlb3(key, rb) = aesUnscrambleKey(key, rk)
<1> DEFINE rk == aesGetRoundKeys(xor_key)
           rb == aesGetRoundKeysBlb3(xor_key)
<1>1. \A k : \A r \in 0 .. 10 : roundKeyBlb3(k, rb[r]) = roundKey(k, rk[r])
  <2> SUFFICES ASSUME NEW k, NEW r \in 0 .. 10 PROVE roundKeyBlb3(k, rb[r]) = roundKey(k, rk[r])
    OBVIOUS
  <2>1. rb[r] = Transposed(rk[r]) /\ rk[r] \in Block
    BY RoundKeysAre DEF RoundKeysType
  <2> HIDE DEF rb, rk
  <2>2. roundKeyBlb3(k, rb[r]) = [i \in Idx |-> k[i] (+) rb[r][4 * (i % 4) + (i \div 4)]]
    BY StrictIs, Zenon DEF roundKeyBlb3
  <2>3. roundKey(k, rk[r]) = [i \in Idx |-> k[i] (+) rk[r][i]]
    BY StrictIs, Zenon DEF roundKey
  <2>4. \A i \in Idx : rb[r][4 * (i % 4) + (i \div 4)] = rk[r][i]
    <3> SUFFICES ASSUME NEW i \in Idx PROVE Transposed(rk[r])[4 * (i % 4) + (i \div 4)] = rk[r][i]
      BY <2>1
    <3>1. i % 4 \in 0 .. 3 /\ i \div 4 \in 0 .. 3 /\ 4 * (i \div 4) + (i % 4) = i
      BY DEF Idx
    <3>2. Transposed(rk[r])[4 * (i % 4) + (i \div 4)] = rk[r][4 * (i \div 4) + (i % 4)]
      BY <2>1, <3>1, TransposedIs
    <3> QED BY <3>1, <3>2
  <2> QED BY <2>2, <2>3, <2>4
<1> HIDE DEF rk, rb
<1>2. 0 \in 0 .. 10 /\ 10 \in 0 .. 10 /\ \A i \in 1 .. 9 : i \in 0 .. 10 /\ 10 - i \in 0 .. 10
  OBVIOUS
<1>3. aesScrambleKeyBlb3(key, rb) = aesScrambleKey(key, rk)
  <2> DEFINE F == [i \in 1 .. 9 |-> [k \in Block |-> roundKey(mixCols(shiftRows(subBytes(k))), rk[i])]]
             G == [i \in 1 .. 9 |-> [k \in Block |-> roundKeyBlb3(mixCols(shiftRows(subBytes(k))), rb[i])]]
             f == Iterates(9, roundKey(key, rk[0]), F)[9]
             g == Iterates(9, roundKeyBlb3(key, rb[0]), G)[9]
  <2>1. F = G
    BY <1>1, <1>2
  <2>2. aesScrambleKey(key, rk) = roundKey(shiftRows(subBytes(f)), rk[10])
    BY Zenon DEF aesScrambleKey, Scrambled
  <2>3. aesScrambleKeyBlb3(key, rb) = roundKeyBlb3(shiftRows(subBytes(g)), rb[10])
    BY Zenon DEF aesScrambleKeyBlb3, Scrambled
  <2> HIDE DEF F, G
  <2>4. f = g
    BY <1>1, <1>2, <2>1
  <2> HIDE DEF f, g
  <2> QED BY <1>1, <1>2, <2>2, <2>3, <2>4
<1>4. aesUnscrambleKeyBlb3(key, rb) = aesUnscrambleKey(key, rk)
  <2> DEFINE F == [i \in 1 .. 9 |->
                     [k \in Block |-> subBytesInv(shiftRowsInv(mixColsInv(roundKey(k, rk[10 - i]))))]]
             G == [i \in 1 .. 9 |->
                     [k \in Block |-> subBytesInv(shiftRowsInv(mixColsInv(roundKeyBlb3(k, rb[10 - i]))))]]
             f == Iterates(9, subBytesInv(shiftRowsInv(roundKey(key, rk[10]))), F)[9]
             g == Iterates(9, subBytesInv(shiftRowsInv(roundKeyBlb3(key, rb[10]))), G)[9]
  <2>1. F = G
    BY <1>1, <1>2
  <2>2. aesUnscrambleKey(key, rk) = roundKey(f, rk[0])
    BY Zenon DEF aesUnscrambleKey, Unscrambled
  <2>3. aesUnscrambleKeyBlb3(key, rb) = roundKeyBlb3(g, rb[0])
    BY Zenon DEF aesUnscrambleKeyBlb3, Unscrambled
  <2> HIDE DEF F, G
  <2>4. f = g
    BY <1>1, <1>2, <2>1
  <2> HIDE DEF f, g
  <2> QED BY <1>1, <1>2, <2>2, <2>3, <2>4
<1> QED BY <1>3, <1>4 DEF rk, rb

-----------------------------------------------------------------------------
(* The rounds of lookup tables.                                            *)

(* The bytes are finitely many, and all but one are not zero.              *)
LEMMA ByteSet ==
  IsFiniteSet(Byte) /\ IsFiniteSet(Byte \ {0}) /\ Cardinality(Byte \ {0}) = Q - 1 /\ 0 \in Byte
<1>1. Q \in Nat /\ Q >= 2
  BY QIs
<1>2. 0 \in Int /\ Q - 1 \in Int
  BY <1>1
<1>3. IsFiniteSet(0 .. Q - 1) /\ Cardinality(0 .. Q - 1) = IF 0 > Q - 1 THEN 0 ELSE (Q - 1) - 0 + 1
  BY <1>2, FS_Interval
<1>4. IsFiniteSet(Byte) /\ Cardinality(Byte) = Q /\ 0 \in Byte
  BY <1>1, <1>3 DEF Byte
<1>5. IsFiniteSet(Byte \ {0}) /\ Cardinality(Byte \ {0}) = IF 0 \in Byte THEN Cardinality(Byte) - 1 ELSE Cardinality(Byte)
  BY <1>4, FS_RemoveElement
<1> QED BY <1>1, <1>4, <1>5

(* Each exponent below Q - 1 gives another product, none of them 0.        *)
LEMMA Logarithms ==
  /\ \A x \in Byte \ {0} : Gf256Log[x] \in 0 .. Q - 2 /\ Gf256Exp[Gf256Log[x]] = x
  /\ \A n \in 0 .. Q - 2 : Gf256Exp[n] \in Byte \ {0} /\ Gf256Log[Gf256Exp[n]] = n
<1> DEFINE B == Byte \ {0}
           E == 0 .. Q - 2
<1>1. \A x \in B : Gf256Log[x] \in E /\ Gf256Exp[Gf256Log[x]] = x
  <2> SUFFICES ASSUME NEW x \in B PROVE Gf256Log[x] \in E /\ Gf256Exp[Gf256Log[x]] = x
    OBVIOUS
  <2>1. Gf256Log[x] = CHOOSE n \in E : Gf256Exp[n] = x
    BY DEF Gf256Log
  <2>2. \E n \in E : Gf256Exp[n] = x
    BY GeneratorAssumption
  <2> HIDE DEF E
  <2> QED BY <2>1, <2>2
<1>2. Gf256Log \in [B -> E]
  <2> HIDE DEF E
  <2>1. Gf256Log = [x \in B |-> Gf256Log[x]]
    BY DEF Gf256Log
  <2> QED BY <1>1, <2>1
<1>3. Gf256Log \in Injection(B, E)
  <2> HIDE DEF B, E
  <2>1. \A a, b \in B : Gf256Log[a] = Gf256Log[b] => a = b
    BY <1>1
  <2> QED BY <1>2, <2>1, Fun_IsInj
<1>4. IsFiniteSet(E) /\ Cardinality(E) = Q - 1
  <2>1. Q \in Nat /\ Q >= 2 /\ 0 \in Int /\ Q - 2 \in Int
    BY QIs
  <2>2. IsFiniteSet(0 .. Q - 2) /\ Cardinality(0 .. Q - 2) = IF 0 > Q - 2 THEN 0 ELSE (Q - 2) - 0 + 1
    BY <2>1, FS_Interval
  <2> QED BY <2>1, <2>2
<1>5. IsFiniteSet(B) /\ Cardinality(B) = Q - 1
  BY ByteSet
<1>6. Gf256Log \in Surjection(B, E)
  <2> HIDE DEF B, E
  <2> QED BY <1>3, <1>4, <1>5, FS_Injection
<1>7. \A n \in E : \E x \in B : Gf256Log[x] = n
  <2> HIDE DEF B, E
  <2> QED BY <1>6, Fun_SurjectionProperties
<1>8. \A n \in E : Gf256Exp[n] \in B /\ Gf256Log[Gf256Exp[n]] = n
  <2> HIDE DEF B, E
  <2> QED BY <1>1, <1>7
<1> QED BY <1>1, <1>8

(* Division undoes multiplication.                                         *)
LEMMA Divided ==
  \A l, g : l \in Byte /\ g \in Byte \ {0} =>
    gf256div(l, g) \in Byte /\ gf256mul(g, gf256div(l, g)) = l
<1> SUFFICES ASSUME NEW l, NEW g, l \in Byte, g \in Byte \ {0}
             PROVE  gf256div(l, g) \in Byte /\ gf256mul(g, gf256div(l, g)) = l
  OBVIOUS
<1>1. CASE l = 0
  BY <1>1 DEF gf256div, gf256mul
<1>2. CASE l # 0
  <2> DEFINE w == Q - 1
             x == Gf256Log[l]
             y == Gf256Log[g]
             e == (w + x - y) % w
             d == Gf256Exp[e]
  <2>1. w \in Nat \ {0}
    BY QIs
  <2>2. x \in 0 .. Q - 2 /\ y \in 0 .. Q - 2 /\ Gf256Exp[x] = l
    BY <1>2, Logarithms
  <2>3. x \in 0 .. w - 1 /\ y \in 0 .. w - 1 /\ x \in Nat /\ y \in Nat
    BY <2>1, <2>2, QIs
  <2>4. gf256div(l, g) = d
    BY <1>2 DEF gf256div
  <2> HIDE DEF w, x, y
  <2>5. e \in 0 .. w - 1 /\ (y + e) % w = x
    <3>1. CASE x >= y
      <4> DEFINE a == w + x - y
      <4>1. a \in Nat /\ a >= w /\ a - w = x - y /\ x - y \in Nat /\ x - y < w
        BY <2>1, <2>3, <3>1
      <4> HIDE DEF a
      <4>2. a % w = (a - w) % w
        BY <2>1, <4>1, ModLess
      <4>3. (x - y) % w = x - y
        BY <2>1, <4>1, ModLess
      <4>4. e = x - y
        BY <4>1, <4>2, <4>3 DEF a
      <4>5. x % w = x /\ y + (x - y) = x
        BY <2>1, <2>3, ModLess
      <4>6. e \in 0 .. w - 1
        BY <2>1, <4>1, <4>4
      <4> HIDE DEF e
      <4> QED BY <4>4, <4>5, <4>6
    <3>2. CASE ~(x >= y)
      <4> DEFINE a == w + x - y
      <4>1. a \in Nat /\ a < w
        BY <2>1, <2>3, <3>2
      <4> HIDE DEF a
      <4>2. a % w = a
        BY <2>1, <4>1, ModLess
      <4>3. e = a
        BY <4>2 DEF a
      <4>4. y + a = w + x
        BY <2>1, <2>3 DEF a
      <4> DEFINE b == w + x
      <4>5. b \in Nat /\ b >= w /\ b - w = x
        BY <2>1, <2>3
      <4> HIDE DEF b
      <4>6. b % w = (b - w) % w
        BY <2>1, <4>5, ModLess
      <4>7. x % w = x
        BY <2>1, <2>3, ModLess
      <4> HIDE DEF e
      <4>8. (y + e) % w = x
        BY <4>3, <4>4, <4>5, <4>6, <4>7 DEF b
      <4>9. a \in 0 .. w - 1
        BY <2>1, <4>1
      <4> QED BY <4>3, <4>8, <4>9
    <3> QED BY <3>1, <3>2
  <2>6. e \in 0 .. Q - 2
    <3> HIDE DEF e
    <3> QED BY <2>1, <2>5, QIs DEF w
  <2> HIDE DEF e
  <2>7. d \in Byte /\ d # 0 /\ Gf256Log[d] = e
    BY <2>6, Logarithms
  <2> HIDE DEF d
  <2>8. gf256mul(g, d) = Gf256Exp[(y + e) % w]
    BY <2>7 DEF gf256mul, w, y
  <2> QED BY <2>2, <2>4, <2>5, <2>7, <2>8
<1> QED BY <1>1, <1>2

(* An injection of a finite set into itself takes every value, once.       *)
LEMMA OntoFinite ==
  \A S, f : IsFiniteSet(S) /\ f \in [S -> S] /\ IsInjective(f) =>
    /\ \A t \in S : \E s \in S : f[s] = t
    /\ \A a, b \in S : f[a] = f[b] => a = b
<1> SUFFICES ASSUME NEW S, NEW f, IsFiniteSet(S), f \in [S -> S], IsInjective(f)
             PROVE  /\ \A t \in S : \E s \in S : f[s] = t
                    /\ \A a, b \in S : f[a] = f[b] => a = b
  OBVIOUS
<1>1. \A a, b \in S : f[a] = f[b] => a = b
  BY DEF IsInjective
<1>2. f \in Injection(S, S)
  BY <1>1, Fun_IsInj
<1>3. f \in Surjection(S, S)
  BY <1>2, FS_Injection
<1>4. \A t \in S : \E s \in S : f[s] = t
  BY <1>3, Fun_SurjectionProperties
<1> QED BY <1>1, <1>4

(* The offsets in a block are finitely many.                               *)
LEMMA IdxFinite == IsFiniteSet(Idx)
<1>1. 0 \in Int /\ 15 \in Int
  OBVIOUS
<1> QED BY <1>1, FS_Interval DEF Idx

(* Mixing is undone table by table.                                        *)
LEMMA RoundMixed ==
  \A T, j, b : TablesMatch(T) /\ j \in 0 .. 2 /\ b \in Block =>
    MixRound(T, j, b) \in Block /\ UnmixRound(T, j, MixRound(T, j, b)) = b
<1> SUFFICES ASSUME NEW T, NEW j, NEW b, TablesMatch(T), j \in 0 .. 2, b \in Block
             PROVE  MixRound(T, j, b) \in Block /\ UnmixRound(T, j, MixRound(T, j, b)) = b
  OBVIOUS
<1> DEFINE lut == T.lut[j]
           K(v) == CHOOSE x \in Idx : lut[x] = v
           L(k) == CHOOSE x \in Byte : T.tbl[k % 4][x] = T.key[k % 8] (+) b[k]
           out == MixRound(T, j, b)
<1>1. /\ lut \in [Idx -> Idx] /\ IsInjective(lut)
      /\ T.key \in [0 .. 7 -> Byte] /\ T.gf_idx \in [0 .. 7 -> Byte \ {0}]
      /\ \A r \in 0 .. 3 : T.tbl[r] \in [Byte -> Byte] /\ IsInjective(T.tbl[r])
  BY DEF TablesMatch
<1> HIDE DEF lut
<1>2. /\ \A v \in Idx : \E x \in Idx : lut[x] = v
      /\ \A x, y \in Idx : lut[x] = lut[y] => x = y
  BY <1>1, IdxFinite, OntoFinite
<1>3. \A r \in 0 .. 3 : \A y \in Byte : \E x \in Byte : T.tbl[r][x] = y
  <2> SUFFICES ASSUME NEW r \in 0 .. 3 PROVE \A y \in Byte : \E x \in Byte : T.tbl[r][x] = y
    OBVIOUS
  <2> DEFINE f == T.tbl[r]
  <2>1. f \in [Byte -> Byte] /\ IsInjective(f)
    BY <1>1
  <2> HIDE DEF f
  <2>2. \A y \in Byte : \E x \in Byte : f[x] = y
    BY <2>1, ByteSet, OntoFinite
  <2> QED BY <2>2 DEF f
<1>4. \A v \in Idx : K(v) \in Idx /\ lut[K(v)] = v
  BY <1>2
<1>5. \A k \in Idx : K(lut[k]) = k
  BY <1>1, <1>2, <1>4
<1>6. \A k \in Idx : /\ k % 4 \in 0 .. 3 /\ k % 8 \in 0 .. 7
  BY DEF Idx
<1>7. \A k \in Idx : T.key[k % 8] \in Byte /\ T.gf_idx[k % 8] \in Byte \ {0} /\ b[k] \in Byte
  BY <1>1, <1>6 DEF Block
<1>8. \A k \in Idx : L(k) \in Byte /\ T.tbl[k % 4][L(k)] = T.key[k % 8] (+) b[k]
  <2> SUFFICES ASSUME NEW k \in Idx PROVE L(k) \in Byte /\ T.tbl[k % 4][L(k)] = T.key[k % 8] (+) b[k]
    OBVIOUS
  <2>1. T.key[k % 8] (+) b[k] \in Byte
    BY <1>7, XorIn
  <2>2. \E x \in Byte : T.tbl[k % 4][x] = T.key[k % 8] (+) b[k]
    BY <1>3, <1>6, <2>1
  <2> QED BY <2>2
<1>9. out = [v \in Idx |-> gf256div(L(K(v)), T.gf_idx[K(v) % 8])]
  BY StrictIs, Zenon DEF MixRound, lut
<1> HIDE DEF out, L, K
<1>10. \A k \in Idx : /\ gf256div(L(k), T.gf_idx[k % 8]) \in Byte
                      /\ gf256mul(T.gf_idx[k % 8], gf256div(L(k), T.gf_idx[k % 8])) = L(k)
  BY <1>7, <1>8, Divided
<1>11. out \in Block
  BY <1>4, <1>9, <1>10 DEF Block
<1>12. \A k \in Idx : out[lut[k]] = gf256div(L(k), T.gf_idx[k % 8])
  BY <1>1, <1>5, <1>9
<1>13. UnmixRound(T, j, out)
         = [k \in Idx |-> T.tbl[k % 4][gf256mul(T.gf_idx[k % 8], out[lut[k]])] (+) T.key[k % 8]]
  BY StrictIs, Zenon DEF UnmixRound, lut
<1>14. ASSUME NEW k \in Idx
       PROVE  T.tbl[k % 4][gf256mul(T.gf_idx[k % 8], out[lut[k]])] (+) T.key[k % 8] = b[k]
  <2>1. gf256mul(T.gf_idx[k % 8], out[lut[k]]) = L(k)
    BY <1>10, <1>12
  <2>2. T.tbl[k % 4][L(k)] = b[k] (+) T.key[k % 8]
    BY <1>7, <1>8, XorComm
  <2>3. (b[k] (+) T.key[k % 8]) (+) T.key[k % 8] = b[k]
    BY <1>7, XorCancel
  <2> QED BY <2>1, <2>2, <2>3
<1>15. UnmixRound(T, j, out) = [k \in Idx |-> b[k]]
  BY <1>13, <1>14
<1> QED BY <1>11, <1>15 DEF out, Block

(* The three rounds are undone in the order of decryption.                 *)
LEMMA Unmixes ==
  \A T, b : TablesMatch(T) /\ b \in Block => Mixed3(T, b) \in Block /\ Unmixed(T, Mixed3(T, b)) = b
<1> SUFFICES ASSUME NEW T, NEW b, TablesMatch(T), b \in Block
             PROVE  Mixed3(T, b) \in Block /\ Unmixed(T, Mixed3(T, b)) = b
  OBVIOUS
<1> DEFINE x == MixRound(T, 0, b)  y == MixRound(T, 1, x)  z == MixRound(T, 2, y)
<1>1. 0 \in 0 .. 2 /\ 1 \in 0 .. 2 /\ 2 \in 0 .. 2
  OBVIOUS
<1>2. x \in Block /\ UnmixRound(T, 0, x) = b
  BY <1>1, RoundMixed
<1> HIDE DEF x
<1>3. y \in Block /\ UnmixRound(T, 1, y) = x
  BY <1>1, <1>2, RoundMixed
<1> HIDE DEF y
<1>4. z \in Block /\ UnmixRound(T, 2, z) = y
  BY <1>1, <1>3, RoundMixed
<1> HIDE DEF z
<1>5. Mixed3(T, b) = z /\ Unmixed(T, z) = UnmixRound(T, 0, UnmixRound(T, 1, UnmixRound(T, 2, z)))
  BY DEF Mixed3, Unmixed, z, y, x
<1> QED BY <1>2, <1>3, <1>4, <1>5

-----------------------------------------------------------------------------
(* rc4.                                                                    *)

Key8  == [0 .. 7 -> Byte]
Table == [Byte -> Byte]

(* A remainder by the number of bytes is a byte.                           *)
LEMMA ModByte == \A x \in Nat : x % Q \in Byte /\ x % Q \in Nat
<1> SUFFICES ASSUME NEW x \in Nat PROVE x % Q \in Byte /\ x % Q \in Nat
  OBVIOUS
<1>1. Q \in Nat \ {0}
  BY QIs
<1>2. x % Q \in 0 .. Q - 1
  BY <1>1, ModLess
<1> QED BY <1>1, <1>2 DEF Byte

(* Bytes are numbers.                                                      *)
LEMMA ByteNat == \A x \in Byte : x \in Nat
BY QIs DEF Byte

(* Swapping two entries gives a table.                                     *)
LEMMA SwappedIn == \A s, i, j : s \in Table /\ i \in Byte /\ j \in Byte => Swapped(s, i, j) \in Table
<1> SUFFICES ASSUME NEW s, NEW i, NEW j, s \in Table, i \in Byte, j \in Byte
             PROVE  Swapped(s, i, j) \in Table
  OBVIOUS
<1>1. Swapped(s, i, j) = [s EXCEPT ![i] = s[j], ![j] = s[i]]
  BY StrictIs, Zenon DEF Swapped
<1> QED BY <1>1 DEF Table

(* With a key of 8 bytes the other index of blb3 reads the same ones.      *)
LEMMA SameKeyBytes == \A key : \A i \in Nat : KeyAtBlb3(key, i) = KeyAt(key, i)
<1> SUFFICES ASSUME NEW key, NEW i \in Nat, i % 2 = 0 PROVE key[2 * ((i % 8) \div 2)] = key[i % 8]
  BY DEF KeyAtBlb3, KeyAt
<1>1. 2 * ((i % 8) \div 2) = i % 8
  OBVIOUS
<1> QED BY <1>1

MixStates == [s : Table, j : Byte]

(* The key schedule of rc4 makes a table, and that of blb3 the same one.   *)
LEMMA MixedIn ==
  \A key \in Key8 : /\ Mixed(key, KeyAt) \in Table
                    /\ Mixed(key, KeyAtBlb3) = Mixed(key, KeyAt)
<1> SUFFICES ASSUME NEW key \in Key8
             PROVE  /\ Mixed(key, KeyAt) \in Table
                    /\ Mixed(key, KeyAtBlb3) = Mixed(key, KeyAt)
  OBVIOUS
<1> DEFINE J(was, i) == (was.j + was.s[i - 1] + KeyAt(key, i - 1)) % Q
           JB(was, i) == (was.j + was.s[i - 1] + KeyAtBlb3(key, i - 1)) % Q
           step == [i \in 1 .. Q |-> [was \in MixStates |->
                      [s |-> Swapped(was.s, i - 1, J(was, i)), j |-> J(was, i)]]]
           stepB == [i \in 1 .. Q |-> [was \in MixStates |->
                      [s |-> Swapped(was.s, i - 1, JB(was, i)), j |-> JB(was, i)]]]
           first == [s |-> rc4_init_tbl, j |-> 0]
           u == Iterates(Q, first, step)
<1>1. Q \in Nat
  BY QIs
<1>2. \A i \in 1 .. Q : i - 1 \in Byte /\ i - 1 \in Nat
  BY <1>1 DEF Byte
<1>3. step = stepB
  <2>1. \A i \in 1 .. Q : KeyAtBlb3(key, i - 1) = KeyAt(key, i - 1)
    BY <1>2, SameKeyBytes
  <2>2. \A i \in 1 .. Q : \A was : JB(was, i) = J(was, i)
    BY <2>1
  <2> HIDE DEF J, JB
  <2> QED BY <2>2
<1>4. step \in StepsIn(Q, MixStates)
  <2> SUFFICES ASSUME NEW i \in 1 .. Q, NEW was \in MixStates
               PROVE  [s |-> Swapped(was.s, i - 1, J(was, i)), j |-> J(was, i)] \in MixStates
    BY DEF StepsIn
  <2>1. was.s \in Table /\ was.j \in Byte
    BY DEF MixStates
  <2>2. was.s[i - 1] \in Byte
    BY <1>2, <2>1 DEF Table
  <2>3. KeyAt(key, i - 1) \in Byte
    <3>1. (i - 1) % 8 \in 0 .. 7
      BY <1>2
    <3> QED BY <3>1 DEF Key8, KeyAt
  <2>4. was.j + was.s[i - 1] + KeyAt(key, i - 1) \in Nat
    BY <2>1, <2>2, <2>3, ByteNat
  <2>5. J(was, i) \in Byte
    BY <2>4, ModByte
  <2> HIDE DEF J
  <2>6. Swapped(was.s, i - 1, J(was, i)) \in Table
    BY <1>2, <2>1, <2>5, SwappedIn
  <2> QED BY <2>5, <2>6 DEF MixStates
<1>5. first \in MixStates
  BY InitTableAssumption, Halves DEF MixStates, Table
<1>6. Mixed(key, KeyAt) = u[Q].s
  BY Zenon DEF Mixed, MixStates, Table
<1>7. Mixed(key, KeyAtBlb3) = Iterates(Q, first, stepB)[Q].s
  BY Zenon DEF Mixed, MixStates, Table
<1> HIDE DEF first, step, stepB
<1>8. Iterated(u, Q, MixStates, first, step)
  BY <1>1, <1>4, <1>5, IteratesAre, Zenon
<1>9. Q \in 0 .. Q
  BY <1>1
<1>10. u[Q] \in MixStates
  BY <1>8, <1>9 DEF Iterated
<1> HIDE DEF u
<1>11. u[Q].s \in Table
  BY <1>10 DEF MixStates
<1> QED BY <1>3, <1>6, <1>7, <1>11 DEF u

(* Adding and subtracting a byte undo each other, whichever wraps around.  *)
LEMMA AddBack ==
  \A x, y \in Byte : ((((x + y) % Q) - y) + Q) % Q = x /\ ((((x - y) + Q) % Q) + y) % Q = x
<1> SUFFICES ASSUME NEW x \in Byte, NEW y \in Byte
             PROVE  ((((x + y) % Q) - y) + Q) % Q = x /\ ((((x - y) + Q) % Q) + y) % Q = x
  OBVIOUS
<1>1. Q \in Nat \ {0} /\ x \in Nat /\ y \in Nat /\ x < Q /\ y < Q
  BY QIs DEF Byte
<1> DEFINE a == x + y  b == (x - y) + Q  c == x + Q
<1>2. a \in Nat /\ b \in Nat /\ c \in Nat /\ c >= Q /\ c - Q = x
  BY <1>1
<1>3. (a < Q => a % Q = a) /\ (a >= Q => (a - Q) % Q = a % Q)
  BY <1>1, <1>2, ModLess
<1>4. (b < Q => b % Q = b) /\ (b >= Q => (b - Q) % Q = b % Q)
  BY <1>1, <1>2, ModLess
<1>5. c % Q = x
  <2>1. (c - Q) % Q = c % Q
    BY <1>1, <1>2, ModLess
  <2>2. x % Q = x
    BY <1>1, ModLess
  <2> QED BY <1>2, <2>1, <2>2
<1>6. x % Q = x
  BY <1>1, ModLess
<1>7. ((a % Q) - y) + Q \in {x, c}
  <2>1. CASE a < Q
    BY <1>1, <1>3, <2>1
  <2>2. CASE a >= Q
    <3>1. a - Q \in Nat /\ a - Q < Q
      BY <1>1, <2>2
    <3>2. (a - Q) % Q = a - Q
      BY <1>1, <3>1, ModLess
    <3> QED BY <1>1, <1>3, <2>2, <3>2
  <2> QED BY <1>1, <1>2, <2>1, <2>2
<1>8. (b % Q) + y \in {x, c}
  <2>1. CASE b < Q
    BY <1>1, <1>4, <2>1
  <2>2. CASE b >= Q
    <3>1. b - Q \in Nat /\ b - Q < Q
      BY <1>1, <2>2
    <3>2. (b - Q) % Q = b - Q
      BY <1>1, <3>1, ModLess
    <3> QED BY <1>1, <1>4, <2>2, <3>2
  <2> QED BY <1>1, <1>2, <2>1, <2>2
<1> HIDE DEF c
<1> QED BY <1>5, <1>6, <1>7, <1>8

ByteOps == [Byte -> [Byte -> [0 .. 2 -> Byte]]]

AppliedTable == [x \in Byte |-> [y \in Byte |-> [w \in 0 .. 2 |-> Applied(x, y, w)]]]
UndoneTable  == [x \in Byte |-> [y \in Byte |-> [w \in 0 .. 2 |-> Undone(x, y, w)]]]

(* The operation that decryption takes by op undoes the one that           *)
(* encryption takes.                                                       *)
LEMMA OpsInverse ==
  /\ AppliedTable \in ByteOps /\ UndoneTable \in ByteOps
  /\ \A x, y \in Byte : \A w \in 0 .. 2 :
       /\ Undone(x, y, w) \in Byte
       /\ Applied(Undone(x, y, w), y, w) = x
<1>1. \A x, y \in Byte : (x + y) % Q \in Byte /\ ((x - y) + Q) % Q \in Byte
  <2> SUFFICES ASSUME NEW x \in Byte, NEW y \in Byte
               PROVE  (x + y) % Q \in Byte /\ ((x - y) + Q) % Q \in Byte
    OBVIOUS
  <2>1. x + y \in Nat /\ (x - y) + Q \in Nat
    BY QIs DEF Byte
  <2> QED BY <2>1, ModByte
<1>2. \A w \in 0 .. 2 : w \in {0, 1, 2}
  OBVIOUS
<1>3. \A x, y : /\ Applied(x, y, 0) = x (+) y /\ Undone(x, y, 0) = x (+) y
                /\ Applied(x, y, 1) = ((x - y) + Q) % Q /\ Undone(x, y, 1) = (x + y) % Q
                /\ Applied(x, y, 2) = (x + y) % Q /\ Undone(x, y, 2) = ((x - y) + Q) % Q
  BY DEF Applied, Undone
<1>4. \A x, y \in Byte : \A w \in 0 .. 2 : Applied(x, y, w) \in Byte /\ Undone(x, y, w) \in Byte
  BY <1>1, <1>2, <1>3, XorIn
<1>5. \A x, y \in Byte : \A w \in 0 .. 2 : Applied(Undone(x, y, w), y, w) = x
  <2> SUFFICES ASSUME NEW x \in Byte, NEW y \in Byte, NEW w \in 0 .. 2
               PROVE  Applied(Undone(x, y, w), y, w) = x
    OBVIOUS
  <2>1. CASE w = 0
    <3>1. Applied(Undone(x, y, 0), y, 0) = (x (+) y) (+) y
      BY <1>3
    <3> QED BY <2>1, <3>1, XorCancel
  <2>2. CASE w = 1
    <3>1. Applied(Undone(x, y, 1), y, 1) = ((((x + y) % Q) - y) + Q) % Q
      BY <1>3
    <3> QED BY <2>2, <3>1, AddBack
  <2>3. CASE w = 2
    <3>1. Applied(Undone(x, y, 2), y, 2) = ((((x - y) + Q) % Q) + y) % Q
      BY <1>3
    <3> QED BY <2>3, <3>1, AddBack
  <2> QED BY <1>2, <2>1, <2>2, <2>3
<1>6. AppliedTable \in ByteOps
  BY <1>4 DEF AppliedTable, ByteOps
<1>7. UndoneTable \in ByteOps
  BY <1>4 DEF UndoneTable, ByteOps
<1> QED BY <1>4, <1>5, <1>6, <1>7

GenStates == [s : Table, j : Byte, k : Byte]

GenNext(was) ==
  LET j == (was.j + 1) % Q
      k == (was.k + was.s[j]) % Q
  IN  [s |-> Swapped(was.s, j, k), j |-> j, k |-> k]

KeyByte(g)    == g.s[(g.s[g.k] + g.s[g.j]) % Q]
Choice(ks, g) == ks[g.j % 8] % 3

(* A step of the generator stays in its states.                            *)
LEMMA GenNextIn == \A g \in GenStates : GenNext(g) \in GenStates
<1> SUFFICES ASSUME NEW g \in GenStates PROVE GenNext(g) \in GenStates
  OBVIOUS
<1> DEFINE j == (g.j + 1) % Q
           k == (g.k + g.s[j]) % Q
<1>1. g.s \in Table /\ g.j \in Byte /\ g.k \in Byte
  BY DEF GenStates
<1>2. j \in Byte
  <2>1. g.j + 1 \in Nat
    BY <1>1, ByteNat
  <2> QED BY <2>1, ModByte
<1> HIDE DEF j
<1>3. k \in Byte
  <2>1. g.s[j] \in Byte
    BY <1>1, <1>2 DEF Table
  <2>2. g.k + g.s[j] \in Nat
    BY <1>1, <2>1, ByteNat
  <2> QED BY <2>2, ModByte
<1> HIDE DEF k
<1>4. Swapped(g.s, j, k) \in Table
  BY <1>1, <1>2, <1>3, SwappedIn
<1>5. GenNext(g) = [s |-> Swapped(g.s, j, k), j |-> j, k |-> k]
  BY DEF GenNext, j, k
<1> QED BY <1>2, <1>3, <1>4, <1>5 DEF GenStates

(* It yields a byte, which selects one of three operations.                *)
LEMMA KeyByteIn ==
  \A g, ks : g \in GenStates /\ ks \in Key8 => KeyByte(g) \in Byte /\ Choice(ks, g) \in 0 .. 2
<1> SUFFICES ASSUME NEW g, NEW ks, g \in GenStates, ks \in Key8
             PROVE  KeyByte(g) \in Byte /\ Choice(ks, g) \in 0 .. 2
  OBVIOUS
<1>1. g.s \in Table /\ g.j \in Byte /\ g.k \in Byte
  BY DEF GenStates
<1>2. g.s[g.k] \in Byte /\ g.s[g.j] \in Byte
  BY <1>1 DEF Table
<1>3. g.s[g.k] + g.s[g.j] \in Nat
  BY <1>2, ByteNat
<1>4. (g.s[g.k] + g.s[g.j]) % Q \in Byte
  BY <1>3, ModByte
<1>5. KeyByte(g) \in Byte
  BY <1>1, <1>4 DEF KeyByte, Table
<1>6. g.j % 8 \in 0 .. 7
  BY <1>1, ByteNat
<1>7. ks[g.j % 8] \in Nat
  BY <1>6, ByteNat DEF Key8
<1>8. Choice(ks, g) \in 0 .. 2
  BY <1>7 DEF Choice
<1> QED BY <1>5, <1>8

Bytes(n) == [0 .. n - 1 -> Byte]

GenStart(s0) == [s |-> s0, j |-> 0, k |-> 0]
Gen(n, s0)   == Iterates(n, GenStart(s0), [i \in 1 .. n |-> [g \in GenStates |-> GenNext(g)]])

(* The generator, step by step.                                            *)
LEMMA GenIs ==
  \A n, s0 : n \in Nat /\ s0 \in Table =>
    /\ Gen(n, s0) \in [0 .. n -> GenStates]
    /\ Gen(n, s0)[0] = GenStart(s0)
    /\ \A i \in 1 .. n : Gen(n, s0)[i] = GenNext(Gen(n, s0)[i - 1])
<1> SUFFICES ASSUME NEW n, NEW s0, n \in Nat, s0 \in Table
             PROVE  /\ Gen(n, s0) \in [0 .. n -> GenStates]
                    /\ Gen(n, s0)[0] = GenStart(s0)
                    /\ \A i \in 1 .. n : Gen(n, s0)[i] = GenNext(Gen(n, s0)[i - 1])
  OBVIOUS
<1> DEFINE step == [i \in 1 .. n |-> [g \in GenStates |-> GenNext(g)]]
           u == Gen(n, s0)
<1>1. step \in StepsIn(n, GenStates)
  BY GenNextIn DEF StepsIn
<1>2. GenStart(s0) \in GenStates
  BY Halves DEF GenStart, GenStates
<1>3. u = Iterates(n, GenStart(s0), step)
  BY DEF Gen
<1> HIDE DEF u
<1>4. u \in [0 .. n -> GenStates] /\ u[0] = GenStart(s0) /\ \A i \in 1 .. n : u[i] = step[i][u[i - 1]]
  <2> HIDE DEF step
  <2>1. Iterated(u, n, GenStates, GenStart(s0), step)
    BY <1>1, <1>2, <1>3, IteratesAre, Zenon
  <2> QED BY <2>1 DEF Iterated
<1>5. \A i \in 1 .. n : u[i - 1] \in GenStates
  BY <1>4
<1>6. \A i \in 1 .. n : u[i] = GenNext(u[i - 1])
  BY <1>4, <1>5
<1> QED BY <1>4, <1>6 DEF u

StreamStates(n) == [s : Table, j : Byte, k : Byte, data : Bytes(n)]

StreamNext(f, ks, i, was) ==
  LET g == GenNext([s |-> was.s, j |-> was.j, k |-> was.k])
  IN  [s |-> g.s, j |-> g.j, k |-> g.k,
       data |-> [was.data EXCEPT ![i - 1] = f[was.data[i - 1]][KeyByte(g)][Choice(ks, g)]]]

StreamOf(f, n, s0, ks, data) ==
  Iterates(n, [s |-> s0, j |-> 0, k |-> 0, data |-> data],
           [i \in 1 .. n |-> [was \in StreamStates(n) |-> StreamNext(f, ks, i, was)]])[n].data

(* What the stream makes of each byte depends on that byte only.           *)
LEMMA StreamIs ==
  \A f, n, s0, ks, data :
    f \in ByteOps /\ n \in Nat /\ s0 \in Table /\ ks \in Key8 /\ data \in Bytes(n) =>
      /\ StreamOf(f, n, s0, ks, data) \in Bytes(n)
      /\ \A x \in 0 .. n - 1 :
           StreamOf(f, n, s0, ks, data)[x]
             = f[data[x]][KeyByte(Gen(n, s0)[x + 1])][Choice(ks, Gen(n, s0)[x + 1])]
<1> SUFFICES ASSUME NEW f, NEW n, NEW s0, NEW ks, NEW data,
                    f \in ByteOps, n \in Nat, s0 \in Table, ks \in Key8, data \in Bytes(n)
             PROVE  /\ StreamOf(f, n, s0, ks, data) \in Bytes(n)
                    /\ \A x \in 0 .. n - 1 :
                         StreamOf(f, n, s0, ks, data)[x]
                           = f[data[x]][KeyByte(Gen(n, s0)[x + 1])][Choice(ks, Gen(n, s0)[x + 1])]
  OBVIOUS
<1> DEFINE step == [i \in 1 .. n |-> [was \in StreamStates(n) |-> StreamNext(f, ks, i, was)]]
           first == [s |-> s0, j |-> 0, k |-> 0, data |-> data]
           u == Iterates(n, first, step)
           g == Gen(n, s0)
           out(x) == f[data[x]][KeyByte(g[x + 1])][Choice(ks, g[x + 1])]
           Proj(was) == [s |-> was.s, j |-> was.j, k |-> was.k]
<1>1. \A x, y \in Byte : \A w \in 0 .. 2 : f[x][y][w] \in Byte
  BY DEF ByteOps
<1>2. step \in StepsIn(n, StreamStates(n))
  <2> SUFFICES ASSUME NEW i \in 1 .. n, NEW was \in StreamStates(n)
               PROVE  StreamNext(f, ks, i, was) \in StreamStates(n)
    BY DEF StepsIn
  <2> DEFINE h == GenNext(Proj(was))
             v == f[was.data[i - 1]][KeyByte(h)][Choice(ks, h)]
  <2>1. was.data \in Bytes(n) /\ Proj(was) \in GenStates
    BY DEF StreamStates, GenStates
  <2>2. h \in GenStates
    BY <2>1, GenNextIn
  <2>3. StreamNext(f, ks, i, was)
          = [s |-> h.s, j |-> h.j, k |-> h.k, data |-> [was.data EXCEPT ![i - 1] = v]]
    BY DEF StreamNext
  <2> HIDE DEF h
  <2>4. was.data[i - 1] \in Byte
    BY <2>1 DEF Bytes
  <2>5. KeyByte(h) \in Byte /\ Choice(ks, h) \in 0 .. 2
    BY <2>2, KeyByteIn
  <2>6. v \in Byte
    BY <1>1, <2>4, <2>5
  <2> HIDE DEF v
  <2>7. [was.data EXCEPT ![i - 1] = v] \in Bytes(n)
    BY <2>1, <2>6 DEF Bytes
  <2> QED BY <2>2, <2>3, <2>7 DEF StreamStates, GenStates
<1>3. first \in StreamStates(n)
  BY Halves DEF StreamStates
<1>4. /\ u \in [0 .. n -> StreamStates(n)] /\ u[0] = first
      /\ \A i \in 1 .. n : u[i] = step[i][u[i - 1]]
  <2> HIDE DEF step, first
  <2>1. Iterated(Iterates(n, first, step), n, StreamStates(n), first, step)
    BY <1>2, <1>3, IteratesAre, Zenon
  <2> QED BY <2>1 DEF Iterated
<1> HIDE DEF u
<1>5. \A i \in 1 .. n : u[i] = StreamNext(f, ks, i, u[i - 1])
  <2>1. \A i \in 1 .. n : u[i - 1] \in StreamStates(n)
    BY <1>4
  <2> HIDE DEF first
  <2> QED BY <1>4, <2>1
<1>6. /\ g \in [0 .. n -> GenStates] /\ g[0] = GenStart(s0) /\ \A i \in 1 .. n : g[i] = GenNext(g[i - 1])
  BY GenIs
<1> HIDE DEF g, step
<1> DEFINE G == {i \in 0 .. n : /\ Proj(u[i]) = g[i]
                                /\ \A x \in 0 .. n - 1 :
                                     u[i].data[x] = IF x < i THEN out(x) ELSE data[x]}
<1>7. 0 \in G
  BY <1>4, <1>6 DEF GenStart
<1>8. \A i \in 0 .. n - 1 : i \in G => i + 1 \in G
  <2> SUFFICES ASSUME NEW i \in 0 .. n - 1, i \in G PROVE i + 1 \in G
    OBVIOUS
  <2>1. i + 1 \in 1 .. n /\ i + 1 \in 0 .. n /\ (i + 1) - 1 = i /\ i \in 0 .. n
    OBVIOUS
  <2>2. Proj(u[i]) = g[i] /\ \A x \in 0 .. n - 1 : u[i].data[x] = IF x < i THEN out(x) ELSE data[x]
    OBVIOUS
  <2>3. g[i + 1] = GenNext(g[i]) /\ g[i + 1] \in GenStates
    BY <1>6, <2>1
  <2> DEFINE h == g[i + 1]
             v == f[u[i].data[i]][KeyByte(h)][Choice(ks, h)]
  <2>4. u[i + 1] = [s |-> h.s, j |-> h.j, k |-> h.k, data |-> [u[i].data EXCEPT ![i] = v]]
    <3>1. u[i + 1] = StreamNext(f, ks, i + 1, u[i])
      BY <1>5, <2>1
    <3>2. GenNext(Proj(u[i])) = h
      BY <2>2, <2>3
    <3> HIDE DEF h, G, out
    <3> QED BY <2>1, <3>1, <3>2 DEF StreamNext
  <2>5. Proj(u[i + 1]) = h
    <3> HIDE DEF v, h
    <3>1. h \in GenStates
      BY <2>3 DEF h
    <3> QED BY <2>4, <3>1 DEF GenStates
  <2>6. v = out(i)
    <3>1. u[i].data[i] = data[i]
      BY <2>2
    <3> QED BY <3>1
  <2> HIDE DEF v, h, out, G
  <2>7. \A x \in 0 .. n - 1 : u[i + 1].data[x] = IF x < i + 1 THEN out(x) ELSE data[x]
    <3>1. u[i].data \in Bytes(n)
      BY <1>4, <2>1 DEF StreamStates
    <3>2. u[i + 1].data = [u[i].data EXCEPT ![i] = v]
      BY <2>4
    <3> SUFFICES ASSUME NEW x \in 0 .. n - 1 PROVE u[i + 1].data[x] = IF x < i + 1 THEN out(x) ELSE data[x]
      OBVIOUS
    <3>3. u[i + 1].data[x] = IF x = i THEN v ELSE u[i].data[x]
      BY <3>1, <3>2 DEF Bytes
    <3> QED BY <2>2, <2>6, <3>3
  <2> QED BY <2>1, <2>5, <2>7 DEF G, h
<1> HIDE DEF G
<1>9. 0 .. n \subseteq G
  BY <1>7, <1>8, UpTo
<1>10. n \in 0 .. n
  OBVIOUS
<1>11. \A x \in 0 .. n - 1 : u[n].data[x] = out(x)
  <2>1. n \in G /\ \A x \in 0 .. n - 1 : x < n
    BY <1>9, <1>10
  <2>2. \A x \in 0 .. n - 1 : u[n].data[x] = IF x < n THEN out(x) ELSE data[x]
    BY <2>1, Zenon DEF G
  <2> HIDE DEF out
  <2> QED BY <2>1, <2>2
<1>12. u[n].data \in Bytes(n)
  BY <1>4, <1>10 DEF StreamStates
<1>13. StreamOf(f, n, s0, ks, data) = u[n].data
  BY Zenon DEF StreamOf, u, step
<1> QED BY <1>11, <1>12, <1>13 DEF g

(* The length of the data.                                                 *)
LEMMA DomainOf == \A n, data : n \in Nat /\ data \in Bytes(n) => Cardinality(DOMAIN data) = n
<1> SUFFICES ASSUME NEW n, NEW data, n \in Nat, data \in Bytes(n) PROVE Cardinality(DOMAIN data) = n
  OBVIOUS
<1>1. DOMAIN data = 0 .. n - 1
  BY DEF Bytes
<1>2. 0 \in Int /\ n - 1 \in Int
  OBVIOUS
<1>3. Cardinality(0 .. n - 1) = IF 0 > n - 1 THEN 0 ELSE (n - 1) - 0 + 1
  BY <1>2, FS_Interval
<1> QED BY <1>1, <1>3

(* Both directions of rc4 are that stream, with a table of operations      *)
(* each.                                                                   *)
LEMMA StreamedIs ==
  \A n, s0, ks, data : n \in Nat /\ s0 \in Table /\ ks \in Key8 /\ data \in Bytes(n) =>
    /\ Streamed(s0, data, ks, Applied) = StreamOf(AppliedTable, n, s0, ks, data)
    /\ Streamed(s0, data, ks, Undone) = StreamOf(UndoneTable, n, s0, ks, data)
<1> SUFFICES ASSUME NEW n, NEW s0, NEW ks, NEW data,
                    n \in Nat, s0 \in Table, ks \in Key8, data \in Bytes(n)
             PROVE  /\ Streamed(s0, data, ks, Applied) = StreamOf(AppliedTable, n, s0, ks, data)
                    /\ Streamed(s0, data, ks, Undone) = StreamOf(UndoneTable, n, s0, ks, data)
  OBVIOUS
<1> DEFINE first == [s |-> s0, j |-> 0, k |-> 0, data |-> data]
           States == [s : [Byte -> Byte], j : Byte, k : Byte, data : [0 .. n - 1 -> Byte]]
           J(was)   == (was.j + 1) % Q
           K(was)   == (was.k + was.s[J(was)]) % Q
           S(was)   == Swapped(was.s, J(was), K(was))
           Y(was)   == S(was)[(S(was)[K(was)] + S(was)[J(was)]) % Q]
           stepA == [i \in 1 .. n |-> [was \in States |->
                      [s |-> S(was), j |-> J(was), k |-> K(was),
                       data |-> [was.data EXCEPT ![i - 1] = Applied(@, Y(was), ks[J(was) % 8] % 3)]]]]
           stepU == [i \in 1 .. n |-> [was \in States |->
                      [s |-> S(was), j |-> J(was), k |-> K(was),
                       data |-> [was.data EXCEPT ![i - 1] = Undone(@, Y(was), ks[J(was) % 8] % 3)]]]]
<1>1. Cardinality(DOMAIN data) = n
  BY DomainOf
<1>2. Streamed(s0, data, ks, Applied) = Iterates(n, first, stepA)[n].data
  BY <1>1 DEF Streamed
<1>3. Streamed(s0, data, ks, Undone) = Iterates(n, first, stepU)[n].data
  BY <1>1 DEF Streamed
<1>4. States = StreamStates(n)
  BY DEF StreamStates, Table, Bytes
<1>5. ASSUME NEW i \in 1 .. n, NEW was \in States
      PROVE  /\ [s |-> S(was), j |-> J(was), k |-> K(was),
                 data |-> [was.data EXCEPT ![i - 1] = Applied(@, Y(was), ks[J(was) % 8] % 3)]]
                  = StreamNext(AppliedTable, ks, i, was)
             /\ [s |-> S(was), j |-> J(was), k |-> K(was),
                 data |-> [was.data EXCEPT ![i - 1] = Undone(@, Y(was), ks[J(was) % 8] % 3)]]
                  = StreamNext(UndoneTable, ks, i, was)
  <2> DEFINE p == [s |-> was.s, j |-> was.j, k |-> was.k]
             g == GenNext(p)
             x == was.data[i - 1]
  <2>1. p \in GenStates /\ was.data \in Bytes(n)
    BY <1>4 DEF StreamStates, GenStates
  <2>2. g \in GenStates
    BY <2>1, GenNextIn
  <2>3. g.s = S(was) /\ g.j = J(was) /\ g.k = K(was)
    <3> HIDE DEF J
    <3> QED BY DEF GenNext, J
  <2>4. KeyByte(g) = Y(was) /\ Choice(ks, g) = ks[J(was) % 8] % 3
    <3> HIDE DEF S, J, K, g
    <3> QED BY <2>3 DEF KeyByte, Choice
  <2>5. KeyByte(g) \in Byte /\ Choice(ks, g) \in 0 .. 2
    BY <2>2, KeyByteIn
  <2>6. x \in Byte
    BY <2>1 DEF Bytes
  <2> HIDE DEF x, S, J, K, Y, g, States
  <2>7. /\ AppliedTable[x][KeyByte(g)][Choice(ks, g)] = Applied(x, Y(was), ks[J(was) % 8] % 3)
        /\ UndoneTable[x][KeyByte(g)][Choice(ks, g)] = Undone(x, Y(was), ks[J(was) % 8] % 3)
    BY <2>4, <2>5, <2>6 DEF AppliedTable, UndoneTable
  <2>8. [was.data EXCEPT ![i - 1] = Applied(@, Y(was), ks[J(was) % 8] % 3)]
          = [was.data EXCEPT ![i - 1] = AppliedTable[x][KeyByte(g)][Choice(ks, g)]]
    BY <2>7 DEF x
  <2>9. [was.data EXCEPT ![i - 1] = Undone(@, Y(was), ks[J(was) % 8] % 3)]
          = [was.data EXCEPT ![i - 1] = UndoneTable[x][KeyByte(g)][Choice(ks, g)]]
    BY <2>7 DEF x
  <2> QED BY <2>3, <2>8, <2>9 DEF StreamNext, g, p, x
<1>6. stepA = [i \in 1 .. n |-> [was \in StreamStates(n) |-> StreamNext(AppliedTable, ks, i, was)]]
  <2> HIDE DEF S, J, K, Y, States
  <2> QED BY <1>4, <1>5
<1>7. stepU = [i \in 1 .. n |-> [was \in StreamStates(n) |-> StreamNext(UndoneTable, ks, i, was)]]
  <2> HIDE DEF S, J, K, Y, States
  <2> QED BY <1>4, <1>5
<1> HIDE DEF stepA, stepU
<1> QED BY <1>2, <1>3, <1>6, <1>7, Zenon DEF StreamOf

(* The other direction of the stream gives the data back.                  *)
LEMMA StreamBack ==
  \A n, s0, ks, data : n \in Nat /\ s0 \in Table /\ ks \in Key8 /\ data \in Bytes(n) =>
    /\ Streamed(s0, data, ks, Undone) \in Bytes(n)
    /\ Streamed(s0, data, ks, Applied) \in Bytes(n)
    /\ Streamed(s0, Streamed(s0, data, ks, Undone), ks, Applied) = data
<1> SUFFICES ASSUME NEW n, NEW s0, NEW ks, NEW data,
                    n \in Nat, s0 \in Table, ks \in Key8, data \in Bytes(n)
             PROVE  /\ Streamed(s0, data, ks, Undone) \in Bytes(n)
                    /\ Streamed(s0, data, ks, Applied) \in Bytes(n)
                    /\ Streamed(s0, Streamed(s0, data, ks, Undone), ks, Applied) = data
  OBVIOUS
<1> DEFINE e == Streamed(s0, data, ks, Undone)
           d == Streamed(s0, e, ks, Applied)
           g == Gen(n, s0)
<1>1. AppliedTable \in ByteOps /\ UndoneTable \in ByteOps
  BY OpsInverse
<1>2. e \in Bytes(n) /\ \A x \in 0 .. n - 1 :
        e[x] = UndoneTable[data[x]][KeyByte(g[x + 1])][Choice(ks, g[x + 1])]
  <2> HIDE DEF e
  <2>1. e = StreamOf(UndoneTable, n, s0, ks, data)
    BY StreamedIs DEF e
  <2> QED BY <1>1, <2>1, StreamIs
<1> HIDE DEF e
<1>3. d \in Bytes(n) /\ \A x \in 0 .. n - 1 :
        d[x] = AppliedTable[e[x]][KeyByte(g[x + 1])][Choice(ks, g[x + 1])]
  <2> HIDE DEF d
  <2>1. d = StreamOf(AppliedTable, n, s0, ks, e)
    BY <1>2, StreamedIs DEF d
  <2> QED BY <1>1, <1>2, <2>1, StreamIs
<1> HIDE DEF d
<1>4. Streamed(s0, data, ks, Applied) \in Bytes(n)
  <2>1. Streamed(s0, data, ks, Applied) = StreamOf(AppliedTable, n, s0, ks, data)
    BY StreamedIs
  <2> QED BY <1>1, <2>1, StreamIs
<1>5. \A x \in 0 .. n - 1 : g[x + 1] \in GenStates
  <2>1. \A x \in 0 .. n - 1 : x + 1 \in 0 .. n
    OBVIOUS
  <2> QED BY <2>1, GenIs
<1>6. ASSUME NEW x \in 0 .. n - 1 PROVE d[x] = data[x]
  <2> DEFINE y == KeyByte(g[x + 1])
             w == Choice(ks, g[x + 1])
  <2>1. y \in Byte /\ w \in 0 .. 2
    BY <1>5, KeyByteIn
  <2>2. data[x] \in Byte /\ e[x] \in Byte
    BY <1>2 DEF Bytes
  <2>3. e[x] = UndoneTable[data[x]][y][w] /\ d[x] = AppliedTable[e[x]][y][w]
    BY <1>2, <1>3
  <2> HIDE DEF y, w, g
  <2>4. e[x] = Undone(data[x], y, w)
    BY <2>1, <2>2, <2>3 DEF UndoneTable
  <2>5. d[x] = Applied(e[x], y, w)
    BY <2>1, <2>2, <2>3 DEF AppliedTable
  <2> QED BY <2>1, <2>2, <2>4, <2>5, OpsInverse
<1>7. d = data
  BY <1>3, <1>6 DEF Bytes
<1> QED BY <1>2, <1>4, <1>7 DEF d, e

(* rc4_mhy undoes rc4_dec_mhy on data of any length, and the variant of    *)
(* blb3 is the same.                                                       *)
LEMMA Rc4Inverse ==
  \A n, key, ks, data : n \in Nat /\ key \in Key8 /\ ks \in Key8 /\ data \in Bytes(n) =>
    /\ rc4_dec_mhy(key, data, ks) \in Bytes(n)
    /\ rc4_mhy(key, data, ks) \in Bytes(n)
    /\ rc4_mhy(key, rc4_dec_mhy(key, data, ks), ks) = data
    /\ rc4_blb3(key, data, ks) = rc4_mhy(key, data, ks)
    /\ rc4_dec_blb3(key, data, ks) = rc4_dec_mhy(key, data, ks)
<1> SUFFICES ASSUME NEW n, NEW key, NEW ks, NEW data,
                    n \in Nat, key \in Key8, ks \in Key8, data \in Bytes(n)
             PROVE  /\ rc4_dec_mhy(key, data, ks) \in Bytes(n)
                    /\ rc4_mhy(key, data, ks) \in Bytes(n)
                    /\ rc4_mhy(key, rc4_dec_mhy(key, data, ks), ks) = data
                    /\ rc4_blb3(key, data, ks) = rc4_mhy(key, data, ks)
                    /\ rc4_dec_blb3(key, data, ks) = rc4_dec_mhy(key, data, ks)
  OBVIOUS
<1> DEFINE s0 == Mixed(key, KeyAt)
<1>1. s0 \in Table /\ Mixed(key, KeyAtBlb3) = s0
  BY MixedIn
<1>2. \A dat, o : /\ rc4_dec_mhy(key, dat, o) = Streamed(s0, dat, o, Undone)
                  /\ rc4_mhy(key, dat, o) = Streamed(s0, dat, o, Applied)
                  /\ rc4_blb3(key, dat, o) = Streamed(Mixed(key, KeyAtBlb3), dat, o, Applied)
                  /\ rc4_dec_blb3(key, dat, o) = Streamed(Mixed(key, KeyAtBlb3), dat, o, Undone)
  BY Zenon DEF rc4_dec_mhy, rc4_mhy, rc4_blb3, rc4_dec_blb3
<1> HIDE DEF s0
<1> QED BY <1>1, <1>2, StreamBack

-----------------------------------------------------------------------------
(* Memory.                                                                 *)

MemArea == 0 .. MemSize - 1
Mem     == [MemArea -> Byte]

Region(lo, n) == lo \in Nat /\ n \in Nat /\ lo + n <= MemSize

Apart(lo, n, b, k) == lo + n <= b \/ b + k <= lo

(* What Slice and Put are on a region of the memory.                       *)
LEMMA SliceIs ==
  \A m, lo, n : m \in Mem /\ Region(lo, n) =>
    Slice(m, lo, n) \in Bytes(n) /\ \A k \in 0 .. n - 1 : Slice(m, lo, n)[k] = m[lo + k]
<1> SUFFICES ASSUME NEW m, NEW lo, NEW n, m \in Mem, Region(lo, n)
             PROVE  Slice(m, lo, n) \in Bytes(n) /\ \A k \in 0 .. n - 1 : Slice(m, lo, n)[k] = m[lo + k]
  OBVIOUS
<1>1. Slice(m, lo, n) = [k \in 0 .. n - 1 |-> m[lo + k]]
  BY StrictIs, Zenon DEF Slice
<1>2. \A k \in 0 .. n - 1 : lo + k \in MemArea
  BY CasesAssumption DEF Region, MemArea
<1>3. \A k \in 0 .. n - 1 : m[lo + k] \in Byte
  BY <1>2 DEF Mem
<1> QED BY <1>1, <1>3 DEF Bytes

(* Put byte by byte.                                                       *)
LEMMA PutIs ==
  \A m, lo, n, d : m \in Mem /\ Region(lo, n) /\ d \in Bytes(n) =>
    /\ Put(m, lo, d) \in Mem
    /\ \A x \in MemArea : x >= lo /\ x < lo + n => Put(m, lo, d)[x] = d[x - lo]
    /\ \A x \in MemArea : x < lo \/ x >= lo + n => Put(m, lo, d)[x] = m[x]
<1> SUFFICES ASSUME NEW m, NEW lo, NEW n, NEW d, m \in Mem, Region(lo, n), d \in Bytes(n)
             PROVE  /\ Put(m, lo, d) \in Mem
                    /\ \A x \in MemArea : x >= lo /\ x < lo + n => Put(m, lo, d)[x] = d[x - lo]
                    /\ \A x \in MemArea : x < lo \/ x >= lo + n => Put(m, lo, d)[x] = m[x]
  OBVIOUS
<1>1. Put(m, lo, d) = [x \in DOMAIN m |-> IF x - lo \in DOMAIN d THEN d[x - lo] ELSE m[x]]
  BY StrictIs, Zenon DEF Put
<1>2. DOMAIN m = MemArea /\ DOMAIN d = 0 .. n - 1
  BY DEF Mem, Bytes
<1>3. \A x \in MemArea : x \in Int /\ (x - lo \in 0 .. n - 1 <=> x >= lo /\ x < lo + n)
  BY CasesAssumption DEF Region, MemArea
<1>4. \A x \in MemArea : m[x] \in Byte
  BY DEF Mem
<1>5. \A k \in 0 .. n - 1 : d[k] \in Byte
  BY DEF Bytes
<1>6. Put(m, lo, d) = [x \in MemArea |-> IF x >= lo /\ x < lo + n THEN d[x - lo] ELSE m[x]]
  BY <1>1, <1>2, <1>3
<1>7. \A x \in MemArea : (IF x >= lo /\ x < lo + n THEN d[x - lo] ELSE m[x]) \in Byte
  BY <1>3, <1>4, <1>5
<1>8. Put(m, lo, d) \in Mem
  BY <1>6, <1>7 DEF Mem
<1>9. \A x \in MemArea : x >= lo /\ x < lo + n => Put(m, lo, d)[x] = d[x - lo]
  BY <1>6
<1>10. \A x \in MemArea : x < lo \/ x >= lo + n => Put(m, lo, d)[x] = m[x]
  BY <1>3, <1>6 DEF Region
<1> QED BY <1>8, <1>9, <1>10

(* Memories with the same bytes are equal.                                 *)
LEMMA MemEqual == \A a, b : a \in Mem /\ b \in Mem /\ (\A x \in MemArea : a[x] = b[x]) => a = b
BY DEF Mem

(* So are runs of bytes.                                                   *)
LEMMA BytesEqual ==
  \A n, a, b : a \in Bytes(n) /\ b \in Bytes(n) /\ (\A k \in 0 .. n - 1 : a[k] = b[k]) => a = b
<1> SUFFICES ASSUME NEW n, NEW a, NEW b, a \in Bytes(n), b \in Bytes(n),
                    \A k \in 0 .. n - 1 : a[k] = b[k]
             PROVE  a = b
  OBVIOUS
<1> DEFINE S == 0 .. n - 1
<1>1. a \in [S -> Byte] /\ b \in [S -> Byte] /\ \A k \in S : a[k] = b[k]
  BY DEF Bytes
<1> HIDE DEF S
<1> QED BY <1>1

(* A slice is a run of bytes.                                              *)
LEMMA SliceIn == \A m, lo, n : m \in Mem /\ Region(lo, n) => Slice(m, lo, n) \in Bytes(n)
BY SliceIs

(* After Put it is a memory still.                                         *)
LEMMA PutIn ==
  \A m, lo, n, d : m \in Mem /\ Region(lo, n) /\ d \in Bytes(n) => Put(m, lo, d) \in Mem
BY PutIs

(* The bytes put are those read there afterwards.                          *)
LEMMA SlicePut ==
  \A m, lo, n, d : m \in Mem /\ Region(lo, n) /\ d \in Bytes(n) => Slice(Put(m, lo, d), lo, n) = d
<1> SUFFICES ASSUME NEW m, NEW lo, NEW n, NEW d, m \in Mem, Region(lo, n), d \in Bytes(n)
             PROVE  Slice(Put(m, lo, d), lo, n) = d
  OBVIOUS
<1> DEFINE w == Put(m, lo, d)
<1>1. w \in Mem /\ \A x \in MemArea : x >= lo /\ x < lo + n => w[x] = d[x - lo]
  BY PutIs
<1> HIDE DEF w
<1>2. Slice(w, lo, n) \in Bytes(n) /\ \A k \in 0 .. n - 1 : Slice(w, lo, n)[k] = w[lo + k]
  BY <1>1, SliceIs
<1>3. \A k \in 0 .. n - 1 : /\ lo + k \in MemArea /\ lo + k >= lo /\ lo + k < lo + n
                           /\ (lo + k) - lo = k
  BY CasesAssumption DEF Region, MemArea
<1>4. \A k \in 0 .. n - 1 : Slice(w, lo, n)[k] = d[k]
  BY <1>1, <1>2, <1>3
<1>5. Slice(w, lo, n) = d
  BY <1>2, <1>4, BytesEqual
<1> QED BY <1>5 DEF w

(* The bytes elsewhere stay.                                               *)
LEMMA SliceApart ==
  \A m, lo, n, d, b, k :
    m \in Mem /\ Region(lo, n) /\ d \in Bytes(n) /\ Region(b, k) /\ Apart(lo, n, b, k) =>
      Slice(Put(m, lo, d), b, k) = Slice(m, b, k)
<1> SUFFICES ASSUME NEW m, NEW lo, NEW n, NEW d, NEW b, NEW k, m \in Mem, Region(lo, n),
                    d \in Bytes(n), Region(b, k), Apart(lo, n, b, k)
             PROVE  Slice(Put(m, lo, d), b, k) = Slice(m, b, k)
  OBVIOUS
<1> DEFINE w == Put(m, lo, d)
<1>1. w \in Mem /\ \A x \in MemArea : x < lo \/ x >= lo + n => w[x] = m[x]
  BY PutIs
<1> HIDE DEF w
<1>2. /\ Slice(w, b, k) \in Bytes(k) /\ \A i \in 0 .. k - 1 : Slice(w, b, k)[i] = w[b + i]
      /\ Slice(m, b, k) \in Bytes(k) /\ \A i \in 0 .. k - 1 : Slice(m, b, k)[i] = m[b + i]
  BY <1>1, SliceIs
<1>3. \A i \in 0 .. k - 1 : /\ b + i \in MemArea /\ (b + i < lo \/ b + i >= lo + n)
  BY CasesAssumption DEF Region, MemArea, Apart
<1>4. \A i \in 0 .. k - 1 : Slice(w, b, k)[i] = Slice(m, b, k)[i]
  BY <1>1, <1>2, <1>3
<1>5. Slice(w, b, k) = Slice(m, b, k)
  BY <1>2, <1>4, BytesEqual
<1> QED BY <1>5 DEF w

(* Putting back what was there.                                            *)
LEMMA PutBack ==
  \A m, lo, n, d : m \in Mem /\ Region(lo, n) /\ d \in Bytes(n) =>
    Put(Put(m, lo, d), lo, Slice(m, lo, n)) = m
<1> SUFFICES ASSUME NEW m, NEW lo, NEW n, NEW d, m \in Mem, Region(lo, n), d \in Bytes(n)
             PROVE  Put(Put(m, lo, d), lo, Slice(m, lo, n)) = m
  OBVIOUS
<1> DEFINE w == Put(m, lo, d)
           s == Slice(m, lo, n)
           v == Put(w, lo, s)
<1>1. w \in Mem /\ \A x \in MemArea : x < lo \/ x >= lo + n => w[x] = m[x]
  BY PutIs
<1>2. s \in Bytes(n) /\ \A k \in 0 .. n - 1 : s[k] = m[lo + k]
  BY SliceIs
<1> HIDE DEF w, s
<1>3. /\ v \in Mem
      /\ \A x \in MemArea : x >= lo /\ x < lo + n => v[x] = s[x - lo]
      /\ \A x \in MemArea : x < lo \/ x >= lo + n => v[x] = w[x]
  BY <1>1, <1>2, PutIs
<1> HIDE DEF v
<1>4. \A x \in MemArea : /\ x < lo \/ x >= lo + n \/ (x >= lo /\ x < lo + n)
                         /\ x >= lo /\ x < lo + n => x - lo \in 0 .. n - 1 /\ lo + (x - lo) = x
  BY CasesAssumption DEF Region, MemArea
<1>5. \A x \in MemArea : v[x] = m[x]
  BY <1>1, <1>2, <1>3, <1>4
<1>6. v = m
  BY <1>3, <1>5, MemEqual
<1> QED BY <1>6 DEF v, w, s

(* Two regions are written in either order.                                *)
LEMMA PutSwap ==
  \A m, lo, n, d, b, k, e :
    m \in Mem /\ Region(lo, n) /\ d \in Bytes(n) /\ Region(b, k) /\ e \in Bytes(k)
      /\ Apart(lo, n, b, k) => Put(Put(m, lo, d), b, e) = Put(Put(m, b, e), lo, d)
<1> SUFFICES ASSUME NEW m, NEW lo, NEW n, NEW d, NEW b, NEW k, NEW e, m \in Mem, Region(lo, n),
                    d \in Bytes(n), Region(b, k), e \in Bytes(k), Apart(lo, n, b, k)
             PROVE  Put(Put(m, lo, d), b, e) = Put(Put(m, b, e), lo, d)
  OBVIOUS
<1> DEFINE w == Put(m, lo, d)
           v == Put(m, b, e)
           y == Put(w, b, e)
           z == Put(v, lo, d)
<1>1. /\ w \in Mem
      /\ \A x \in MemArea : x >= lo /\ x < lo + n => w[x] = d[x - lo]
      /\ \A x \in MemArea : x < lo \/ x >= lo + n => w[x] = m[x]
  BY PutIs
<1>2. /\ v \in Mem
      /\ \A x \in MemArea : x >= b /\ x < b + k => v[x] = e[x - b]
      /\ \A x \in MemArea : x < b \/ x >= b + k => v[x] = m[x]
  BY PutIs
<1> HIDE DEF w, v
<1>3. /\ y \in Mem
      /\ \A x \in MemArea : x >= b /\ x < b + k => y[x] = e[x - b]
      /\ \A x \in MemArea : x < b \/ x >= b + k => y[x] = w[x]
  BY <1>1, PutIs
<1>4. /\ z \in Mem
      /\ \A x \in MemArea : x >= lo /\ x < lo + n => z[x] = d[x - lo]
      /\ \A x \in MemArea : x < lo \/ x >= lo + n => z[x] = v[x]
  BY <1>2, PutIs
<1> HIDE DEF y, z
<1>5. \A x \in MemArea : /\ x < lo \/ x >= lo + n \/ (x >= lo /\ x < lo + n)
                         /\ x < b \/ x >= b + k \/ (x >= b /\ x < b + k)
                         /\ (x >= lo /\ x < lo + n => x < b \/ x >= b + k)
                         /\ (x >= b /\ x < b + k => x < lo \/ x >= lo + n)
  BY CasesAssumption DEF Region, MemArea, Apart
<1>6. ASSUME NEW x \in MemArea PROVE y[x] = z[x]
  <2>1. CASE x >= lo /\ x < lo + n
    BY <1>1, <1>3, <1>4, <1>5, <2>1
  <2>2. CASE x >= b /\ x < b + k
    BY <1>2, <1>3, <1>4, <1>5, <2>2
  <2>3. CASE (x < lo \/ x >= lo + n) /\ (x < b \/ x >= b + k)
    BY <1>1, <1>2, <1>3, <1>4, <2>3
  <2> QED BY <1>5, <2>1, <2>2, <2>3
<1>7. y = z
  BY <1>3, <1>4, <1>6, MemEqual
<1> QED BY <1>7 DEF y, z, w, v

(* a below n, b from there on.                                             *)
Joined(a, b, n) == [x \in MemArea |-> IF x < n THEN a[x] ELSE b[x]]

(* That is a memory.                                                       *)
LEMMA JoinedIn == \A a, b, n : a \in Mem /\ b \in Mem => Joined(a, b, n) \in Mem
BY DEF Joined, Mem

(* A slice below n does not see the other bytes.                           *)
LEMMA JoinSlice ==
  \A a, b, n, lo, k : a \in Mem /\ b \in Mem /\ n \in Nat /\ Region(lo, k) /\ lo + k <= n =>
    Slice(Joined(a, b, n), lo, k) = Slice(a, lo, k)
<1> SUFFICES ASSUME NEW a, NEW b, NEW n, NEW lo, NEW k, a \in Mem, b \in Mem, n \in Nat,
                    Region(lo, k), lo + k <= n
             PROVE  Slice(Joined(a, b, n), lo, k) = Slice(a, lo, k)
  OBVIOUS
<1> DEFINE w == Joined(a, b, n)
<1>1. w \in Mem
  BY JoinedIn
<1>2. \A x \in MemArea : x < n => w[x] = a[x]
  BY DEF Joined
<1> HIDE DEF w
<1>3. /\ Slice(w, lo, k) \in Bytes(k) /\ \A i \in 0 .. k - 1 : Slice(w, lo, k)[i] = w[lo + i]
      /\ Slice(a, lo, k) \in Bytes(k) /\ \A i \in 0 .. k - 1 : Slice(a, lo, k)[i] = a[lo + i]
  BY <1>1, SliceIs
<1>4. \A i \in 0 .. k - 1 : lo + i \in MemArea /\ lo + i < n
  BY CasesAssumption DEF Region, MemArea
<1>5. \A i \in 0 .. k - 1 : Slice(w, lo, k)[i] = Slice(a, lo, k)[i]
  BY <1>2, <1>3, <1>4
<1>6. Slice(w, lo, k) = Slice(a, lo, k)
  BY <1>3, <1>5, BytesEqual
<1> QED BY <1>6 DEF w

(* A Put below n does not, either.                                         *)
LEMMA JoinPut ==
  \A a, b, n, lo, k, d :
    a \in Mem /\ b \in Mem /\ n \in Nat /\ Region(lo, k) /\ lo + k <= n /\ d \in Bytes(k) =>
      Put(Joined(a, b, n), lo, d) = Joined(Put(a, lo, d), b, n)
<1> SUFFICES ASSUME NEW a, NEW b, NEW n, NEW lo, NEW k, NEW d, a \in Mem, b \in Mem, n \in Nat,
                    Region(lo, k), lo + k <= n, d \in Bytes(k)
             PROVE  Put(Joined(a, b, n), lo, d) = Joined(Put(a, lo, d), b, n)
  OBVIOUS
<1> DEFINE w == Joined(a, b, n)
           c == Put(a, lo, d)
           y == Put(w, lo, d)
           z == Joined(c, b, n)
<1>1. w \in Mem /\ \A x \in MemArea : w[x] = IF x < n THEN a[x] ELSE b[x]
  BY JoinedIn DEF Joined
<1>2. /\ c \in Mem
      /\ \A x \in MemArea : x >= lo /\ x < lo + k => c[x] = d[x - lo]
      /\ \A x \in MemArea : x < lo \/ x >= lo + k => c[x] = a[x]
  BY PutIs
<1>3. z \in Mem /\ \A x \in MemArea : z[x] = IF x < n THEN c[x] ELSE b[x]
  <2> HIDE DEF c
  <2> QED BY <1>2, JoinedIn DEF Joined
<1> HIDE DEF w, c, z
<1>4. /\ y \in Mem
      /\ \A x \in MemArea : x >= lo /\ x < lo + k => y[x] = d[x - lo]
      /\ \A x \in MemArea : x < lo \/ x >= lo + k => y[x] = w[x]
  BY <1>1, PutIs
<1> HIDE DEF y
<1>5. \A x \in MemArea : /\ x < lo \/ x >= lo + k \/ (x >= lo /\ x < lo + k)
                         /\ x < lo + k => x < n
  BY CasesAssumption DEF Region, MemArea
<1>6. \A x \in MemArea : y[x] = z[x]
  BY <1>1, <1>2, <1>3, <1>4, <1>5
<1>7. y = z
  BY <1>3, <1>4, <1>6, MemEqual
<1> QED BY <1>7 DEF y, z, w, c

-----------------------------------------------------------------------------
(* The key of xorCrypt, laid over the data again and again.                *)

Xored(d, key, keySz) == [k \in DOMAIN d |-> d[k] (+) key[k % keySz]]

(* Doing it twice gives the data back.                                     *)
LEMMA XoredIs ==
  \A n, d, key, keySz : n \in Nat /\ d \in Bytes(n) /\ keySz \in Nat \ {0} /\ key \in Bytes(keySz) =>
    /\ Xored(d, key, keySz) \in Bytes(n)
    /\ Xored(Xored(d, key, keySz), key, keySz) = d
<1> SUFFICES ASSUME NEW n, NEW d, NEW key, NEW keySz, n \in Nat, d \in Bytes(n),
                    keySz \in Nat \ {0}, key \in Bytes(keySz)
             PROVE  /\ Xored(d, key, keySz) \in Bytes(n)
                    /\ Xored(Xored(d, key, keySz), key, keySz) = d
  OBVIOUS
<1> DEFINE e == Xored(d, key, keySz)
           c == Xored(e, key, keySz)
<1>1. \A k \in 0 .. n - 1 : k % keySz \in 0 .. keySz - 1
  OBVIOUS
<1>2. \A k \in 0 .. n - 1 : d[k] \in Byte /\ key[k % keySz] \in Byte
  BY <1>1 DEF Bytes
<1>3. DOMAIN d = 0 .. n - 1
  BY DEF Bytes
<1>4. e = [k \in 0 .. n - 1 |-> d[k] (+) key[k % keySz]]
  BY <1>3 DEF Xored
<1> HIDE DEF e
<1>5. e \in Bytes(n)
  BY <1>2, <1>4, XorIn DEF Bytes
<1>6. c = [k \in 0 .. n - 1 |-> e[k] (+) key[k % keySz]]
  BY <1>4 DEF Xored
<1> HIDE DEF c
<1>7. \A k \in 0 .. n - 1 : e[k] (+) key[k % keySz] = d[k]
  BY <1>2, <1>4, XorCancel
<1>8. \A k \in 0 .. n - 1 : c[k] = d[k]
  BY <1>6, <1>7
<1>9. c \in Bytes(n)
  BY <1>2, <1>6, <1>7 DEF Bytes
<1>10. c = d
  BY <1>8, <1>9, BytesEqual
<1> QED BY <1>5, <1>10 DEF c, e

(* xorCrypt in place, as a Put.                                            *)
LEMMA XorCryptIs ==
  \A m, lo, n, key, keySz :
    m \in Mem /\ Region(lo, n) /\ keySz \in Nat \ {0} /\ key \in Bytes(keySz) =>
      XorCrypt(m, lo, n, key, keySz) = Put(m, lo, Xored(Slice(m, lo, n), key, keySz))
<1> SUFFICES ASSUME NEW m, NEW lo, NEW n, NEW key, NEW keySz, m \in Mem, Region(lo, n),
                    keySz \in Nat \ {0}, key \in Bytes(keySz)
             PROVE  XorCrypt(m, lo, n, key, keySz) = Put(m, lo, Xored(Slice(m, lo, n), key, keySz))
  OBVIOUS
<1> DEFINE s == Slice(m, lo, n)
           e == Xored(s, key, keySz)
           w == Put(m, lo, e)
           v == XorCrypt(m, lo, n, key, keySz)
<1>1. s \in Bytes(n) /\ \A k \in 0 .. n - 1 : s[k] = m[lo + k]
  BY SliceIs
<1>2. n \in Nat /\ lo \in Nat
  BY DEF Region
<1> HIDE DEF s
<1>3. e \in Bytes(n) /\ \A k \in 0 .. n - 1 : e[k] = s[k] (+) key[k % keySz]
  <2>1. DOMAIN s = 0 .. n - 1
    BY <1>1 DEF Bytes
  <2> QED BY <1>1, <1>2, <2>1, XoredIs DEF Xored
<1> HIDE DEF e
<1>4. /\ w \in Mem
      /\ \A x \in MemArea : x >= lo /\ x < lo + n => w[x] = e[x - lo]
      /\ \A x \in MemArea : x < lo \/ x >= lo + n => w[x] = m[x]
  BY <1>3, PutIs
<1>5. v = [x \in DOMAIN m |-> IF x \in lo .. lo + n - 1 THEN m[x] (+) key[(x - lo) % keySz] ELSE m[x]]
  BY StrictIs, Zenon DEF XorCrypt
<1>6. DOMAIN m = MemArea
  BY DEF Mem
<1>7. \A x \in MemArea : /\ x \in lo .. lo + n - 1 <=> x >= lo /\ x < lo + n
                         /\ x < lo \/ x >= lo + n \/ (x >= lo /\ x < lo + n)
                         /\ x >= lo /\ x < lo + n => x - lo \in 0 .. n - 1 /\ lo + (x - lo) = x
  BY <1>2, CasesAssumption DEF MemArea
<1> HIDE DEF w, v
<1>8. \A x \in MemArea : v[x] = w[x]
  <2> SUFFICES ASSUME NEW x \in MemArea PROVE v[x] = w[x]
    OBVIOUS
  <2>1. CASE x >= lo /\ x < lo + n
    <3>1. v[x] = m[x] (+) key[(x - lo) % keySz]
      BY <1>5, <1>6, <1>7, <2>1
    <3>2. w[x] = s[x - lo] (+) key[(x - lo) % keySz] /\ s[x - lo] = m[x]
      BY <1>1, <1>3, <1>4, <1>7, <2>1
    <3> QED BY <3>1, <3>2
  <2>2. CASE x < lo \/ x >= lo + n
    <3>1. ~(x \in lo .. lo + n - 1)
      BY <1>2, <1>7, <2>2, CasesAssumption DEF MemArea
    <3> QED BY <1>4, <1>5, <1>6, <2>2, <3>1
  <2> QED BY <1>7, <2>1, <2>2
<1>9. v = [x \in MemArea |-> v[x]] /\ w = [x \in MemArea |-> w[x]]
  BY <1>4, <1>5, <1>6 DEF Mem
<1>10. v = w
  BY <1>8, <1>9
<1> QED BY <1>10 DEF v, w, e, s

(* The step that undoes a Put, on memory that goes on with other bytes.    *)
LEMMA PutJoined ==
  \A m, b, n, lo, k, d :
    m \in Mem /\ b \in Mem /\ n \in Nat /\ Region(lo, k) /\ lo + k <= n /\ d \in Bytes(k) =>
      Put(Joined(Put(m, lo, d), b, n), lo, Slice(m, lo, k)) = Joined(m, b, n)
<1> SUFFICES ASSUME NEW m, NEW b, NEW n, NEW lo, NEW k, NEW d, m \in Mem, b \in Mem, n \in Nat,
                    Region(lo, k), lo + k <= n, d \in Bytes(k)
             PROVE  Put(Joined(Put(m, lo, d), b, n), lo, Slice(m, lo, k)) = Joined(m, b, n)
  OBVIOUS
<1> DEFINE w == Put(m, lo, d)
           s == Slice(m, lo, k)
<1>1. w \in Mem /\ s \in Bytes(k) /\ Put(w, lo, s) = m
  BY PutIn, SliceIn, PutBack
<1> HIDE DEF w, s
<1>2. Put(Joined(w, b, n), lo, s) = Joined(Put(w, lo, s), b, n)
  BY <1>1, JoinPut
<1>3. Put(Joined(w, b, n), lo, s) = Joined(m, b, n)
  BY <1>1, <1>2
<1> QED BY <1>3 DEF w, s

Keyable(key, keySz) == keySz \in Nat \ {0} /\ key \in Bytes(keySz)

(* xorCrypt twice with the same key is nothing.                            *)
LEMMA XorMem ==
  \A m, lo, k, key, keySz : m \in Mem /\ Region(lo, k) /\ Keyable(key, keySz) =>
    /\ XorCrypt(m, lo, k, key, keySz) \in Mem
    /\ \A c, j : Region(c, j) /\ Apart(lo, k, c, j) =>
         Slice(XorCrypt(m, lo, k, key, keySz), c, j) = Slice(m, c, j)
<1> SUFFICES ASSUME NEW m, NEW lo, NEW k, NEW key, NEW keySz, m \in Mem, Region(lo, k),
                    Keyable(key, keySz)
             PROVE  /\ XorCrypt(m, lo, k, key, keySz) \in Mem
                    /\ \A c, j : Region(c, j) /\ Apart(lo, k, c, j) =>
                         Slice(XorCrypt(m, lo, k, key, keySz), c, j) = Slice(m, c, j)
  OBVIOUS
<1> DEFINE d == Xored(Slice(m, lo, k), key, keySz)
<1>1. d \in Bytes(k)
  <2>1. Slice(m, lo, k) \in Bytes(k) /\ k \in Nat
    BY SliceIn DEF Region
  <2> QED BY <2>1, XoredIs DEF Keyable
<1>2. XorCrypt(m, lo, k, key, keySz) = Put(m, lo, d)
  BY XorCryptIs DEF Keyable
<1> HIDE DEF d
<1> QED BY <1>1, <1>2, PutIn, SliceApart

(* Also when other bytes follow the memory by then.                        *)
LEMMA XorJoined ==
  \A m, b, n, lo, k, key, keySz :
    m \in Mem /\ b \in Mem /\ n \in Nat /\ Region(lo, k) /\ lo + k <= n /\ Keyable(key, keySz) =>
      XorCrypt(Joined(XorCrypt(m, lo, k, key, keySz), b, n), lo, k, key, keySz) = Joined(m, b, n)
<1> SUFFICES ASSUME NEW m, NEW b, NEW n, NEW lo, NEW k, NEW key, NEW keySz, m \in Mem, b \in Mem,
                    n \in Nat, Region(lo, k), lo + k <= n, Keyable(key, keySz)
             PROVE  XorCrypt(Joined(XorCrypt(m, lo, k, key, keySz), b, n), lo, k, key, keySz)
                      = Joined(m, b, n)
  OBVIOUS
<1> DEFINE s == Slice(m, lo, k)
           d == Xored(s, key, keySz)
           w == XorCrypt(m, lo, k, key, keySz)
           j == Joined(w, b, n)
<1>1. s \in Bytes(k) /\ k \in Nat
  BY SliceIn DEF Region
<1>2. d \in Bytes(k) /\ Xored(d, key, keySz) = s
  <2> HIDE DEF s
  <2> QED BY <1>1, XoredIs DEF Keyable
<1>3. w = Put(m, lo, d)
  BY XorCryptIs DEF Keyable
<1> HIDE DEF d, w
<1>4. w \in Mem /\ Slice(w, lo, k) = d
  BY <1>2, <1>3, PutIn, SlicePut
<1>5. j \in Mem /\ Slice(j, lo, k) = d
  BY <1>4, JoinedIn, JoinSlice
<1>6. j = Joined(Put(m, lo, d), b, n)
  BY <1>3
<1> HIDE DEF j
<1>7. XorCrypt(j, lo, k, key, keySz) = Put(j, lo, Xored(Slice(j, lo, k), key, keySz))
  BY <1>5, XorCryptIs DEF Keyable
<1>8. XorCrypt(j, lo, k, key, keySz) = Put(Joined(Put(m, lo, d), b, n), lo, Slice(m, lo, k))
  BY <1>2, <1>5, <1>6, <1>7 DEF s
<1>9. XorCrypt(j, lo, k, key, keySz) = Joined(m, b, n)
  BY <1>2, <1>8, PutJoined
<1> QED BY <1>9 DEF j, w

-----------------------------------------------------------------------------
(* The rounds in place.                                                    *)

(* Sixteen bytes are a block, eight a key of rc4.                          *)
LEMMA BlockBytes == Bytes(16) = Block /\ Bytes(8) = Key8
<1>1. 16 - 1 = 15 /\ 8 - 1 = 7
  OBVIOUS
<1> QED BY <1>1 DEF Bytes, Block, Idx, Key8

(* The rounds touch their sixteen bytes only.                              *)
LEMMA MixIn ==
  \A T, m, lo : TablesMatch(T) /\ m \in Mem /\ Region(lo, 16) =>
    /\ Mixed3(T, Slice(m, lo, 16)) \in Bytes(16)
    /\ MixAt(T, m, lo) \in Mem
    /\ \A c, j : Region(c, j) /\ Apart(lo, 16, c, j) => Slice(MixAt(T, m, lo), c, j) = Slice(m, c, j)
<1> SUFFICES ASSUME NEW T, NEW m, NEW lo, TablesMatch(T), m \in Mem, Region(lo, 16)
             PROVE  /\ Mixed3(T, Slice(m, lo, 16)) \in Bytes(16)
                    /\ MixAt(T, m, lo) \in Mem
                    /\ \A c, j : Region(c, j) /\ Apart(lo, 16, c, j) =>
                         Slice(MixAt(T, m, lo), c, j) = Slice(m, c, j)
  OBVIOUS
<1>1. Mixed3(T, Slice(m, lo, 16)) \in Bytes(16)
  <2>1. Slice(m, lo, 16) \in Block
    BY SliceIn, BlockBytes
  <2> QED BY <2>1, Unmixes, BlockBytes
<1> QED BY <1>1, PutIn, SliceApart DEF MixAt

(* They are undone whatever lies after them.                               *)
LEMMA MixJoined ==
  \A T, m, b, n, lo :
    TablesMatch(T) /\ m \in Mem /\ b \in Mem /\ n \in Nat /\ Region(lo, 16) /\ lo + 16 <= n =>
      UnmixAt(T, Joined(MixAt(T, m, lo), b, n), lo) = Joined(m, b, n)
<1> SUFFICES ASSUME NEW T, NEW m, NEW b, NEW n, NEW lo, TablesMatch(T), m \in Mem, b \in Mem,
                    n \in Nat, Region(lo, 16), lo + 16 <= n
             PROVE  UnmixAt(T, Joined(MixAt(T, m, lo), b, n), lo) = Joined(m, b, n)
  OBVIOUS
<1> DEFINE s == Slice(m, lo, 16)
           d == Mixed3(T, s)
           w == Put(m, lo, d)
           j == Joined(w, b, n)
<1>1. d \in Bytes(16) /\ Unmixed(T, d) = s
  <2>1. s \in Block
    BY SliceIn, BlockBytes
  <2> HIDE DEF s
  <2> QED BY <2>1, Unmixes, BlockBytes
<1> HIDE DEF d
<1>2. w \in Mem /\ Slice(w, lo, 16) = d
  BY <1>1, PutIn, SlicePut
<1> HIDE DEF w
<1>3. Slice(j, lo, 16) = d
  BY <1>2, JoinSlice
<1>4. UnmixAt(T, j, lo) = Put(j, lo, s)
  BY <1>1, <1>3, Zenon DEF UnmixAt
<1>5. Put(j, lo, s) = Joined(m, b, n)
  BY <1>1, PutJoined DEF w
<1> QED BY <1>4, <1>5, Zenon DEF j, w, d, s, MixAt

(* Two blocks of 16 bytes are mixed in either order.                       *)
LEMMA MixSwap ==
  \A T, m, lo, c :
    TablesMatch(T) /\ m \in Mem /\ Region(lo, 16) /\ Region(c, 16) /\ Apart(lo, 16, c, 16) =>
      MixAt(T, MixAt(T, m, lo), c) = MixAt(T, MixAt(T, m, c), lo)
<1> SUFFICES ASSUME NEW T, NEW m, NEW lo, NEW c, TablesMatch(T), m \in Mem, Region(lo, 16),
                    Region(c, 16), Apart(lo, 16, c, 16)
             PROVE  MixAt(T, MixAt(T, m, lo), c) = MixAt(T, MixAt(T, m, c), lo)
  OBVIOUS
<1> DEFINE d == Mixed3(T, Slice(m, lo, 16))
           e == Mixed3(T, Slice(m, c, 16))
<1>1. Apart(c, 16, lo, 16)
  BY DEF Apart
<1>2. d \in Bytes(16) /\ e \in Bytes(16)
  BY MixIn
<1>3. Slice(MixAt(T, m, lo), c, 16) = Slice(m, c, 16) /\ Slice(MixAt(T, m, c), lo, 16) = Slice(m, lo, 16)
  BY <1>1, MixIn
<1>4. MixAt(T, MixAt(T, m, lo), c) = Put(Put(m, lo, d), c, e)
  BY <1>3, Zenon DEF MixAt
<1>5. MixAt(T, MixAt(T, m, c), lo) = Put(Put(m, c, e), lo, d)
  BY <1>3, Zenon DEF MixAt
<1> HIDE DEF d, e
<1>6. Put(Put(m, lo, d), c, e) = Put(Put(m, c, e), lo, d)
  BY <1>2, PutSwap
<1> QED BY <1>4, <1>5, <1>6

-----------------------------------------------------------------------------
(* mhy0.                                                                   *)

(* The two rounds of a header, which are undone in the order they are done. *)
Twice(T, m) == MixAt(T, MixAt(T, m, 4), 20)

Unmade(T, m) == UnmixAt(T, UnmixAt(T, m, 4), 20)

(* They stay within 4 .. 35, and are undone whatever lies after them.      *)
LEMMA TwiceMixed ==
  \A T, m, b, n : TablesMatch(T) /\ m \in Mem /\ b \in Mem /\ n \in Nat /\ 36 <= n /\ n <= MemSize =>
    /\ Twice(T, m) \in Mem
    /\ \A c, j : Region(c, j) /\ Apart(4, 32, c, j) => Slice(Twice(T, m), c, j) = Slice(m, c, j)
    /\ Unmade(T, Joined(Twice(T, m), b, n)) = Joined(m, b, n)
<1> SUFFICES ASSUME NEW T, NEW m, NEW b, NEW n, TablesMatch(T), m \in Mem, b \in Mem,
                    n \in Nat, 36 <= n, n <= MemSize
             PROVE  /\ Twice(T, m) \in Mem
                    /\ \A c, j : Region(c, j) /\ Apart(4, 32, c, j) =>
                         Slice(Twice(T, m), c, j) = Slice(m, c, j)
                    /\ Unmade(T, Joined(Twice(T, m), b, n)) = Joined(m, b, n)
  OBVIOUS
<1> DEFINE x == MixAt(T, m, 4)
           y == MixAt(T, x, 20)
           z == MixAt(T, m, 20)
<1>1. /\ Region(4, 16) /\ Region(20, 16) /\ Apart(4, 16, 20, 16) /\ Apart(20, 16, 4, 16)
      /\ 4 + 16 <= n /\ 20 + 16 <= n
  BY CasesAssumption DEF Region, Apart
<1>2. \A c, j : Region(c, j) /\ Apart(4, 32, c, j) => Apart(4, 16, c, j) /\ Apart(20, 16, c, j)
  BY DEF Region, Apart
<1>3. x \in Mem /\ \A c, j : Region(c, j) /\ Apart(4, 16, c, j) => Slice(x, c, j) = Slice(m, c, j)
  BY <1>1, MixIn
<1>4. z \in Mem
  BY <1>1, MixIn
<1>5. y = MixAt(T, z, 4)
  BY <1>1, MixSwap
<1> HIDE DEF x, z
<1>6. y \in Mem /\ \A c, j : Region(c, j) /\ Apart(20, 16, c, j) => Slice(y, c, j) = Slice(x, c, j)
  BY <1>1, <1>3, MixIn
<1> HIDE DEF y
<1>7. \A c, j : Region(c, j) /\ Apart(4, 32, c, j) => Slice(y, c, j) = Slice(m, c, j)
  BY <1>2, <1>3, <1>6
<1>8. UnmixAt(T, Joined(y, b, n), 4) = Joined(z, b, n)
  BY <1>1, <1>4, <1>5, MixJoined
<1>9. UnmixAt(T, Joined(z, b, n), 20) = Joined(m, b, n)
  BY <1>1, MixJoined DEF z
<1>10. Twice(T, m) = y
  BY DEF Twice, y, x
<1>11. Unmade(T, Joined(y, b, n)) = Joined(m, b, n)
  BY <1>8, <1>9 DEF Unmade
<1> QED BY <1>6, <1>7, <1>10, <1>11, Zenon

(* The first four bytes with four that come later.                         *)
LEMMA HeadMixed ==
  \A m, b, n, lo : m \in Mem /\ b \in Mem /\ n \in Nat /\ 4 <= lo /\ lo + 4 <= n /\ n <= MemSize
                     /\ lo \in Nat =>
    /\ XorHead(m, lo) \in Mem
    /\ \A c, j : Region(c, j) /\ Apart(0, 4, c, j) => Slice(XorHead(m, lo), c, j) = Slice(m, c, j)
    /\ XorHead(Joined(XorHead(m, lo), b, n), lo) = Joined(m, b, n)
<1> SUFFICES ASSUME NEW m, NEW b, NEW n, NEW lo, m \in Mem, b \in Mem, n \in Nat, lo \in Nat,
                    4 <= lo, lo + 4 <= n, n <= MemSize
             PROVE  /\ XorHead(m, lo) \in Mem
                    /\ \A c, j : Region(c, j) /\ Apart(0, 4, c, j) =>
                         Slice(XorHead(m, lo), c, j) = Slice(m, c, j)
                    /\ XorHead(Joined(XorHead(m, lo), b, n), lo) = Joined(m, b, n)
  OBVIOUS
<1> DEFINE s == Slice(m, lo, 4)
           w == XorCrypt(m, 0, 4, s, 4)
<1>1. Region(0, 4) /\ Region(lo, 4) /\ 0 + 4 <= n /\ Apart(0, 4, lo, 4)
  BY CasesAssumption DEF Region, Apart
<1>2. s \in Bytes(4) /\ Keyable(s, 4)
  BY <1>1, SliceIn DEF Keyable
<1> HIDE DEF s
<1>3. w \in Mem /\ \A c, j : Region(c, j) /\ Apart(0, 4, c, j) => Slice(w, c, j) = Slice(m, c, j)
  BY <1>1, <1>2, XorMem
<1>4. XorCrypt(Joined(w, b, n), 0, 4, s, 4) = Joined(m, b, n)
  BY <1>1, <1>2, XorJoined
<1> HIDE DEF w
<1>5. Slice(Joined(w, b, n), lo, 4) = s
  BY <1>1, <1>3, JoinSlice DEF s
<1>6. XorHead(Joined(w, b, n), lo) = Joined(m, b, n)
  BY <1>4, <1>5, Zenon DEF XorHead
<1>7. XorHead(m, lo) = w
  BY Zenon DEF XorHead, w, s
<1> QED BY <1>3, <1>6, <1>7, Zenon

(* What follows the rounds with what the rounds work on.                   *)
LEMMA ChainMixed ==
  \A m, b, n, h : m \in Mem /\ b \in Mem /\ n \in Nat /\ h \in BOOLEAN /\ Window(h) <= n /\ n <= MemSize =>
    /\ Chained(m, h) \in Mem
    /\ Chained(Joined(Chained(m, h), b, n), h) = Joined(m, b, n)
<1> SUFFICES ASSUME NEW m, NEW b, NEW n, NEW h, m \in Mem, b \in Mem, n \in Nat, h \in BOOLEAN,
                    Window(h) <= n, n <= MemSize
             PROVE  /\ Chained(m, h) \in Mem
                    /\ Chained(Joined(Chained(m, h), b, n), h) = Joined(m, b, n)
  OBVIOUS
<1> DEFINE size == ChunkSize(h)
           lo == RoundSize(h) + 4
           k == Window(h) - lo
           s == Slice(m, 4, size)
           w == XorCrypt(m, lo, k, s, size)
<1>1. /\ size \in Nat \ {0} /\ Region(4, size) /\ Region(lo, k) /\ lo + k <= n
      /\ Apart(lo, k, 4, size) /\ 4 + size <= n
  BY CasesAssumption DEF Region, Apart, Window, ChunkSize, RoundSize
<1> HIDE DEF size, lo, k
<1>2. s \in Bytes(size) /\ Keyable(s, size)
  BY <1>1, SliceIn DEF Keyable
<1> HIDE DEF s
<1>3. w \in Mem /\ \A c, j : Region(c, j) /\ Apart(lo, k, c, j) => Slice(w, c, j) = Slice(m, c, j)
  BY <1>1, <1>2, XorMem
<1>4. XorCrypt(Joined(w, b, n), lo, k, s, size) = Joined(m, b, n)
  BY <1>1, <1>2, XorJoined
<1> HIDE DEF w
<1>5. Slice(Joined(w, b, n), 4, size) = s
  BY <1>1, <1>3, JoinSlice DEF s
<1>6. Chained(Joined(w, b, n), h) = Joined(m, b, n)
  BY <1>4, <1>5, Zenon DEF Chained, lo, k, size
<1>7. Chained(m, h) = w
  BY Zenon DEF Chained, w, s, lo, k, size
<1> QED BY <1>3, <1>6, <1>7, Zenon

(* mhy0: the rounds, the head and the chain are undone backwards.          *)
LEMMA Mhy0Back ==
  \A p, b, n, h : p \in Mem /\ b \in Mem /\ n \in Nat /\ h \in BOOLEAN /\ Window(h) <= n /\ n <= MemSize =>
    /\ mhy0_encrypt(p, h) \in Mem
    /\ mhy0_decrypt(Joined(mhy0_encrypt(p, h), b, n), h) = Joined(p, b, n)
<1> SUFFICES ASSUME NEW p, NEW b, NEW n, NEW h, p \in Mem, b \in Mem, n \in Nat, h \in BOOLEAN,
                    Window(h) <= n, n <= MemSize
             PROVE  /\ mhy0_encrypt(p, h) \in Mem
                    /\ mhy0_decrypt(Joined(mhy0_encrypt(p, h), b, n), h) = Joined(p, b, n)
  OBVIOUS
<1> DEFINE c == Chained(p, h)
           x == XorHead(c, 4)
           e == Mhy0Mixed(x, h)
<1>1. TablesMatch(MhyTables)
  BY TablesAssumption
<1>2. /\ 4 \in Nat /\ 4 + 4 <= n /\ Region(4, 16) /\ 4 + 16 <= n
      /\ h => 36 <= n
  BY CasesAssumption DEF Window, Region
<1>3. c \in Mem /\ Chained(Joined(c, b, n), h) = Joined(p, b, n)
  BY ChainMixed
<1> HIDE DEF c
<1>4. x \in Mem /\ XorHead(Joined(x, b, n), 4) = Joined(c, b, n)
  BY <1>2, <1>3, HeadMixed
<1> HIDE DEF x
<1>5. e \in Mem /\ Mhy0Unmixed(Joined(e, b, n), h) = Joined(x, b, n)
  <2>1. CASE h
    <3>1. e = Twice(MhyTables, x) /\ \A m : Mhy0Unmixed(m, h) = Unmade(MhyTables, m)
      BY <2>1, Zenon DEF Mhy0Mixed, Mhy0Unmixed, Twice, Unmade
    <3> HIDE DEF e
    <3>2. 36 <= n
      BY <1>2, <2>1
    <3>3. Twice(MhyTables, x) \in Mem
          /\ Unmade(MhyTables, Joined(Twice(MhyTables, x), b, n)) = Joined(x, b, n)
      BY <1>1, <1>4, <3>2, TwiceMixed
    <3> QED BY <3>1, <3>3, Zenon
  <2>2. CASE ~h
    <3>1. e = MixAt(MhyTables, x, 4) /\ \A m : Mhy0Unmixed(m, h) = UnmixAt(MhyTables, m, 4)
      BY <2>2, Zenon DEF Mhy0Mixed, Mhy0Unmixed
    <3> HIDE DEF e
    <3> QED BY <1>1, <1>2, <1>4, <3>1, MixIn, MixJoined
  <2> QED BY <2>1, <2>2
<1> HIDE DEF e
<1>6. mhy0_encrypt(p, h) = e /\ mhy0_decrypt(Joined(e, b, n), h) = Joined(p, b, n)
  BY <1>3, <1>4, <1>5, Zenon DEF mhy0_encrypt, mhy0_decrypt, e, x, c
<1> QED BY <1>5, <1>6, Zenon

-----------------------------------------------------------------------------
(* mhy1.                                                                   *)

(* w is m but for k bytes at at.                                          *)
Elsewhere(w, m, lo, k) ==
  \A c, i : Region(c, i) /\ Apart(lo, k, c, i) => Slice(w, c, i) = Slice(m, c, i)

Within(lo, k, n) == Region(lo, k) /\ lo + k <= n

(* aes on 16 bytes in place, with round keys.                              *)
Wrapped(m, lo, rk) == Put(m, lo, aesUnscrambleKey(Slice(m, lo, 16), rk))
Opened(m, lo, rk)  == Put(m, lo, aesScrambleKey(Slice(m, lo, 16), rk))

(* aes in place touches its block only, and is undone whatever lies after  *)
(* it.                                                                     *)
LEMMA AesOpened ==
  \A m, b, n, lo, rk :
    m \in Mem /\ b \in Mem /\ n \in Nat /\ Within(lo, 16, n) /\ rk \in RoundKeysType =>
    /\ Wrapped(m, lo, rk) \in Mem
    /\ Elsewhere(Wrapped(m, lo, rk), m, lo, 16)
    /\ Opened(Joined(Wrapped(m, lo, rk), b, n), lo, rk) = Joined(m, b, n)
<1> SUFFICES ASSUME NEW m, NEW b, NEW n, NEW lo, NEW rk, m \in Mem, b \in Mem, n \in Nat,
                    Within(lo, 16, n), rk \in RoundKeysType
             PROVE  /\ Wrapped(m, lo, rk) \in Mem
                    /\ Elsewhere(Wrapped(m, lo, rk), m, lo, 16)
                    /\ Opened(Joined(Wrapped(m, lo, rk), b, n), lo, rk) = Joined(m, b, n)
  OBVIOUS
<1> DEFINE s == Slice(m, lo, 16)
           d == aesUnscrambleKey(s, rk)
           w == Put(m, lo, d)
           j == Joined(w, b, n)
<1>0. Region(lo, 16) /\ lo + 16 <= n
  BY DEF Within
<1>1. d \in Bytes(16) /\ aesScrambleKey(d, rk) = s
  <2>1. s \in Block
    BY <1>0, SliceIn, BlockBytes
  <2> HIDE DEF s
  <2>2. aesUnscrambleKey(s, rk) \in Block /\ aesScrambleKey(aesUnscrambleKey(s, rk), rk) = s
    BY <2>1, AesInverse, Zenon
  <2> QED BY <2>2, BlockBytes
<1>2. Wrapped(m, lo, rk) = w
  BY DEF Wrapped
<1> HIDE DEF d
<1>3. /\ w \in Mem /\ Slice(w, lo, 16) = d
      /\ Elsewhere(w, m, lo, 16)
  BY <1>0, <1>1, PutIn, SlicePut, SliceApart DEF Elsewhere
<1>4. Put(j, lo, s) = Joined(m, b, n)
  BY <1>0, <1>1, PutJoined
<1> HIDE DEF w
<1>5. Slice(j, lo, 16) = d
  BY <1>0, <1>3, JoinSlice
<1>6. Opened(j, lo, rk) = Joined(m, b, n)
  BY <1>1, <1>4, <1>5, Zenon DEF Opened
<1> QED BY <1>2, <1>3, <1>6, Zenon DEF j

(* rc4 on k bytes in place, with the two halves of 16 bytes as its keys.   *)
Rolled(m, lo, k, a)   == Put(m, lo, rc4_dec_mhy(Slice(m, a, 8), Slice(m, lo, k), Slice(m, a + 8, 8)))
Unrolled(m, lo, k, a) == Put(m, lo, rc4_mhy(Slice(m, a, 8), Slice(m, lo, k), Slice(m, a + 8, 8)))

(* So is rc4 in place, as long as its keys lie before what it covers.      *)
LEMMA Rc4Unrolled ==
  \A m, b, n, lo, k, a :
    m \in Mem /\ b \in Mem /\ n \in Nat /\ Within(lo, k, n) /\ Within(a, 16, lo) =>
    /\ Rolled(m, lo, k, a) \in Mem
    /\ Elsewhere(Rolled(m, lo, k, a), m, lo, k)
    /\ Unrolled(Joined(Rolled(m, lo, k, a), b, n), lo, k, a) = Joined(m, b, n)
<1> SUFFICES ASSUME NEW m, NEW b, NEW n, NEW lo, NEW k, NEW a, m \in Mem, b \in Mem, n \in Nat,
                    Within(lo, k, n), Within(a, 16, lo)
             PROVE  /\ Rolled(m, lo, k, a) \in Mem
                    /\ Elsewhere(Rolled(m, lo, k, a), m, lo, k)
                    /\ Unrolled(Joined(Rolled(m, lo, k, a), b, n), lo, k, a) = Joined(m, b, n)
  OBVIOUS
<1> DEFINE s == Slice(m, lo, k)
           x == Slice(m, a, 8)
           y == Slice(m, a + 8, 8)
           d == rc4_dec_mhy(x, s, y)
           w == Put(m, lo, d)
           j == Joined(w, b, n)
<1>1. /\ Region(a, 8) /\ Region(a + 8, 8) /\ Apart(lo, k, a, 8) /\ Apart(lo, k, a + 8, 8)
      /\ a + 8 <= n /\ (a + 8) + 8 <= n /\ k \in Nat /\ Region(lo, k) /\ lo + k <= n
  BY CasesAssumption DEF Region, Apart, Within
<1>2. s \in Bytes(k) /\ x \in Key8 /\ y \in Key8
  BY <1>1, SliceIn, BlockBytes
<1>3. d \in Bytes(k) /\ rc4_mhy(x, d, y) = s
  <2> HIDE DEF s, x, y
  <2>1. rc4_dec_mhy(x, s, y) \in Bytes(k) /\ rc4_mhy(x, rc4_dec_mhy(x, s, y), y) = s
    BY <1>1, <1>2, Rc4Inverse
  <2> QED BY <2>1, Zenon
<1>4. Rolled(m, lo, k, a) = w
  BY DEF Rolled
<1> HIDE DEF d
<1>5. /\ w \in Mem /\ Slice(w, lo, k) = d
      /\ Elsewhere(w, m, lo, k)
  BY <1>1, <1>3, PutIn, SlicePut, SliceApart DEF Elsewhere
<1>6. Put(j, lo, s) = Joined(m, b, n)
  BY <1>1, <1>3, PutJoined
<1> HIDE DEF w
<1>7. Slice(j, lo, k) = d /\ Slice(j, a, 8) = x /\ Slice(j, a + 8, 8) = y
  BY <1>1, <1>5, JoinSlice DEF Elsewhere
<1>8. Unrolled(j, lo, k, a) = Joined(m, b, n)
  BY <1>3, <1>6, <1>7, Zenon DEF Unrolled
<1> QED BY <1>4, <1>5, <1>8, Zenon DEF j

(* mhy1: rc4, the head, aes and the rounds are undone backwards.           *)
LEMMA Mhy1Back ==
  \A p, b, n, h : p \in Mem /\ b \in Mem /\ n \in Nat /\ h \in BOOLEAN /\ Mhy1Accepts(n, h) /\ n <= MemSize =>
    /\ mhy1_encrypt(p, n, h) \in Mem
    /\ mhy1_decrypt(Joined(mhy1_encrypt(p, n, h), b, n), n, h) = Joined(p, b, n)
<1> SUFFICES ASSUME NEW p, NEW b, NEW n, NEW h, p \in Mem, b \in Mem, n \in Nat, h \in BOOLEAN,
                    Mhy1Accepts(n, h), n <= MemSize
             PROVE  /\ mhy1_encrypt(p, n, h) \in Mem
                    /\ mhy1_decrypt(Joined(mhy1_encrypt(p, n, h), b, n), n, h) = Joined(p, b, n)
  OBVIOUS
<1> DEFINE from == 20 + RoundSize(h)
           tail == Mhy1Tail(n, h)
           r == Rolled(p, from, tail, 20)
           x == XorHead(r, 20)
           rk == aesGetRoundKeys(Slice(x, 0, 16))
           o == Wrapped(x, 20, rk)
           e == Twice(MhyTables, o)
<1>1. TablesMatch(MhyTables)
  BY TablesAssumption
<1>2. /\ Region(from, tail) /\ from + tail <= n /\ Region(20, 16) /\ 20 + 16 <= from
      /\ 20 + 16 <= n /\ 36 <= n /\ 20 + 4 <= n /\ 20 \in Nat /\ 4 <= 20 /\ Region(0, 16) /\ 0 + 16 <= n
      /\ Apart(20, 16, 0, 16) /\ Within(from, tail, n) /\ Within(20, 16, from) /\ Within(20, 16, n)
  BY CasesAssumption, CryptMaxAssumption
     DEF Within, Region, Apart, Mhy1Accepts, Mhy1Tail, Capped, RoundSize
<1> HIDE DEF from, tail
<1>3. r \in Mem /\ Unrolled(Joined(r, b, n), from, tail, 20) = Joined(p, b, n)
  BY <1>2, Rc4Unrolled
<1> HIDE DEF r
<1>4. x \in Mem /\ XorHead(Joined(x, b, n), 20) = Joined(r, b, n)
  BY <1>2, <1>3, HeadMixed
<1> HIDE DEF x
<1>5. rk \in RoundKeysType
  <2>1. Slice(x, 0, 16) \in Block
    BY <1>2, <1>4, SliceIn, BlockBytes
  <2> QED BY <2>1, RoundKeysAre
<1> HIDE DEF rk
<1>6. o \in Mem /\ Slice(o, 0, 16) = Slice(x, 0, 16) /\ Opened(Joined(o, b, n), 20, rk) = Joined(x, b, n)
  <2>1. o \in Mem /\ Elsewhere(o, x, 20, 16) /\ Opened(Joined(o, b, n), 20, rk) = Joined(x, b, n)
    BY <1>2, <1>4, <1>5, AesOpened
  <2> QED BY <1>2, <2>1 DEF Elsewhere
<1> HIDE DEF o
<1>7. e \in Mem /\ Unmade(MhyTables, Joined(e, b, n)) = Joined(o, b, n)
  BY <1>1, <1>2, <1>6, TwiceMixed
<1> HIDE DEF e
<1>8. aesGetRoundKeys(Slice(Joined(o, b, n), 0, 16)) = rk
  <2>1. Slice(Joined(o, b, n), 0, 16) = Slice(x, 0, 16)
    BY <1>2, <1>6, JoinSlice
  <2> QED BY <2>1 DEF rk
<1>9. 20 + 8 = 28
  OBVIOUS
<1>10. mhy1_encrypt(p, n, h) = e
  BY <1>9, Zenon DEF mhy1_encrypt, Rolled, Wrapped, Twice, e, o, rk, x, r, from, tail
<1>11. mhy1_decrypt(Joined(e, b, n), n, h) = Joined(p, b, n)
  <2> DEFINE j == Joined(e, b, n)
             m1 == UnmixAt(MhyTables, UnmixAt(MhyTables, j, 4), 20)
             m2 == Put(m1, 20, aesScrambleKey(Slice(m1, 20, 16), aesGetRoundKeys(Slice(m1, 0, 16))))
             m3 == XorHead(m2, 20)
             m4 == Put(m3, from, rc4_mhy(Slice(m3, 20, 8), Slice(m3, from, tail), Slice(m3, 28, 8)))
  <2>1. mhy1_decrypt(j, n, h) = m4
    BY Zenon DEF mhy1_decrypt, from, tail
  <2>2. m1 = Joined(o, b, n)
    BY <1>7, Zenon DEF Unmade
  <2>3. m2 = Joined(x, b, n)
    <3> HIDE DEF m1
    <3> QED BY <1>6, <1>8, <2>2, Zenon DEF Opened
  <2>4. m3 = Joined(r, b, n)
    <3> HIDE DEF m2
    <3> QED BY <1>4, <2>3, Zenon
  <2>5. m4 = Joined(p, b, n)
    <3> HIDE DEF m3
    <3> QED BY <1>3, <1>9, <2>4, Zenon DEF Unrolled
  <2> QED BY <2>1, <2>5, Zenon
<1> QED BY <1>7, <1>10, <1>11, Zenon

-----------------------------------------------------------------------------
(* blb3.                                                                   *)

(* On memory, too, the variants of blb3 are those of mhy1.                 *)
LEMMA AesBlb3 ==
  \A m : m \in Mem /\ Region(0, 16) =>
    /\ Put(m, 0, aesUnscrambleKeyBlb3(Slice(m, 0, 16), aesGetRoundKeysBlb3(Key)))
         = Wrapped(m, 0, aesGetRoundKeys(Key))
    /\ Put(m, 0, aesScrambleKeyBlb3(Slice(m, 0, 16), aesGetRoundKeysBlb3(Key)))
         = Opened(m, 0, aesGetRoundKeys(Key))
<1> SUFFICES ASSUME NEW m, m \in Mem, Region(0, 16)
             PROVE  /\ Put(m, 0, aesUnscrambleKeyBlb3(Slice(m, 0, 16), aesGetRoundKeysBlb3(Key)))
                         = Wrapped(m, 0, aesGetRoundKeys(Key))
                    /\ Put(m, 0, aesScrambleKeyBlb3(Slice(m, 0, 16), aesGetRoundKeysBlb3(Key)))
                         = Opened(m, 0, aesGetRoundKeys(Key))
  OBVIOUS
<1> DEFINE s == Slice(m, 0, 16)
<1>1. s \in Block /\ Key \in Block
  BY SliceIn, BlockBytes, CasesAssumption DEF Block
<1> HIDE DEF s
<1>2. /\ aesScrambleKeyBlb3(s, aesGetRoundKeysBlb3(Key)) = aesScrambleKey(s, aesGetRoundKeys(Key))
      /\ aesUnscrambleKeyBlb3(s, aesGetRoundKeysBlb3(Key)) = aesUnscrambleKey(s, aesGetRoundKeys(Key))
  BY <1>1, AesAgree, Zenon
<1> QED BY <1>2, Zenon DEF s, Wrapped, Opened

(* And with rc4.                                                           *)
LEMMA Rc4Blb3 ==
  \A m, lo, k : m \in Mem /\ Region(lo, k) /\ Region(0, 16) =>
    /\ Put(m, lo, rc4_dec_blb3(Slice(m, 0, 8), Slice(m, lo, k), Slice(m, 8, 8))) = Rolled(m, lo, k, 0)
    /\ Put(m, lo, rc4_blb3(Slice(m, 0, 8), Slice(m, lo, k), Slice(m, 8, 8))) = Unrolled(m, lo, k, 0)
<1> SUFFICES ASSUME NEW m, NEW lo, NEW k, m \in Mem, Region(lo, k), Region(0, 16)
             PROVE
               /\ Put(m, lo, rc4_dec_blb3(Slice(m, 0, 8), Slice(m, lo, k), Slice(m, 8, 8)))
                    = Rolled(m, lo, k, 0)
               /\ Put(m, lo, rc4_blb3(Slice(m, 0, 8), Slice(m, lo, k), Slice(m, 8, 8)))
                    = Unrolled(m, lo, k, 0)
  OBVIOUS
<1> DEFINE s == Slice(m, lo, k)  x == Slice(m, 0, 8)  y == Slice(m, 8, 8)
<1>1. Region(0, 8) /\ Region(8, 8) /\ 0 + 8 = 8 /\ k \in Nat
  BY CasesAssumption DEF Region
<1>2. s \in Bytes(k) /\ x \in Key8 /\ y \in Key8
  BY <1>1, SliceIn, BlockBytes
<1> HIDE DEF s, x, y
<1>3. rc4_blb3(x, s, y) = rc4_mhy(x, s, y) /\ rc4_dec_blb3(x, s, y) = rc4_dec_mhy(x, s, y)
  BY <1>1, <1>2, Rc4Inverse
<1> QED BY <1>1, <1>3, Zenon DEF s, x, y, Rolled, Unrolled

(* blb3: the key, aes, rc4 and the rounds are undone backwards.            *)
LEMMA Blb3Back ==
  \A p, b, n : p \in Mem /\ b \in Mem /\ n \in Nat /\ 16 <= n /\ n <= MemSize =>
    /\ blb3_encrypt(p, n, Key) \in Mem
    /\ blb3_decrypt(Joined(blb3_encrypt(p, n, Key), b, n), n, Key) = Joined(p, b, n)
<1> SUFFICES ASSUME NEW p, NEW b, NEW n, p \in Mem, b \in Mem, n \in Nat, 16 <= n, n <= MemSize
             PROVE  /\ blb3_encrypt(p, n, Key) \in Mem
                    /\ blb3_decrypt(Joined(blb3_encrypt(p, n, Key), b, n), n, Key) = Joined(p, b, n)
  OBVIOUS
<1> DEFINE tail == Blb3Tail(n)
           rk == aesGetRoundKeys(Key)
           x == MixAt(Blb3Tables, p, 0)
           r == Rolled(x, 16, tail, 0)
           o == Wrapped(r, 0, rk)
           k == IF Steps(n) THEN o ELSE p
           e == XorCrypt(k, 0, 16, Key, 16)
           j == Joined(k, b, n)
<1>1. TablesMatch(Blb3Tables) /\ Key \in Block /\ Keyable(Key, 16) /\ rk \in RoundKeysType
  <2>1. Key \in Block
    BY CasesAssumption DEF Block
  <2>2. Keyable(Key, 16)
    BY <2>1, BlockBytes DEF Keyable
  <2> QED BY <2>1, <2>2, TablesAssumption, RoundKeysAre
<1>2. /\ FirstBytes(n) = 16 /\ Region(0, 16) /\ 0 + 16 <= n /\ Within(0, 16, n) /\ Within(0, 16, 16)
      /\ Within(16, tail, n) /\ Region(16, tail)
  BY CasesAssumption, CryptMaxAssumption DEF FirstBytes, Region, Within, Blb3Tail, Capped
<1> HIDE DEF tail, rk
<1>3. x \in Mem /\ UnmixAt(Blb3Tables, Joined(x, b, n), 0) = Joined(p, b, n)
  BY <1>1, <1>2, MixIn, MixJoined
<1> HIDE DEF x
<1>4. r \in Mem /\ Unrolled(Joined(r, b, n), 16, tail, 0) = Joined(x, b, n)
  BY <1>2, <1>3, Rc4Unrolled
<1> HIDE DEF r
<1>5. o \in Mem /\ Opened(Joined(o, b, n), 0, rk) = Joined(r, b, n)
  BY <1>1, <1>2, <1>4, AesOpened
<1> HIDE DEF o
<1>6. k \in Mem
  BY <1>5
<1> HIDE DEF k
<1>7. e \in Mem /\ XorCrypt(Joined(e, b, n), 0, 16, Key, 16) = j
  BY <1>1, <1>2, <1>6, XorMem, XorJoined
<1>8. blb3_encrypt(p, n, Key) = e
  <2> DEFINE m2 == Put(x, 16, rc4_dec_blb3(Slice(x, 0, 8), Slice(x, 16, tail), Slice(x, 8, 8)))
             m3 == Put(m2, 0, aesUnscrambleKeyBlb3(Slice(m2, 0, 16), aesGetRoundKeysBlb3(Key)))
  <2>1. blb3_encrypt(p, n, Key) = XorCrypt(IF Steps(n) THEN m3 ELSE p, 0, FirstBytes(n), Key, 16)
    BY Zenon DEF blb3_encrypt, x, tail
  <2>2. m2 = r
    BY <1>2, <1>3, Rc4Blb3, Zenon DEF r
  <2>3. m3 = o
    <3> HIDE DEF m2
    <3> QED BY <1>2, <1>4, <2>2, AesBlb3, Zenon DEF o, rk
  <2> HIDE DEF m3
  <2> QED BY <1>2, <2>1, <2>3, Zenon DEF k
<1> HIDE DEF e
<1>9. blb3_decrypt(Joined(e, b, n), n, Key) = Joined(p, b, n)
  <2> DEFINE m1 == XorCrypt(Joined(e, b, n), 0, FirstBytes(n), Key, 16)
             m2 == Put(m1, 0, aesScrambleKeyBlb3(Slice(m1, 0, 16), aesGetRoundKeysBlb3(Key)))
             m3 == Put(m2, 16, rc4_blb3(Slice(m2, 0, 8), Slice(m2, 16, tail), Slice(m2, 8, 8)))
  <2>1. blb3_decrypt(Joined(e, b, n), n, Key) = IF Steps(n) THEN UnmixAt(Blb3Tables, m3, 0) ELSE m1
    BY Zenon DEF blb3_decrypt, tail
  <2>2. m1 = j
    BY <1>2, <1>7, Zenon
  <2>3. CASE Steps(n)
    <3>1. m1 = Joined(o, b, n) /\ m1 \in Mem
      <4>1. m1 = Joined(o, b, n)
        BY <2>2, <2>3, Zenon DEF k, j
      <4> QED BY <1>5, <4>1, JoinedIn
    <3> HIDE DEF m1
    <3>2. m2 = Opened(m1, 0, rk)
      BY <1>2, <3>1, AesBlb3, Zenon DEF rk
    <3>3. m2 = Joined(r, b, n) /\ m2 \in Mem
      <4>1. m2 = Joined(r, b, n)
        BY <1>5, <3>1, <3>2, Zenon
      <4> QED BY <1>4, <4>1, JoinedIn
    <3> HIDE DEF m2
    <3>4. m3 = Unrolled(m2, 16, tail, 0)
      BY <1>2, <3>3, Rc4Blb3, Zenon
    <3>5. m3 = Joined(x, b, n)
      BY <1>4, <3>3, <3>4, Zenon
    <3> HIDE DEF m3
    <3> QED BY <1>3, <2>1, <2>3, <3>5, Zenon
  <2>4. CASE ~Steps(n)
    BY <2>1, <2>2, <2>4, Zenon DEF k, j
  <2> QED BY <2>3, <2>4
<1> QED BY <1>7, <1>8, <1>9, Zenon DEF e

-----------------------------------------------------------------------------
(* mr0k.                                                                   *)

(* The other direction of aes gives a block, too.                          *)
LEMMA AesMhyIn == \A key, rk : key \in Block /\ rk \in RoundKeysType => aesScrambleKeyMhy(key, rk) \in Block
<1> SUFFICES ASSUME NEW key, NEW rk, key \in Block, rk \in RoundKeysType
             PROVE  aesScrambleKeyMhy(key, rk) \in Block
  OBVIOUS
<1> DEFINE F == [i \in 1 .. 9 |->
                   [k \in Block |-> roundKey(mixColsInv(shiftRowsInv(subBytesInv(k))), rk[i])]]
           first == roundKey(key, rk[0])
           last  == Iterates(9, first, F)[9]
<1>1. \A i \in 0 .. 10 : rk[i] \in Block
  BY DEF RoundKeysType
<1>2. \A k, r \in Block : roundKey(mixColsInv(shiftRowsInv(subBytesInv(k))), r) \in Block
  BY SubInverse, ShiftInverse, MixInverse, KeyInverse
<1>3. F \in StepsIn(9, Block)
  BY <1>1, <1>2 DEF StepsIn
<1>4. rk[0] \in Block /\ rk[10] \in Block /\ 9 \in Nat
  BY <1>1
<1>5. first \in Block
  BY <1>4, KeyInverse
<1> HIDE DEF F, first
<1>6. last \in Block
  <2>1. Iterated(Iterates(9, first, F), 9, Block, first, F)
    BY <1>3, <1>4, <1>5, IteratesAre, Zenon
  <2> QED BY <2>1 DEF Iterated
<1>7. aesScrambleKeyMhy(key, rk) = roundKey(shiftRowsInv(subBytesInv(last)), rk[10])
  BY Zenon DEF aesScrambleKeyMhy, Scrambled, last, first, F
<1> HIDE DEF last
<1> QED BY <1>4, <1>6, <1>7, SubInverse, ShiftInverse, KeyInverse

(* A key added to a block is taken off again, whichever of them came first. *)
LEMMA KeyTwice ==
  \A a, k : a \in Block /\ k \in Block =>
    roundKey(a, k) \in Block /\ roundKey(k, roundKey(a, k)) = a
<1> SUFFICES ASSUME NEW a, NEW k, a \in Block, k \in Block
             PROVE  roundKey(a, k) \in Block /\ roundKey(k, roundKey(a, k)) = a
  OBVIOUS
<1>1. \A x, y : roundKey(x, y) = [i \in Idx |-> x[i] (+) y[i]]
  BY StrictIs, Zenon DEF roundKey
<1>2. roundKey(a, k) \in Block /\ roundKey(roundKey(a, k), k) = a
  BY KeyInverse
<1> DEFINE c == roundKey(a, k)
<1>3. \A i \in Idx : k[i] (+) c[i] = c[i] (+) k[i]
  <2>1. \A i \in Idx : k[i] \in Byte /\ c[i] \in Byte
    BY <1>2 DEF Block
  <2> QED BY <2>1, XorComm
<1> HIDE DEF c
<1>4. roundKey(k, c) = roundKey(c, k)
  BY <1>1, <1>3
<1> QED BY <1>2, <1>4 DEF c

(* A carry is a number.                                                    *)
LEMMA DivNat == \A x \in Nat : x \div Q \in Nat
<1> SUFFICES ASSUME NEW x \in Nat PROVE x \div Q \in Nat
  OBVIOUS
<1>1. Q \in Nat /\ Q >= 2
  BY QIs
<1> HIDE DEF Q
<1> QED BY <1>1

(* The sum on eight bytes is eight bytes.                                  *)
LEMMA PlusIn == \A word, n : word \in Block /\ n \in Nat => Plus(word, n) \in Key8
<1> SUFFICES ASSUME NEW word, NEW n, word \in Block, n \in Nat PROVE Plus(word, n) \in Key8
  OBVIOUS
<1> DEFINE step == [i \in 1 .. 7 |-> [c \in Nat |-> (word[i - 1] + c) \div Q]]
           carry == Iterates(7, n, step)
<1>1. \A i \in Idx : word[i] \in Nat
  BY ByteNat DEF Block
<1>2. step \in StepsIn(7, Nat)
  <2>1. \A i \in 1 .. 7 : i - 1 \in Idx
    BY DEF Idx
  <2>2. \A i \in 1 .. 7 : \A c \in Nat : word[i - 1] + c \in Nat
    BY <1>1, <2>1
  <2>3. \A i \in 1 .. 7 : \A c \in Nat : (word[i - 1] + c) \div Q \in Nat
    BY <2>2, DivNat
  <2> QED BY <2>3 DEF StepsIn
<1> HIDE DEF step
<1>3. carry \in [0 .. 7 -> Nat]
  <2>1. 7 \in Nat
    OBVIOUS
  <2>2. Iterated(Iterates(7, n, step), 7, Nat, n, step)
    BY <1>2, <2>1, IteratesAre, Zenon
  <2> QED BY <2>2 DEF Iterated
<1>4. Plus(word, n) = [i \in 0 .. 7 |-> (word[i] + carry[i]) % Q]
  BY Zenon DEF Plus, carry, step
<1> HIDE DEF carry
<1>5. \A i \in 0 .. 7 : (word[i] + carry[i]) % Q \in Byte
  <2>1. \A i \in 0 .. 7 : i \in Idx
    BY DEF Idx
  <2>2. \A i \in 0 .. 7 : word[i] + carry[i] \in Nat
    BY <1>1, <1>3, <2>1
  <2> QED BY <2>2, ModByte
<1> QED BY <1>4, <1>5 DEF Key8

(* So is the seed.                                                         *)
LEMMA SeedIn ==
  \A a, k, n : a \in Block /\ k \in Block /\ n \in Nat /\ 20 <= n => Seed(a, k, n) \in Key8
<1> SUFFICES ASSUME NEW a, NEW k, NEW n, a \in Block, k \in Block, n \in Nat, 20 <= n
             PROVE  Seed(a, k, n) \in Key8
  OBVIOUS
<1> DEFINE sum == Plus(a, n - 20)
<1>1. sum \in Key8
  <2>1. n - 20 \in Nat
    OBVIOUS
  <2> QED BY <2>1, PlusIn
<1>2. Seed(a, k, n) = [i \in 0 .. 7 |-> a[i] (+) k[i] (+) sum[i]]
  BY Zenon DEF Seed
<1> HIDE DEF sum
<1>3. \A i \in 0 .. 7 : a[i] \in Byte /\ k[i] \in Byte /\ sum[i] \in Byte
  <2>1. \A i \in 0 .. 7 : i \in Idx
    BY DEF Idx
  <2> QED BY <1>1, <2>1 DEF Block, Key8
<1>4. \A i \in 0 .. 7 : a[i] (+) k[i] (+) sum[i] \in Byte
  BY <1>3, XorIn
<1> QED BY <1>2, <1>4 DEF Key8

(* The two keys of mr0k, and what they are read from.                      *)
LEMMA Dynkey0In ==
  \A mode, m : mode \in ModeKeys /\ m \in Mem /\ Region(4, 16) => Dynkey0(mode, m) \in Block
<1> SUFFICES ASSUME NEW mode, NEW m, mode \in ModeKeys, m \in Mem, Region(4, 16)
             PROVE  Dynkey0(mode, m) \in Block
  OBVIOUS
<1> DEFINE k0 == Slice(m, 4, 16)
           s0 == IF mode.scramble_key = None THEN k0 ELSE [i \in Idx |-> mode.scramble_key[i % 4][k0[i]]]
<1>1. k0 \in Block
  BY SliceIn, BlockBytes
<1>2. /\ mode.scramble_key = None \/ mode.scramble_key \in [0 .. 3 -> [Byte -> Byte]]
      /\ mode.aes_round_keys = None \/ mode.aes_round_keys \in RoundKeysType
  BY DEF ModeKeys, RoundKeysType, Block
<1> HIDE DEF k0
<1>3. s0 \in Block
  <2>1. \A i \in Idx : i % 4 \in 0 .. 3 /\ k0[i] \in Byte
    BY <1>1 DEF Idx, Block
  <2> QED BY <1>1, <1>2, <2>1 DEF Block
<1>4. Dynkey0(mode, m) = IF mode.aes_round_keys = None THEN s0
                         ELSE aesScrambleKeyMhy(s0, mode.aes_round_keys)
  BY Zenon DEF Dynkey0, k0
<1> HIDE DEF s0
<1> QED BY <1>2, <1>3, <1>4, AesMhyIn

(* The second key is a block.                                              *)
LEMMA Dynkey1In ==
  \A mode, m : mode \in ModeKeys /\ m \in Mem /\ Region(116, 16) => Dynkey1(mode, m) \in Block
<1> SUFFICES ASSUME NEW mode, NEW m, mode \in ModeKeys, m \in Mem, Region(116, 16)
             PROVE  Dynkey1(mode, m) \in Block
  OBVIOUS
<1> DEFINE s == Slice(m, 116, 16)
           key == mode.xor_key
<1>1. s \in Block
  BY SliceIn, BlockBytes
<1>2. key = None \/ key \in Block
  BY DEF ModeKeys, Block
<1>3. Dynkey1(mode, m) = IF key = None THEN s ELSE XorCrypt(s, 0, 16, key, 16)
  BY Zenon DEF Dynkey1, Keyed
<1> HIDE DEF s, key
<1>4. CASE key \in Block
  <2>1. XorCrypt(s, 0, 16, key, 16)
          = [x \in DOMAIN s |-> IF x \in 0 .. 0 + 16 - 1 THEN s[x] (+) key[(x - 0) % 16] ELSE s[x]]
    BY StrictIs, Zenon DEF XorCrypt
  <2>2. DOMAIN s = Idx /\ \A x \in Idx : (x - 0) % 16 \in Idx
    BY <1>1 DEF Block, Idx
  <2>3. \A x \in Idx : s[x] \in Byte /\ s[x] (+) key[(x - 0) % 16] \in Byte
    BY <1>1, <1>4, <2>2, XorIn DEF Block
  <2>4. XorCrypt(s, 0, 16, key, 16) \in Block
    BY <2>1, <2>2, <2>3 DEF Block
  <2> QED BY <1>1, <1>3, <2>4
<1> QED BY <1>1, <1>2, <1>3, <1>4

(* A key the mode may lack: where it covers bytes, they are the block's.   *)
Fits(key, keySz, lo, k, n) == key = None \/ (Keyable(key, keySz) /\ Within(lo, k, n))

(* A key that exists is taken off by the same call, one that does not      *)
(* changes nothing.                                                        *)
LEMMA KeyedJoined ==
  \A m, b, n, lo, k, key, keySz : m \in Mem /\ b \in Mem /\ n \in Nat /\ Fits(key, keySz, lo, k, n) =>
    /\ Keyed(m, lo, k, key, keySz) \in Mem
    /\ Elsewhere(Keyed(m, lo, k, key, keySz), m, lo, k)
    /\ Keyed(Joined(Keyed(m, lo, k, key, keySz), b, n), lo, k, key, keySz) = Joined(m, b, n)
<1> SUFFICES ASSUME NEW m, NEW b, NEW n, NEW lo, NEW k, NEW key, NEW keySz, m \in Mem, b \in Mem,
                    n \in Nat, Fits(key, keySz, lo, k, n)
             PROVE  /\ Keyed(m, lo, k, key, keySz) \in Mem
                    /\ Elsewhere(Keyed(m, lo, k, key, keySz), m, lo, k)
                    /\ Keyed(Joined(Keyed(m, lo, k, key, keySz), b, n), lo, k, key, keySz) = Joined(m, b, n)
  OBVIOUS
<1>1. CASE key = None
  <2>1. \A w : Keyed(w, lo, k, key, keySz) = w
    BY <1>1, Zenon DEF Keyed
  <2> QED BY <2>1 DEF Elsewhere
<1>2. CASE key # None
  <2>1. \A w : Keyed(w, lo, k, key, keySz) = XorCrypt(w, lo, k, key, keySz)
    BY <1>2, Zenon DEF Keyed
  <2>2. Keyable(key, keySz) /\ Region(lo, k) /\ lo + k <= n
    BY <1>2 DEF Fits, Within
  <2>3. /\ XorCrypt(m, lo, k, key, keySz) \in Mem
        /\ Elsewhere(XorCrypt(m, lo, k, key, keySz), m, lo, k)
    BY <2>2, XorMem DEF Elsewhere
  <2>4. XorCrypt(Joined(XorCrypt(m, lo, k, key, keySz), b, n), lo, k, key, keySz) = Joined(m, b, n)
    BY <2>2, XorJoined
  <2> QED BY <2>1, <2>3, <2>4, Zenon
<1> QED BY <1>1, <1>2

(* What the block keys cover is within the block: 16 bytes for each 128 of *)
(* it.                                                                     *)
LEMMA EncSizeIs ==
  \A n : n \in Nat /\ 148 <= n /\ n <= MemSize => Within(148, EncSize(n), n)
<1> SUFFICES ASSUME NEW n, n \in Nat, 148 <= n, n <= MemSize PROVE Within(148, EncSize(n), n)
  OBVIOUS
<1>1. EncSize(n) \in Nat /\ 148 + EncSize(n) <= n
  <2> DEFINE q == (n - 148) \div 128
  <2>1. q \in Nat /\ 128 * q <= n - 148
    OBVIOUS
  <2> HIDE DEF q
  <2>2. EncSize(n) = IF q * 16 > EncMax THEN EncMax ELSE q * 16
    BY Zenon DEF EncSize, q
  <2> QED BY <2>1, <2>2, ModesAssumption
<1> QED BY <1>1, CasesAssumption DEF Within, Region

(* mr0k: each layer is taken off with the keys it was put on with.         *)
LEMMA Mr0kBack ==
  \A p, b, n, mode :
    p \in Mem /\ b \in Mem /\ n \in Nat /\ n <= MemSize /\ mode \in ModeKeys /\ Slice(p, 0, 4) = Magic
      /\ (mode.post_key = None \/ TooSmall(n) \/ n >= 20 + PostLength) =>
    /\ mr0k_encrypt(p, n, mode) \in Mem
    /\ mr0k_decrypt(Joined(mr0k_encrypt(p, n, mode), b, n), n, mode) = Joined(p, b, n)
<1> SUFFICES ASSUME NEW p, NEW b, NEW n, NEW mode, p \in Mem, b \in Mem, n \in Nat, n <= MemSize,
                    mode \in ModeKeys, Slice(p, 0, 4) = Magic,
                    mode.post_key = None \/ TooSmall(n) \/ n >= 20 + PostLength
             PROVE  /\ mr0k_encrypt(p, n, mode) \in Mem
                    /\ mr0k_decrypt(Joined(mr0k_encrypt(p, n, mode), b, n), n, mode) = Joined(p, b, n)
  OBVIOUS
<1>1. CASE TooSmall(n)
  <2>1. \A m : mr0k_encrypt(m, n, mode) = m /\ mr0k_decrypt(m, n, mode) = m
    BY <1>1, Zenon DEF mr0k_encrypt, mr0k_decrypt
  <2> QED BY <2>1
<1>2. CASE ~TooSmall(n)
  <2> DEFINE size == EncSize(n)
             m0 == Keyed(p, 20, PostLength, mode.post_key, 24)
             k0 == Dynkey0(mode, m0)
             k1 == Dynkey1(mode, m0)
             s2 == Slice(m0, 132, 16)
             k2 == roundKey(s2, k0)
             m1 == Keyed(m0, 148, size, mode.block_key, EncMax)
             seed == Seed(k1, k2, n)
             m2 == XorCrypt(m1, 148, size, seed, 8)
             d == IF mode.aes_round_keys = None THEN k2 ELSE aesUnscrambleKeyMhy(k2, mode.aes_round_keys)
             e == Put(m2, 132, d)
             J == Joined(e, b, n)
  <2>1. 148 <= n
    BY <1>2 DEF TooSmall
  <2>2. /\ Within(148, size, n) /\ Region(148, size) /\ 148 + size <= n
        /\ Region(0, 4) /\ Region(4, 16) /\ Region(116, 16) /\ Region(132, 16)
        /\ 0 + 4 <= n /\ 4 + 16 <= n /\ 116 + 16 <= n /\ 132 + 16 <= n
    BY <2>1, EncSizeIs, CasesAssumption DEF Within, Region
  <2> HIDE DEF size
  <2>3. /\ Fits(mode.post_key, 24, 20, PostLength, n) /\ Fits(mode.block_key, EncMax, 148, size, n)
        /\ mode.aes_round_keys = None \/ mode.aes_round_keys \in RoundKeysType
    <3>1. /\ mode.post_key = None \/ mode.post_key \in [0 .. 23 -> Byte]
          /\ mode.block_key = None \/ mode.block_key \in [0 .. EncMax - 1 -> Byte]
          /\ mode.aes_round_keys = None \/ mode.aes_round_keys \in RoundKeysType
      BY DEF ModeKeys, RoundKeysType, Block
    <3>2. mode.post_key \in [0 .. 23 -> Byte] => Keyable(mode.post_key, 24)
      <4>1. 24 - 1 = 23 /\ 24 \in Nat \ {0}
        OBVIOUS
      <4> QED BY <4>1 DEF Keyable, Bytes
    <3>3. mode.block_key \in [0 .. EncMax - 1 -> Byte] => Keyable(mode.block_key, EncMax)
      BY ModesAssumption DEF Keyable, Bytes
    <3>4. mode.post_key # None => Within(20, PostLength, n)
      <4>1. SUFFICES ASSUME mode.post_key # None PROVE Within(20, PostLength, n)
        OBVIOUS
      <4>2. n >= 20 + PostLength
        BY <1>2, <4>1
      <4> QED BY <4>2, ModesAssumption, CasesAssumption DEF Within, Region
    <3> QED BY <2>2, <3>1, <3>2, <3>3, <3>4 DEF Fits
  <2>4. /\ Apart(20, PostLength, 0, 4) /\ Apart(148, size, 0, 4) /\ Apart(148, size, 4, 16)
        /\ Apart(148, size, 116, 16) /\ Apart(148, size, 132, 16) /\ Apart(132, 16, 0, 4)
        /\ Apart(132, 16, 4, 16) /\ Apart(132, 16, 116, 16)
    BY DEF Apart
  <2>5. /\ m0 \in Mem /\ Elsewhere(m0, p, 20, PostLength)
        /\ Keyed(Joined(m0, b, n), 20, PostLength, mode.post_key, 24) = Joined(p, b, n)
    BY <2>3, KeyedJoined
  <2> HIDE DEF m0
  <2>6. k0 \in Block /\ k1 \in Block /\ s2 \in Block
    BY <2>2, <2>5, Dynkey0In, Dynkey1In, SliceIn, BlockBytes
  <2>7. /\ \A m : Slice(m, 4, 16) = Slice(m0, 4, 16) => Dynkey0(mode, m) = k0
        /\ \A m : Slice(m, 116, 16) = Slice(m0, 116, 16) => Dynkey1(mode, m) = k1
    BY Zenon DEF Dynkey0, Dynkey1
  <2> HIDE DEF k0, k1, s2
  <2>8. k2 \in Block /\ roundKey(k0, k2) = s2
    BY <2>6, KeyTwice
  <2> HIDE DEF k2
  <2>9. seed \in Key8 /\ Keyable(seed, 8)
    <3>1. seed \in Key8
      <4>1. 20 <= n
        BY <2>1
      <4> QED BY <2>6, <2>8, <4>1, SeedIn
    <3> QED BY <3>1, BlockBytes DEF Keyable
  <2>10. d \in Bytes(16) /\ (IF mode.aes_round_keys = None THEN d
                             ELSE aesScrambleKeyMhy(d, mode.aes_round_keys)) = k2
    <3>1. CASE mode.aes_round_keys = None
      BY <2>8, <3>1, BlockBytes
    <3>2. CASE mode.aes_round_keys # None
      <4> DEFINE rk == mode.aes_round_keys
      <4>1. rk \in RoundKeysType
        BY <2>3, <3>2
      <4>2. d = aesUnscrambleKeyMhy(k2, rk)
        BY <3>2
      <4> HIDE DEF rk, d
      <4>3. aesUnscrambleKeyMhy(k2, rk) \in Block /\ aesScrambleKeyMhy(aesUnscrambleKeyMhy(k2, rk), rk) = k2
        BY <2>8, <4>1, AesMhyInverse, Zenon
      <4>4. d \in Bytes(16) /\ aesScrambleKeyMhy(d, rk) = k2
        BY <4>2, <4>3, BlockBytes
      <4> QED BY <3>2, <4>4, Zenon DEF rk
    <3> QED BY <3>1, <3>2
  <2> HIDE DEF seed, d
  <2>11. /\ m1 \in Mem /\ Elsewhere(m1, m0, 148, size)
         /\ Keyed(Joined(m1, b, n), 148, size, mode.block_key, EncMax) = Joined(m0, b, n)
    BY <2>3, <2>5, KeyedJoined
  <2> HIDE DEF m1
  <2>12. /\ m2 \in Mem /\ Elsewhere(m2, m1, 148, size)
         /\ XorCrypt(Joined(m2, b, n), 148, size, seed, 8) = Joined(m1, b, n)
    BY <2>2, <2>9, <2>11, XorMem, XorJoined DEF Elsewhere
  <2> HIDE DEF m2
  <2>13. /\ e \in Mem /\ Slice(e, 132, 16) = d /\ Elsewhere(e, m2, 132, 16)
         /\ Put(J, 132, Slice(m2, 132, 16)) = Joined(m2, b, n)
    BY <2>2, <2>10, <2>12, PutIn, SlicePut, SliceApart, PutJoined DEF Elsewhere
  <2> HIDE DEF e
  <2>14. /\ Slice(m2, 132, 16) = s2
         /\ Slice(e, 0, 4) = Magic
         /\ Slice(e, 4, 16) = Slice(m0, 4, 16)
         /\ Slice(e, 116, 16) = Slice(m0, 116, 16)
    BY <2>2, <2>4, <2>5, <2>11, <2>12, <2>13 DEF Elsewhere, s2
  <2>15. /\ Slice(J, 0, 4) = Magic /\ Slice(J, 132, 16) = d
         /\ Slice(J, 4, 16) = Slice(m0, 4, 16) /\ Slice(J, 116, 16) = Slice(m0, 116, 16)
    BY <2>2, <2>13, <2>14, JoinSlice
  <2>16. mr0k_encrypt(p, n, mode) = e
    BY <1>2, Zenon DEF mr0k_encrypt, e, d, m2, seed, m1, k2, s2, k1, k0, m0, size
  <2> HIDE DEF J
  <2>17. mr0k_decrypt(J, n, mode) = Joined(p, b, n)
    <3> DEFINE a0 == Dynkey0(mode, J)
               a1 == Dynkey1(mode, J)
               a2 == IF mode.aes_round_keys = None THEN Slice(J, 132, 16)
                     ELSE aesScrambleKeyMhy(Slice(J, 132, 16), mode.aes_round_keys)
               w1 == Put(J, 132, roundKey(a0, a2))
               w2 == XorCrypt(w1, 148, size, Seed(a1, a2, n), 8)
               w3 == Keyed(w2, 148, size, mode.block_key, EncMax)
               w4 == Keyed(w3, 20, PostLength, mode.post_key, 24)
    <3>1. mr0k_decrypt(J, n, mode) = w4
      BY <1>2, <2>15, Zenon DEF mr0k_decrypt, size
    <3>2. a0 = k0 /\ a1 = k1 /\ a2 = k2
      BY <2>7, <2>10, <2>15, Zenon
    <3> HIDE DEF a0, a1, a2
    <3>3. w1 = Joined(m2, b, n)
      BY <2>8, <2>13, <2>14, <3>2, Zenon
    <3> HIDE DEF w1
    <3>4. w2 = Joined(m1, b, n)
      BY <2>12, <3>2, <3>3, Zenon DEF seed
    <3> HIDE DEF w2
    <3>5. w3 = Joined(m0, b, n)
      BY <2>11, <3>4, Zenon
    <3> HIDE DEF w3
    <3>6. w4 = Joined(p, b, n)
      BY <2>5, <3>5, Zenon
    <3> QED BY <3>1, <3>6, Zenon
  <2> QED BY <2>13, <2>16, <2>17, Zenon DEF J
<1> QED BY <1>1, <1>2

-----------------------------------------------------------------------------
(* A block on its way through a file.                                      *)

(* What a cipher makes of a block that contains it is undone, whatever     *)
(* lies after the block by then.                                           *)
LEMMA CipherBack ==
  ASSUME case \in Cases, Contained, Accepted,
         NEW p \in Mem, NEW b \in Mem, case.cipher = "mr0k" => Slice(p, 0, 4) = Magic
  PROVE  /\ Encrypted(case, p) \in Mem
         /\ Decrypted(case, Joined(Encrypted(case, p), b, case.size)) = Joined(p, b, case.size)
<1> DEFINE n == case.size  h == case.isHeader  mode == Modes[case.mode]
<1>1. /\ case.cipher \in {"mhy0", "mhy1", "blb3", "mr0k"} /\ h \in BOOLEAN
      /\ n \in Nat /\ n <= MemSize /\ mode \in ModeKeys
  <2>1. case \in [cipher : {"mhy0", "mhy1", "blb3", "mr0k"}, isHeader : BOOLEAN,
                  mode : DOMAIN Modes, size : 0 .. MemSize]
    BY CasesAssumption
  <2>2. case.mode \in DOMAIN Modes
    BY <2>1
  <2>3. mode \in ModeKeys
    BY <2>2, ModesAssumption
  <2> QED BY <2>1, <2>3, CasesAssumption
<1>2. CASE case.cipher = "mhy0"
  <2>1. \A m : Encrypted(case, m) = mhy0_encrypt(m, h) /\ Decrypted(case, m) = mhy0_decrypt(m, h)
    BY <1>2 DEF Encrypted, Decrypted
  <2>2. Window(h) <= n
    <3>1. Window(h) \in Nat /\ n >= Window(h)
      BY <1>2 DEF Contained, Window
    <3> QED BY <1>1, <3>1
  <2> HIDE DEF n, h
  <2>3. mhy0_encrypt(p, h) \in Mem /\ mhy0_decrypt(Joined(mhy0_encrypt(p, h), b, n), h) = Joined(p, b, n)
    BY <1>1, <2>2, Mhy0Back
  <2> QED BY <2>1, <2>3, Zenon DEF n
<1>3. CASE case.cipher = "mhy1"
  <2>1. \A m : Encrypted(case, m) = mhy1_encrypt(m, n, h) /\ Decrypted(case, m) = mhy1_decrypt(m, n, h)
    BY <1>3 DEF Encrypted, Decrypted
  <2>2. Mhy1Accepts(n, h)
    BY <1>3 DEF Accepted
  <2> HIDE DEF n, h
  <2>3. /\ mhy1_encrypt(p, n, h) \in Mem
        /\ mhy1_decrypt(Joined(mhy1_encrypt(p, n, h), b, n), n, h) = Joined(p, b, n)
    BY <1>1, <2>2, Mhy1Back
  <2> QED BY <2>1, <2>3, Zenon DEF n
<1>4. CASE case.cipher = "blb3"
  <2>1. \A m : Encrypted(case, m) = blb3_encrypt(m, n, Key) /\ Decrypted(case, m) = blb3_decrypt(m, n, Key)
    BY <1>4 DEF Encrypted, Decrypted
  <2>2. 16 <= n
    BY <1>1, <1>4 DEF Contained
  <2> HIDE DEF n
  <2>3. /\ blb3_encrypt(p, n, Key) \in Mem
        /\ blb3_decrypt(Joined(blb3_encrypt(p, n, Key), b, n), n, Key) = Joined(p, b, n)
    BY <1>1, <2>2, Blb3Back
  <2> QED BY <2>1, <2>3, Zenon DEF n
<1>5. CASE case.cipher = "mr0k"
  <2>1. \A m : Encrypted(case, m) = mr0k_encrypt(m, n, mode) /\ Decrypted(case, m) = mr0k_decrypt(m, n, mode)
    BY <1>5 DEF Encrypted, Decrypted
  <2>2. (mode.post_key = None \/ TooSmall(n) \/ n >= 20 + PostLength) /\ Slice(p, 0, 4) = Magic
    BY <1>5 DEF Contained
  <2> HIDE DEF n, mode
  <2>3. /\ mr0k_encrypt(p, n, mode) \in Mem
        /\ mr0k_decrypt(Joined(mr0k_encrypt(p, n, mode), b, n), n, mode) = Joined(p, b, n)
    BY <1>1, <2>2, Mr0kBack
  <2> QED BY <2>1, <2>3, Zenon DEF n
<1> QED BY <1>1, <1>2, <1>3, <1>4, <1>5

-----------------------------------------------------------------------------
(* The invariant.                                                          *)

Ciphertext(b) == Joined(Encrypted(case, plain), b, case.size)

CodecInv ==
  /\ case \in Cases /\ plain \in Mem
  /\ case.cipher = "mr0k" => Slice(plain, 0, 4) = Magic
  /\ pc \in {"plain", "encrypted", "stored", "decrypted", "abort"}
  /\ pc = "plain" => mem = plain
  /\ pc \in {"encrypted", "stored", "decrypted"} => Accepted
  /\ Contained /\ pc = "encrypted" => mem = Encrypted(case, plain)
  /\ Contained /\ pc = "stored" => stored = mem /\ \E b \in Mem : mem = Ciphertext(b)
  /\ Contained /\ pc = "decrypted" =>
       \E b \in Mem : stored = Ciphertext(b) /\ mem = Joined(plain, b, case.size)

(* A block of mr0k starts with its magic.                                  *)
LEMMA FillIn ==
  \A m : m \in Mem =>
    /\ \A cipher : Fill(cipher, m) \in Mem
    /\ Slice(Fill("mr0k", m), 0, 4) = Magic
<1> SUFFICES ASSUME NEW m, m \in Mem
             PROVE  /\ \A cipher : Fill(cipher, m) \in Mem
                    /\ Slice(Fill("mr0k", m), 0, 4) = Magic
  OBVIOUS
<1>1. Magic \in Bytes(4)
  <2>1. \A k \in 0 .. 3 : <<109, 114, 48, 107>>[k + 1] \in Nat
    OBVIOUS
  <2>2. \A k \in 0 .. 3 : <<109, 114, 48, 107>>[k + 1] % Q \in Byte
    BY <2>1, ModByte
  <2>3. Magic \in [0 .. 3 -> Byte]
    BY <2>2 DEF Magic
  <2>4. 4 - 1 = 3
    OBVIOUS
  <2> QED BY <2>3, <2>4 DEF Bytes
<1>2. Region(0, 4)
  BY CasesAssumption DEF Region
<1>3. Put(m, 0, Magic) \in Mem /\ Slice(Put(m, 0, Magic), 0, 4) = Magic
  BY <1>1, <1>2, PutIn, SlicePut
<1> QED BY <1>3, Zenon DEF Fill

(* It holds at first.                                                      *)
LEMMA CodecInit == Init => CodecInv
<1> SUFFICES ASSUME Init PROVE CodecInv
  OBVIOUS
<1>1. PICK m \in Memories : mem = Fill(case.cipher, m)
  BY DEF Init
<1>2. m \in Mem
  BY <1>1, CasesAssumption DEF Mem, MemArea
<1>3. mem \in Mem /\ (case.cipher = "mr0k" => Slice(mem, 0, 4) = Magic)
  BY <1>1, <1>2, FillIn
<1>4. case \in Cases /\ plain = mem /\ pc = "plain"
  BY DEF Init
<1> QED BY <1>3, <1>4 DEF CodecInv

(* Every step keeps it.                                                    *)
LEMMA CodecStep == CodecInv /\ [Next]_vars => CodecInv'
<1> SUFFICES ASSUME CodecInv, [Next]_vars PROVE CodecInv'
  OBVIOUS
<1>1. CASE Encrypt
  <2>1. /\ pc = "plain" /\ Accepted /\ mem' = Encrypted(case, mem) /\ pc' = "encrypted"
        /\ case' = case /\ plain' = plain
    BY <1>1 DEF Encrypt
  <2>2. mem = plain
    BY <2>1 DEF CodecInv
  <2>3. Accepted' /\ (Contained' <=> Contained)
    BY <2>1 DEF Accepted, Contained
  <2> QED BY <2>1, <2>2, <2>3 DEF CodecInv
<1>2. CASE Abort
  BY <1>2 DEF Abort, CodecInv
<1>3. CASE Ship
  <2>1. PICK m \in Memories : mem' = [x \in DOMAIN mem |-> IF x < case.size THEN mem[x] ELSE m[x]]
    BY <1>3 DEF Ship
  <2>2. /\ pc = "encrypted" /\ stored' = mem' /\ pc' = "stored" /\ case' = case /\ plain' = plain
    BY <1>3 DEF Ship
  <2>3. m \in Mem
    BY <2>1, CasesAssumption DEF Mem, MemArea
  <2>4. Accepted /\ (Accepted' <=> Accepted) /\ (Contained' <=> Contained)
    BY <2>2 DEF CodecInv, Accepted, Contained
  <2>5. ASSUME Contained PROVE mem' = Ciphertext(m)
    <3>1. mem = Encrypted(case, plain)
      BY <2>2, <2>5 DEF CodecInv
    <3>2. mem \in Mem
      BY <2>3, <2>4, <2>5, <3>1, CipherBack DEF CodecInv
    <3>3. DOMAIN mem = MemArea
      BY <3>2 DEF Mem
    <3> QED BY <2>1, <3>1, <3>3, Zenon DEF Ciphertext, Joined
  <2>6. \A b : Ciphertext(b)' = Ciphertext(b)
    BY <2>2 DEF Ciphertext
  <2> QED BY <2>2, <2>3, <2>4, <2>5, <2>6 DEF CodecInv
<1>4. CASE Decrypt
  <2>1. /\ pc = "stored" /\ mem' = Decrypted(case, mem) /\ pc' = "decrypted"
        /\ case' = case /\ plain' = plain /\ stored' = stored
    BY <1>4 DEF Decrypt
  <2>2. Accepted /\ (Accepted' <=> Accepted) /\ (Contained' <=> Contained)
    BY <2>1 DEF CodecInv, Accepted, Contained
  <2>3. ASSUME Contained
        PROVE  \E b \in Mem : stored = Ciphertext(b) /\ mem' = Joined(plain, b, case.size)
    <3>1. PICK b \in Mem : mem = Ciphertext(b) /\ stored = mem
      BY <2>1, <2>3 DEF CodecInv
    <3>2. Decrypted(case, Ciphertext(b)) = Joined(plain, b, case.size)
      BY <2>2, <2>3, CipherBack DEF CodecInv, Ciphertext
    <3> QED BY <2>1, <3>1, <3>2
  <2>4. \A b : Ciphertext(b)' = Ciphertext(b)
    BY <2>1 DEF Ciphertext
  <2> QED BY <2>1, <2>2, <2>3, <2>4 DEF CodecInv
<1>5. CASE UNCHANGED vars
  BY <1>5 DEF vars, CodecInv, Accepted, Contained, Ciphertext
<1> QED BY <1>1, <1>2, <1>3, <1>4, <1>5 DEF Next

(* CodecInv is an invariant: what was shipped is the ciphertext of the     *)
(* plain block with some other bytes after it, and what is decrypted from  *)
(* it is the plain block with the same bytes after it.                     *)
THEOREM CodecInvariant == Spec => []CodecInv
BY CodecInit, CodecStep, PTL DEF Spec

(* A block that contains its cipher is decrypted to what was encrypted,    *)
(* whatever follows it in the file and for every key, table of the right   *)
(* kind and size: the two directions of mhy0, mhy1, blb3 and mr0k are      *)
(* inverse.                                                                *)
THEOREM CodecRecovered == Spec => []Recovered
<1>1. CodecInv => Recovered
  <2> SUFFICES ASSUME CodecInv, pc = "decrypted", Contained, NEW x \in 0 .. case.size - 1
               PROVE  mem[x] = plain[x]
    BY DEF Recovered
  <2>1. PICK b \in Mem : mem = Joined(plain, b, case.size)
    BY DEF CodecInv
  <2>2. case.size \in 0 .. MemSize
    BY CasesAssumption DEF CodecInv
  <2>3. x \in MemArea /\ x < case.size
    BY <2>2, CasesAssumption DEF MemArea
  <2> QED BY <2>1, <2>3 DEF Joined
<1> QED BY <1>1, CodecInvariant, PTL

(* Decrypting such a block leaves the bytes after it alone.                *)
THEOREM CodecNextSpared == Spec => []NextSpared
<1>1. CodecInv => NextSpared
  <2> SUFFICES ASSUME CodecInv, pc = "decrypted", Contained, NEW x \in DOMAIN mem, x >= case.size
               PROVE  mem[x] = stored[x]
    BY DEF NextSpared
  <2>1. PICK b \in Mem : stored = Ciphertext(b) /\ mem = Joined(plain, b, case.size)
    BY DEF CodecInv
  <2>2. case.size \in 0 .. MemSize
    BY CasesAssumption DEF CodecInv
  <2>3. x \in MemArea /\ ~(x < case.size)
    BY <2>1, <2>2, CasesAssumption DEF Joined, MemArea
  <2> QED BY <2>1, <2>3 DEF Joined, Ciphertext
<1> QED BY <1>1, CodecInvariant, PTL

(* The aes and rc4 variants of blb3 are those of mhy1 for every key and    *)
(* table.                                                                  *)
THEOREM CodecVariantsAgree == Spec => []VariantsAgree
<1>1. CodecInv => VariantsAgree
  <2> SUFFICES ASSUME CodecInv, pc = "plain", case.cipher = "blb3"
               PROVE  /\ aesScrambleKeyBlb3(Slice(mem, 0, 16), aesGetRoundKeysBlb3(Key))
                           = aesScrambleKey(Slice(mem, 0, 16), aesGetRoundKeys(Key))
                      /\ rc4_blb3(Slice(mem, 0, 8), Slice(mem, 16, 16), Slice(mem, 8, 8))
                           = rc4_mhy(Slice(mem, 0, 8), Slice(mem, 16, 16), Slice(mem, 8, 8))
    BY DEF VariantsAgree
  <2> DEFINE s == Slice(mem, 0, 16)  t == Slice(mem, 16, 16)  x == Slice(mem, 0, 8)  y == Slice(mem, 8, 8)
  <2>1. mem \in Mem
    BY DEF CodecInv
  <2>2. Region(0, 16) /\ Region(16, 16) /\ Region(0, 8) /\ Region(8, 8)
    BY CasesAssumption DEF Region
  <2>3. s \in Block /\ t \in Bytes(16) /\ x \in Key8 /\ y \in Key8 /\ Key \in Block /\ 16 \in Nat
    BY <2>1, <2>2, SliceIn, BlockBytes, CasesAssumption DEF Block
  <2> HIDE DEF s, t, x, y
  <2>4. aesScrambleKeyBlb3(s, aesGetRoundKeysBlb3(Key)) = aesScrambleKey(s, aesGetRoundKeys(Key))
    BY <2>3, AesAgree, Zenon
  <2>5. rc4_blb3(x, t, y) = rc4_mhy(x, t, y)
    BY <2>3, Rc4Inverse
  <2> QED BY <2>4, <2>5 DEF s, t, x, y
<1> QED BY <1>1, CodecInvariant, PTL
=============================================================================
