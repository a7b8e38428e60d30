----------------------------- MODULE Lz4Encoder -----------------------------
(***************************************************************************)
(* LZ4_compress_HC as the packers call it, at level 12 (LZ4HC_compress_     *)
(* optimal) and without a dictionary. Which literals and matches the price  *)
(* search of LZ4HC_compress_optimal chooses is left open: any match that    *)
(* the search is bounded to. What it writes, and the checks that keep the   *)
(* output within dst, are as in the code.                                   *)
(***************************************************************************)
EXTENDS Lz4Format, Sequences

CONSTANTS
  InputSizes,  \* values of srcSize
  Slacks,      \* bytes that dst falls short of LZ4_compressBound(srcSize)
  LitLens, MatchLens, Offsets \* what the search may choose

ASSUME Lz4EncoderAssumption ==
  /\ InputSizes \subseteq Nat
  /\ Slacks \subseteq Int
  /\ LitLens \subseteq Nat
  /\ MatchLens \subseteq {m \in Nat : m >= MINMATCH}
  /\ Offsets \subseteq 1 .. LZ4_DISTANCE_MAX

VARIABLES
  srcSize,
  dstCapacity,
  anchor,     \* input encoded so far
  written,    \* op - dst
  wildEnd,    \* end of the furthest byte stored to dst
  sequences,  \* the block, <<literals, offset, match length>>; <<literals>> last
  encoder     \* "parse", "full" (returned 0), "encoded"

encoderVars == <<srcSize, dstCapacity, anchor, written, wildEnd, sequences, encoder>>

limitedOutput == dstCapacity < LZ4_COMPRESSBOUND(srcSize)

InitEncoder ==
  /\ srcSize \in InputSizes
  /\ \E s \in Slacks : dstCapacity = LZ4_COMPRESSBOUND(srcSize) - s
  /\ anchor = 0 /\ written = 0 /\ wildEnd = 0
  /\ sequences = <<>> /\ encoder = "parse"

\* dst cannot take a byte.
RefuseDst ==
  /\ encoder = "parse" /\ sequences = <<>> /\ dstCapacity < 1
  /\ encoder' = "full"
  /\ UNCHANGED <<srcSize, dstCapacity, anchor, written, wildEnd, sequences>>

\* Nothing to compress: one byte, a token without literals.
EncodeNothing ==
  /\ encoder = "parse" /\ dstCapacity >= 1 /\ srcSize = 0
  /\ written' = 1 /\ wildEnd' = 1
  /\ sequences' = <<<<0>>>> /\ encoder' = "encoded"
  /\ UNCHANGED <<srcSize, dstCapacity, anchor>>

Parsing == encoder = "parse" /\ dstCapacity >= 1 /\ srcSize > 0

\* A match that LZ4HC_compress_optimal may choose after lit literals: it starts
\* at mflimit or before, ends at matchlimit or before, and repeats the input.
MatchAllowed(lit, off, ml) ==
  /\ anchor + lit <= srcSize - MFLIMIT
  /\ anchor + lit + ml <= srcSize - LASTLITERALS
  /\ off <= anchor + lit

\* Mutant: no room for the bytes that LZ4_wildCopy8 stores behind the literals.
LiteralsFitExactly(lit) ==
  limitedOutput => (written + 1) + lit \div 255 + lit + (2 + 1) <= dstCapacity

\* LZ4HC_encodeSequence: after the token, `op` is one further.
LiteralsFit(lit) ==
  limitedOutput =>
    (written + 1) + lit \div 255 + lit + (2 + 1 + LASTLITERALS) <= dstCapacity

AfterLiterals(lit) == (written + 1) + ExtraBytes(lit, RUN_MASK) + lit

LengthFits(lit, ml) ==
  limitedOutput =>
    AfterLiterals(lit) + 2 + (ml - MINMATCH) \div 255 + (1 + LASTLITERALS) <= dstCapacity

EncodeSequence(lit, off, ml) ==
  /\ Parsing /\ MatchAllowed(lit, off, ml)
  /\ LiteralsFit(lit) /\ LengthFits(lit, ml)
  /\ written' = AfterLiterals(lit) + 2 + ExtraBytes(ml - MINMATCH, ML_MASK)
  /\ wildEnd' = Larger(written', CopyEnd(AfterLiterals(lit) - lit, lit, WILDCOPYLENGTH))
  /\ anchor' = anchor + lit + ml
  /\ sequences' = Append(sequences, <<lit, off, ml>>)
  /\ UNCHANGED <<srcSize, dstCapacity, encoder>>

\* The check before the literals fails, or the one before the match length,
\* when the literals and the offset are already written.
EncodeOverflow(lit, off, ml) ==
  /\ Parsing /\ MatchAllowed(lit, off, ml)
  /\ \/ /\ ~LiteralsFit(lit)
        /\ UNCHANGED wildEnd
     \/ /\ LiteralsFit(lit) /\ ~LengthFits(lit, ml)
        /\ wildEnd' = Larger(AfterLiterals(lit) + 2,
                             CopyEnd(AfterLiterals(lit) - lit, lit, WILDCOPYLENGTH))
  /\ encoder' = "full"
  /\ UNCHANGED <<srcSize, dstCapacity, anchor, written, sequences>>

LastRun == srcSize - anchor
LastSize == 1 + (LastRun + 255 - RUN_MASK) \div 255 + LastRun

\* The search ends without a further match; the rest is literals.
LastLiterals ==
  /\ Parsing
  /\ limitedOutput => written + LastSize <= dstCapacity
  /\ written' = written + 1 + ExtraBytes(LastRun, RUN_MASK) + LastRun
  /\ wildEnd' = written'
  /\ sequences' = Append(sequences, <<LastRun>>)
  /\ encoder' = "encoded"
  /\ UNCHANGED <<srcSize, dstCapacity, anchor>>

LastOverflow ==
  /\ Parsing
  /\ limitedOutput /\ written + LastSize > dstCapacity
  /\ encoder' = "full"
  /\ UNCHANGED <<srcSize, dstCapacity, anchor, written, wildEnd, sequences>>

NextEncoder ==
  \/ RefuseDst \/ EncodeNothing
  \/ \E lit \in LitLens, off \in Offsets, ml \in MatchLens :
       EncodeSequence(lit, off, ml) \/ EncodeOverflow(lit, off, ml)
  \/ LastLiterals \/ LastOverflow

SpecEncoder == InitEncoder /\ [][NextEncoder]_encoderVars

-----------------------------------------------------------------------------
(* The buffers that the packers pass: none tells a result of 0 from success. *)

\* Sizes of the headers; `names` counts the bytes of the names and their ends.
MhyHeaderSize(cabs, blks) == 275 * cabs + 13 * blks + 12
EncrHeaderSize(cabs, names, blks) == 4 + 10 * blks + 4 + 20 * cabs + names

\* What is left of cmp_sz for the header of mhy0 and mhy1, and of encr.
MhyHeaderRoom(hdr_sz) == (hdr_sz * 25) \div 10
EncrHeaderRoom(hdr_sz) == (hdr_sz * 25) \div 10 - 25

\* mhy0, mhy1, encr; a block is at most 128 KiB.
BlockSize == 131072
BlockRooms == {327680 - 12, 327680 - 28, 327680}

-----------------------------------------------------------------------------
\* Properties

\* LZ4HC_encodeSequence copies literals in steps of eight and checks for room
\* only if dst is smaller than LZ4_compressBound(srcSize). Even so no byte is
\* stored behind the end of dst.
WithinCapacity == wildEnd <= Larger(dstCapacity, 0)

\* "Compression is guaranteed to succeed if dstCapacity >= LZ4_compressBound
\* (srcSize)", and with less room it still never returns a size beyond dst or
\* beyond that bound.
BoundSuffices ==
  /\ encoder = "full" => limitedOutput
  /\ encoder = "encoded" => written <= LZ4_COMPRESSBOUND(srcSize)
=============================================================================
