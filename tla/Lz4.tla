-------------------------------- MODULE Lz4 --------------------------------
(***************************************************************************)
(* A block through LZ4: compressed by a packer, stored, decompressed by the *)
(* unpacker with the sizes that the header announces. An archive from       *)
(* elsewhere may hold any block and announce any sizes.                     *)
(***************************************************************************)
EXTENDS Lz4Encoder, Lz4Decoder

CONSTANTS
  MaxSequences, \* of a packed block: a bound of the model
  ForeignSizes, \* <<size of the block, size announced for its contents>>
  ForeignLits, ForeignMatches, ForeignOffsets

VARIABLES
  origin,  \* "packed" or "foreign"
  current  \* the sequence being decoded; 0 as long as the packer compresses

lz4Vars == <<encoderVars, decoderVars, origin, current>>

InitPacked ==
  /\ origin = "packed" /\ current = 0
  /\ InitEncoder /\ InitDecoder(0, 0, <<>>)

InitForeign ==
  /\ origin = "foreign" /\ current = 1
  /\ \E s \in ForeignSizes : InitDecoder(s[1], s[2], <<>>)
  /\ srcSize = 0 /\ dstCapacity = 0 /\ anchor = 0 /\ written = 0 /\ wildEnd = 0
  /\ sequences = <<>> /\ encoder = "foreign"

InitLz4 == InitPacked \/ InitForeign

\* The input that the sequences encode, as a sequence of bytes: a literal is a
\* byte of its own, named by its position; a match repeats the off bytes before.
Extended(b, s) ==
  LET lits == b \o [k \in 1 .. s[1] |-> Len(b) + k - 1]
  IN  IF Len(s) = 1 THEN lits
      ELSE lits \o [k \in 1 .. s[3] |-> lits[Len(lits) - s[2] + 1 + ((k - 1) % s[2])]]
Text ==
  LET after[n \in 0 .. Len(sequences)] ==
        IF n = 0 THEN <<>> ELSE Extended(after[n - 1], sequences[n])
  IN  after[Len(sequences)]

Compress ==
  /\ current = 0
  /\ NextEncoder
  /\ anchor' > anchor => Len(sequences') <= MaxSequences
  /\ UNCHANGED <<decoderVars, origin, current>>

\* extract_mhy0 and the others: compressed and uncompressed size as they were
\* stored, a buffer of the latter size.
Unpack ==
  /\ current = 0 /\ encoder = "encoded"
  /\ iend' = written /\ oend' = srcSize
  /\ dst' = [i \in 0 .. srcSize - 1 |-> Junk]
  /\ current' = 1
  /\ UNCHANGED <<encoderVars, at, ip, op, length, offset, readEnd, storeEnd, match, origin>>

\* The sequence at ip, or the zeros that follow a block.
Sequence == IF current <= Len(sequences) THEN sequences[current] ELSE <<0>>

DecodePacked ==
  /\ origin = "packed" /\ current > 0
  /\ IF Len(Sequence) = 3 THEN NextDecoder({Sequence[1]}, {Sequence[2]}, {Sequence[3]})
     ELSE NextDecoder({Sequence[1]}, {0}, {MINMATCH})
  /\ current' = IF at # "entry" /\ at' \in {"fast", "safe"} THEN current + 1 ELSE current
  /\ UNCHANGED <<encoderVars, origin>>

DecodeForeign ==
  /\ origin = "foreign"
  /\ NextDecoder(ForeignLits, ForeignOffsets, ForeignMatches)
  /\ UNCHANGED <<encoderVars, origin, current>>

Finished == encoder = "full" \/ at \in {"accepted", "rejected"}

NextLz4 == Compress \/ Unpack \/ DecodePacked \/ DecodeForeign \/ (Finished /\ UNCHANGED lz4Vars)

SpecLz4 == InitLz4 /\ [][NextLz4]_lz4Vars

-----------------------------------------------------------------------------
\* Properties

\* What a packer compresses the unpacker turns back into the same bytes, the
\* whole block and no more, whichever loop of the decoder takes which sequence
\* and however a match overlaps its own copy.
Decoded ==
  origin = "packed" =>
    /\ at # "rejected"
    /\ at = "accepted" =>
         op = srcSize /\ LET text == Text IN \A k \in 1 .. srcSize : dst[k - 1] = text[k]
=============================================================================
