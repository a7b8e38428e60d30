----------------------------- MODULE Lz4Decoder -----------------------------
(***************************************************************************)
(* LZ4_decompress_safe: LZ4_decompress_generic for a full block, without a  *)
(* dictionary, with its fast loop (LZ4_FAST_DEC_LOOP is 1 on x86-64). The   *)
(* labels of the code are values of `at`. The lengths and offsets that are  *)
(* read are parameters of the actions, since an archive may hold any; ip    *)
(* and op count from the starts of src and dst. The copies go in the chunks *)
(* of the code and so read and store more bytes than the length says.       *)
(***************************************************************************)
EXTENDS Lz4Format

CONSTANT Junk \* a byte that was never meant to be used

VARIABLES
  iend, oend, \* ends of src and dst
  at,         \* a label, or "accepted", "rejected"
  ip, op,
  length, offset,
  readEnd,    \* end of the furthest byte of src read by the last step
  storeEnd,   \* end of the furthest byte of dst stored to by the last step
  match,      \* where the match being copied, or just copied, begins
  dst         \* what dst holds, as positions of the text; <<>> to leave it out

decoderVars == <<iend, oend, at, ip, op, length, offset, readEnd, storeEnd, match, dst>>

Labels == {"entry", "fast", "fast_match", "safe", "shortcut", "safe_literal_copy",
           "safe_match", "safe_match_copy", "accepted", "rejected"}

InitDecoder(srcSize, outputSize, contents) ==
  /\ iend = srcSize /\ oend = outputSize /\ dst = contents
  /\ at = "entry" /\ ip = 0 /\ op = 0 /\ length = 0 /\ offset = 0
  /\ readEnd = 0 /\ storeEnd = 0 /\ match = 0

-----------------------------------------------------------------------------
(* Copies                                                                  *)

\* memcpy of w bytes from s to d.
Chunk(b, d, s, w) ==
  [i \in DOMAIN b |-> IF i \in d .. d + w - 1 THEN b[s + (i - d)] ELSE b[i]]

\* m times, each w bytes further on. What an earlier step has stored is read as stored.
Chunks(b, d, s, w, m) ==
  LET after[n \in 0 .. m] ==
        IF n = 0 THEN b ELSE Chunk(after[n - 1], d + w * (n - 1), s + w * (n - 1), w)
  IN  after[m]

\* LZ4_wildCopy8, LZ4_wildCopy32 (which takes two steps of 16).
WildCopy(b, d, s, len, w) ==
  IF w = 32 THEN Chunks(b, d, s, 16, 2 * Turns(len, 32)) ELSE Chunks(b, d, s, w, Turns(len, w))

\* Literals of src; what is stored behind them belongs to something else.
Literals(b, d, len, endsAt) ==
  [i \in DOMAIN b |-> IF i \in d .. d + len - 1 THEN i
                      ELSE IF i \in d + len .. endsAt - 1 THEN Junk ELSE b[i]]

inc32table == <<0, 1, 2,  1,  0, 4, 4, 4>>
dec64table == <<0, 0, 0, -1, -4, 1, 2, 3>>

\* Eight bytes of a match that may be closer than that, and where the copy of
\* the rest reads on.
Spread(b, d, s, off) ==
  IF off >= 8 THEN Chunk(b, d, s, 8)
  ELSE Chunk(Chunks(b, d, s, 1, 4), d + 4, s + inc32table[off + 1], 4)
\* Mutant: the second table is forgotten.
ReadsOnTooFar(s, off) ==
  IF off >= 8 THEN s + 8 ELSE s + inc32table[off + 1]

ReadsOn(s, off) ==
  IF off >= 8 THEN s + 8 ELSE s + inc32table[off + 1] - dec64table[off + 1]

\* LZ4_memcpy_using_offset
UsingOffset(b, d, s, len, off) ==
  IF off \in {1, 2, 4}
  THEN [i \in DOMAIN b |->
          IF i \in d .. CopyEnd(d, len, 8) - 1 THEN b[s + ((i - d) % off)] ELSE b[i]]
  ELSE WildCopy(Spread(b, d, s, off), d + 8, ReadsOn(s, off), len - 8, 8)
UsingOffsetEnd(d, len, off) ==
  IF off \in {1, 2, 4} THEN CopyEnd(d, len, 8) ELSE CopyEnd(d + 8, len - 8, 8)

-----------------------------------------------------------------------------
(* read_variable_length, from p on, when the length goes on for x bytes.    *)

ReadsLength(p, x, ilimit, initial_check) ==
  (initial_check => p < ilimit) /\ p + x <= ilimit

LengthReadEnd(p, x, ilimit, initial_check) ==
  IF initial_check /\ p >= ilimit THEN p ELSE Larger(p + 1, Lesser(p + x, ilimit + 1))

LitExtra(l) == ExtraBytes(l, RUN_MASK)
MatchExtra(m) == ExtraBytes(m - MINMATCH, ML_MASK)
LitLimit == iend - RUN_MASK
\* Mutant: a match may run up to the end of the block.
MatchLimitEnd == iend

MatchLimit == iend - LASTLITERALS + 1

Reads(e)  == readEnd' = e
Stores(e) == storeEnd' = e
Frame == UNCHANGED <<iend, oend>>
\* length, offset and match are not looked at again.
Dead == length' = 0 /\ offset' = 0 /\ match' = 0

\* goto _output_error after reading src up to e
Reject(e) ==
  /\ at' = "rejected" /\ Reads(e) /\ Stores(0)
  /\ Dead /\ Frame /\ UNCHANGED <<ip, op, dst>>

-----------------------------------------------------------------------------
\* l and m, where the token matters: the lengths it announces.
Enter(l, m) ==
  /\ at = "entry"
  /\ at' = CASE oend = 0 /\ iend = 1 /\ l = 0 /\ m = MINMATCH -> "accepted"
             [] oend = 0 /\ ~(iend = 1 /\ l = 0 /\ m = MINMATCH) -> "rejected"
             [] oend > 0 /\ iend = 0 -> "rejected"
             [] oend > 0 /\ iend > 0 ->
                  IF oend < FASTLOOP_SAFE_DISTANCE THEN "safe" ELSE "fast"
  /\ Reads(IF oend = 0 /\ iend = 1 THEN 1 ELSE 0) /\ Stores(0)
  /\ Frame /\ UNCHANGED <<ip, op, length, offset, match, dst>>

\* The literals go to dst in one piece that ends at `endsAt`; src is read up to
\* `read`; first points behind the length.
TakeLiterals(l, first, read, endsAt, label) ==
  /\ Reads(read) /\ Stores(endsAt)
  /\ dst' = Literals(dst, op, l, endsAt)
  /\ ip' = first + l /\ op' = op + l /\ at' = label
  /\ Dead /\ Frame

\* goto safe_literal_copy, with the length read
DeferLiterals(l, first) ==
  /\ at' = "safe_literal_copy" /\ ip' = first /\ length' = l
  /\ Reads(first) /\ Stores(0)
  /\ Frame /\ UNCHANGED <<op, offset, match, dst>>

\* Mutant: no room is left for what LZ4_wildCopy32 stores behind its end.
FastWildFitsTight(l, first) == op + l <= oend - 16 /\ first + l <= iend - 16

FastWildFits(l, first) == op + l <= oend - 32 /\ first + l <= iend - 32

FastLiterals(l) ==
  /\ at = "fast"
  /\ LET first == ip + 1 + LitExtra(l) IN
     IF l >= RUN_MASK
     THEN \/ /\ ~ReadsLength(ip + 1, LitExtra(l), LitLimit, TRUE)
             /\ Reject(LengthReadEnd(ip + 1, LitExtra(l), LitLimit, TRUE))
          \/ /\ ReadsLength(ip + 1, LitExtra(l), LitLimit, TRUE)
             /\ IF FastWildFits(l, first)
                THEN TakeLiterals(l, first, CopyEnd(first, l, 32), CopyEnd(op, l, 32),
                                  "fast_match")
                ELSE DeferLiterals(l, first)
     ELSE IF first <= iend - (16 + 1)
          THEN TakeLiterals(l, first, first + 16, op + 16, "fast_match")
          ELSE DeferLiterals(l, first)

\* goto safe_match_copy, with offset and length read
DeferMatch(off, m, first) ==
  /\ at' = "safe_match_copy" /\ ip' = first /\ offset' = off /\ length' = m
  /\ match' = op - off
  /\ Reads(first) /\ Stores(0)
  /\ Frame /\ UNCHANGED <<op, dst>>

\* A match of m bytes is copied in one go, by the given copy that stores up to
\* `endsAt`; the next token follows at first.
TakeMatch(off, m, first, endsAt, copied, label) ==
  /\ dst' = copied
  /\ Stores(endsAt) /\ Reads(first)
  /\ ip' = first /\ op' = op + m /\ at' = label
  /\ length' = 0 /\ offset' = 0 /\ match' = op - off
  /\ Frame

\* Eight, eight and two bytes.
Eighteen(b, d, s) == Chunk(Chunks(b, d, s, 8, 2), d + 16, s + 16, 2)

FastCopyEnd(m, off) == IF off < 16 THEN UsingOffsetEnd(op, m, off) ELSE CopyEnd(op, m, 32)
FastCopy(m, off) ==
  IF off < 16 THEN UsingOffset(dst, op, op - off, m, off)
  ELSE WildCopy(dst, op, op - off, m, 32)

\* Mutant: the offset is not compared with what there is of dst.
ShortMatchAnywhere(off) == off >= 8

\* No step of the copy reads what it stores, and the match lies within dst.
ShortMatch(off) == off >= 8 /\ op - off >= 0

LongMatchRejected(p, m) ==
  m - MINMATCH >= ML_MASK /\ ~ReadsLength(p, MatchExtra(m), MatchLimit, FALSE)

FastMatch(off, m) ==
  /\ at = "fast_match"
  /\ LET first == ip + 2 + MatchExtra(m) IN
     IF LongMatchRejected(ip + 2, m)
     THEN Reject(LengthReadEnd(ip + 2, MatchExtra(m), MatchLimit, FALSE))
     ELSE IF op + m >= oend - FASTLOOP_SAFE_DISTANCE
     THEN DeferMatch(off, m, first)
     ELSE IF m - MINMATCH < ML_MASK /\ ShortMatch(off)
     THEN TakeMatch(off, m, first, op + 18, Eighteen(dst, op, op - off), "fast")
     ELSE IF off > op
     THEN Reject(first)
     ELSE TakeMatch(off, m, first, FastCopyEnd(m, off), FastCopy(m, off), "fast")

\* The first stage of the shortcut, or the length of the literals.
ShortcutFits == ip + 1 < iend - 14 - 2 /\ op <= oend - 14 - 18
SafeLiterals(l) ==
  /\ at = "safe"
  /\ LET first == ip + 1 + LitExtra(l) IN
     IF l < RUN_MASK /\ ShortcutFits
     THEN TakeLiterals(l, first, first + 16, op + 16, "shortcut")
     ELSE IF l >= RUN_MASK /\ ~ReadsLength(ip + 1, LitExtra(l), LitLimit, TRUE)
     THEN Reject(LengthReadEnd(ip + 1, LitExtra(l), LitLimit, TRUE))
     ELSE DeferLiterals(l, first)

LastRunOnly == op + length > oend - MFLIMIT \/ ip + length > iend - (2 + 1 + LASTLITERALS)

\* Near either end the literals must be the last ones and are copied exactly.
SafeLiteralCopy ==
  /\ at = "safe_literal_copy"
  /\ IF ~LastRunOnly
     THEN TakeLiterals(length, ip, CopyEnd(ip, length, 8), CopyEnd(op, length, 8), "safe_match")
     ELSE IF ip + length # iend \/ op + length > oend
     THEN Reject(0)
     ELSE TakeLiterals(length, ip, ip + length, op + length, "accepted")

\* The second stage of the shortcut, and the way from there and from the
\* literals to _copy_match.
SafeMatch(off, m) ==
  /\ at \in {"shortcut", "safe_match"}
  /\ LET first == ip + 2 + MatchExtra(m) IN
     IF at = "shortcut" /\ m - MINMATCH < ML_MASK /\ ShortMatch(off)
     THEN TakeMatch(off, m, first, op + 18, Eighteen(dst, op, op - off), "safe")
     ELSE IF LongMatchRejected(ip + 2, m)
     THEN Reject(LengthReadEnd(ip + 2, MatchExtra(m), MatchLimit, FALSE))
     ELSE DeferMatch(off, m, first)

-----------------------------------------------------------------------------
(* safe_match_copy, when the match lies within dst                         *)

NearEnd == op + length > oend - MATCH_SAFEGUARD_DISTANCE
oCopyLimit == oend - (WILDCOPYLENGTH - 1)

\* Wild copies as far as oCopyLimit allows, the rest byte by byte.
EndStore ==
  Larger(IF op + 8 < oCopyLimit THEN CopyEnd(op + 8, oCopyLimit - (op + 8), 8) ELSE op + 8,
         op + length)
EndCopy ==
  LET start == Spread(dst, op, match, offset)
      from  == ReadsOn(match, offset)
      wild  == IF op + 8 < oCopyLimit
               THEN WildCopy(start, op + 8, from, oCopyLimit - (op + 8), 8) ELSE start
      next  == Larger(op + 8, oCopyLimit)
  IN  Chunks(wild, next, from + (next - (op + 8)), 1, Larger(0, op + length - next))

MidStore == IF length > 16 THEN CopyEnd(op + 16, length - 16, 8) ELSE op + 16
MidCopy ==
  LET from == ReadsOn(match, offset)
      more == Chunk(Spread(dst, op, match, offset), op + 8, from, 8)
  IN  IF length > 16 THEN WildCopy(more, op + 16, from + 8, length - 16, 8) ELSE more

SafeMatchCopy ==
  /\ at = "safe_match_copy"
  /\ IF match < 0
     THEN Reject(0)
     ELSE IF NearEnd /\ op + length > oend - LASTLITERALS
     THEN /\ at' = "rejected" /\ Reads(0) /\ Stores(op + 8)
          /\ dst' = Spread(dst, op, match, offset)
          /\ Frame /\ UNCHANGED <<ip, op, length, offset, match>>
     ELSE /\ dst' = IF NearEnd THEN EndCopy ELSE MidCopy
          /\ Stores(IF NearEnd THEN EndStore ELSE MidStore) /\ Reads(0)
          /\ op' = op + length /\ at' = "safe"
          /\ length' = 0 /\ offset' = 0 /\ UNCHANGED match
          /\ Frame /\ UNCHANGED ip

ReadLiterals(l)   == FastLiterals(l) \/ SafeLiterals(l)
ReadMatch(off, m) == FastMatch(off, m) \/ SafeMatch(off, m)
Copy              == SafeLiteralCopy \/ SafeMatchCopy

\* The lengths and offsets that may be read.
NextDecoder(lits, offs, matches) ==
  \/ \E l \in lits, m \in matches : Enter(l, m)
  \/ \E l \in lits : ReadLiterals(l)
  \/ \E off \in offs, m \in matches : ReadMatch(off, m)
  \/ Copy

\* Any block and any buffer.
InitAnyBlock == \E s, o \in Nat : InitDecoder(s, o, <<>>)
SpecAnyBlock ==
  InitAnyBlock /\ [][NextDecoder(Nat, Nat, {m \in Nat : m >= MINMATCH})]_decoderVars

-----------------------------------------------------------------------------
\* Properties

\* Whatever the block claims, nothing is read behind the end of src or stored
\* behind the end of dst, the overshoot of the wild copies included.
InBounds == readEnd <= iend /\ storeEnd <= oend

\* A match is only copied from within dst, also on the fast paths, which copy
\* before the common check of the offset.
MatchesInside == storeEnd > 0 => match >= 0

\* The assertions of the loops: a token is there to be read, the fast loop has
\* its safe distance, and op stays within dst.
LoopAssertions ==
  /\ at \in {"fast", "safe"} => ip < iend
  /\ at = "fast" => oend - op >= FASTLOOP_SAFE_DISTANCE
  /\ at = "fast_match" => oend - op >= 32
  /\ op <= oend
=============================================================================
