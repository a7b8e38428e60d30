SPECIFICATION SpecLz4
CONSTANTS
  Junk = Junk
  MaxSequences = 2
  InputSizes <- MCInputSizes
  Slacks <- MCSlacks
  LitLens <- MCLitLens
  MatchLens <- MCMatchLens
  Offsets <- MCOffsets
  ForeignSizes <- MCForeignSizes
  ForeignLits <- MCForeignLits
  ForeignMatches <- MCForeignMatches
  ForeignOffsets <- MCForeignOffsets
INVARIANTS WithinCapacity BoundSuffices InBounds MatchesInside LoopAssertions Decoded
