SPECIFICATION Spec
CONSTANTS
  BlockSize = 3
  MaxCabs = 3
  MinBlock = 2
  Word = 14
  Files = 3
  FileSizes <- MCAny
  HdrCounts <- MCCount
  Formats = {"mhy0", "mhy1", "encr", "blb3"}
INVARIANTS
  TypeOK
  FullBlocks
  Placement
  RoundTrip
  StreamsClosed
  AbortsOnShortTail
  IndexSafe
PROPERTIES
  ImplementsArchive
  Terminates
