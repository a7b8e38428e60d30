SPECIFICATION Spec
CONSTANTS
  BlockSize = 3
  MaxCabs = 2
  MinBlock = 2
  Word = 1000
  Files = 3
  FileSizes <- MCAny
  HdrCounts <- MCCount
  Formats = {"mhy0"}
INVARIANTS
  Repacked
