SPECIFICATION Spec
CONSTANTS
  Formats = {"mhy0", "encr"}
  Items <- MCItems
  Sources <- MCSources
  Counts = {0, 1, 2}
  BlockSize = 2
  MaxCabs = 2
  MaxRuns = 3
INVARIANTS
  TypeOK
  OnlyLastUnpacked
  DescribedByItsOwn
CHECK_DEADLOCK FALSE
