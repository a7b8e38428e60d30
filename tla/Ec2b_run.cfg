SPECIFICATION Spec
CONSTANTS
  Bits = {1}
  Words = {1}
  NULL = NULL
  Arg <- MCArg
  Argvs <- MCArgvs
  Numbers <- MCNumbers
  DataWords = 2
  InitialFiles <- MCFiles
  Transform <- MCTransform
  SeedConst = {1}
INVARIANTS
  TypeOK
  SeedPrinted
  GivenSeedWins
  KeepsUnasked
  EditSparesInput
CHECK_DEADLOCK FALSE
