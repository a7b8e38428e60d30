SPECIFICATION Spec
CONSTANTS
  ByteBits = 4
  Poly = 3
  CryptMax = 56
  PostLength = 192
  EncMax = 32
  MemSize = 540
  Sbox <- MCSbox
  rc4_init_tbl <- MCRc4Init
  MhyTables <- MCMhyTables
  Blb3Tables <- MCBlb3Tables
  Modes <- MCModes
  Memories <- MCMemories
  Key <- MCKey
  Cases <- MCCases
INVARIANTS
  Recovered
  NextSpared
  VariantsAgree
CHECK_DEADLOCK FALSE
