SPECIFICATION MCSpec
CONSTANTS
  File = {"a", "b", "s"}
  InitialFiles = {"a"}
  Lengths = {1, 4, 9}
  Bits = {1}
  MaxCommands = 4
  WordBytes = 2
  Byte = 8
  Sample = 16
  PadBytes = 32
  Texts <- MCTexts
  Pad <- MCPad
  Transform <- MCTransform
  Key1Const <- MCConst
  ForeignSzs = {7}
INVARIANTS
  TypeOK
  RecoversSampled
  SameAgain
CHECK_DEADLOCK FALSE
