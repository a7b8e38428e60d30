SPECIFICATION Spec
CONSTANTS
  Core = 2
  Window = 3
  Inputs <- MCInputs
INVARIANTS
  TypeOK
  FilesIntact
  NothingTurnedDown
  Complete
  MetadataFirst
PROPERTIES
  Terminates
CHECK_DEADLOCK FALSE
