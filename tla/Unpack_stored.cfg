SPECIFICATION Spec
CONSTANTS
  Core = 2
  Window = 3
  Inputs <- StoredInputs
INVARIANTS
  StoredSupported
CHECK_DEADLOCK FALSE
