SPECIFICATION Spec
CONSTANTS
  Junk = 90
  MaxPacks = 2
  Originals <- MCOriginals
  CabSizes <- MCCabSizes
  Compressed <- MCCompressed
  HeaderSize <- MCHeaderSize
  RandomBytes <- MCRandomBytes
  RandomName <- MCRandomName
INVARIANT CabFlagsKept
CHECK_DEADLOCK FALSE
