SPECIFICATION Spec
CONSTANTS
  Junk = 90
  MaxPacks = 2
  Originals <- MCOriginals
  CabSizes <- MCCabSizes
  Compressed <- MCCompressed
  HeaderSize <- MCHeaderSize
  RandomBytes <- MCRandomBytes
  RandomName <- MCRandomName
INVARIANTS
  TypeOK
  ReadsBack
  MetadataKept
  BytesKept
  HeaderExact
CHECK_DEADLOCK FALSE
