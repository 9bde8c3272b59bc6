SPECIFICATION Spec
CONSTANTS
  ByteSize = 8
  NameLen = 3
  StemLen = 2
  Free = 7
  Escape = 5
  LastBit = 4
  Space = 2
  Printable <- MCPrintable
  zero = zero
  file = file
  Data <- MCData
  NoData = zero
  SlotsPerCluster = 3
  SlotCount = 5
  Names <- MCNames
  MaxParts = 2
  MaxCreated = 4
INVARIANTS
  TypeOK
  ListingIsTheDirectory
  FirstByteIsEvidence
