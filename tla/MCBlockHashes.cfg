SPECIFICATION AllSpec
CONSTANTS
  Ctx = {c1, c2}
  Data <- MCData
  MaxLen = 8
  BlockSize = 4
  LenSpace = 2
  BigEndian = TRUE
INVARIANTS
  ShaTypeOK
  DigestRight
  FailedCountsTooMuch
  BlakeRight
  SkeinRight
PROPERTY AlignedWriteCompletes
