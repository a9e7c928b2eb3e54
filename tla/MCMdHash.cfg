SPECIFICATION Spec
CONSTANTS
  Ctx = {c1, c2}
  Data <- MCData
  MaxLen = 7
  BlockSize = 4
  LenSpace = 2
  BigEndian = FALSE
INVARIANTS
  TypeOK
  DigestRight
  SameDigestIffSameMessage
PROPERTY ImplementsIHash
