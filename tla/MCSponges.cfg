SPECIFICATION AllSpec
CONSTANTS
  Ctx = {"s1", "s2"}
  Data <- SpongeData
  MaxLen = 5
  BlockSize = 2
  Suffix <- SpongeSuffix
  Squeezes = 1
  Families = {"Keccak", "SP 800-185", "KangarooTwelve", "encodings"}
  c1 = c1
  c2 = c2
  d1 = d1
  d2 = d2
  MaxNumber = 120
INVARIANTS
  SpongesApart
  CShakeRight
  TuplesApart
  EncodingsRight
  K12Right
PROPERTY ImplementsIHash
SYMMETRY MCSymmetry
