SPECIFICATION AllSpec
CONSTANTS
  Ctx = {"s1", "s2"}
  Data <- SpongeData
  MaxLen = 5
  BlockSize = 2
  Suffix <- SpongeSuffix
  Squeezes = 1
  Families = {"KangarooTwelve"}
  c1 = c1
  c2 = c2
  d1 = d1
  d2 = d2
  MaxNumber = 120
PROPERTY SumDoesNotMutate
