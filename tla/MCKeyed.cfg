SPECIFICATION AllSpec
CONSTANTS
  Kinds <- MCKinds
  Messages <- MCMessages
  MaxPieces = 2
  SalsaCounts = 16
  ChaChaCounts = 4
  BlockLen = 2
  CountLen = 1
  Cipher <- MCCipher
  Decipher <- MCDecipher
  Families <- Everything
  AeadStrays = {}
  keyByte = keyByte
  Mac = {"m1", "m2"}
  MacByte <- HmacBytes
  MacKeys <- HmacKeys
  Data <- HmacData
  MaxLen = 2
  HashBlockSize = 2
  NulByte = NulByte
  IPad = IPad
  OPad = OPad
  DigestMark = DigestMark
  d1 = d1
  d2 = d2
INVARIANTS
  CameBack
  InStep
  AeadRight
  CallsCancel
  HmacRight
  CmacRight
  Blake2Right
PROPERTY MacsAreIHash
SYMMETRY MCSymmetry
CHECK_DEADLOCK FALSE
