SPECIFICATION Spec
CONSTANTS
  I32Max = 2
  MaxBytes = 6
  Meta = {1, 7}
  MaxText = 2
  Uninit = Uninit
  BOM = "bom"
  Byte <- MCByte
  Char <- MCChar
  Encoded <- MCEncoded
  Decoded <- MCDecoded
  DecodedUtf8 <- MCDecoded
INVARIANTS SliceInBounds OkStores TextReadsBack
PROPERTY ErrKeepsString
