SPECIFICATION Spec
CONSTANTS
  Size = 5
  Bytes <- MCBytes
  IntBits = 8
  LongBits = 12
  Longs <- MCLongs
  Lengths <- MCLengths
  Pieces <- MCPieces
  MaxPieces = 2
  BuffSize = 6
  NULL = NULL
CHECK_DEADLOCK FALSE
INVARIANTS
  StringsCorrect
  FormatCorrect
