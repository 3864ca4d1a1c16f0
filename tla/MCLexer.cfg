SPECIFICATION MCSpec
CONSTANTS
  ByteBits = 3
  RealBits = 4
  SintBits = 6
  LongBits = 7
  RealMax = 15360
  MaxLiteral = 4
  MaxExp = 3
  MaxText = 5
INVARIANTS
  OutsideComments
  LongestMatch
  EscapesClosed
  LiteralsRead
CHECK_DEADLOCK FALSE
