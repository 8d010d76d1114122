SPECIFICATION Spec
CONSTANTS
  Byte <- MCByte
  HalfWord = 128
  WordBytes = 2
  FormatVersion = 1
  WireSize = 2
  LengthDelimited = 1
  MaxField = 2
  Uvarint <- MCUvarint
  VarintOf <- MCVarintOf
  BigEndian <- MCBigEndian
  Inputs <- MCInputs
  MaxLength = 4
INVARIANTS
  InBounds
  Bounded
  WrittenIsRead
  NothingIgnored
