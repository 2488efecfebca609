SPECIFICATION Spec
CONSTANTS
  Bits <- WidthOf
  maxShift = 3
  Declets = 1
  ExpBits = 3
  Bias = 10
  NamedZones <- Zone
  Rune <- Runes
  Utf8Len <- Utf8Lengths
  Latin1 = {"a", "space", "aTilde"}
  Space = "space"
  Repertoire <- Tables
  StackSize = 40
  BitsPerByte = 2
  DecLength <- DecTexts
  ByteSize = 32
  Canonical <- Charsets
  Upper <- Uppers
  OSUser <- Login
  Hostname <- Host
  N = 47
  G = 2
  K = 3
  KeySize = 2
  SrpByte = 32
  Sha <- Mix
  InfoByte = 32
INVARIANTS OverflowReported
CHECK_DEADLOCK FALSE
