CONSTANTS
  NVersion = NVersion
  Numbers <- MCNumbers
  Markers = {0, 253}
  RawComps <- MCRawComps
  Seconds = {0, 1}
  Micros <- MCMicros
  SizeBits = 4
  MaxLen = 3
  NameException = NameException
SPECIFICATION Spec
INVARIANT SubNameOutOfRangeFails
CHECK_DEADLOCK FALSE
