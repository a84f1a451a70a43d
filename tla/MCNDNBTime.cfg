CONSTANTS
  None = None
  Dtags = {14, 2048}
  Blobs <- MCBlobs
  PadLengths = {0, 2}
  Numbers = {0, 10}
  Seconds = {15, 16}
  Nanos = {0, 244140, 999877929, 999877930}
  Names <- MCNames
  DTAG_Component = 14
  MaxCalls = 3
SPECIFICATION Spec
INVARIANT TimestampsRound
CHECK_DEADLOCK FALSE
