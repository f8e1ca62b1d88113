SPECIFICATION MCSpec
CONSTANTS
  Byte = {b1, b2}
  Capacity = 3
  MaxLen = 4
  MaxBytes = 7
  Data <- MCData
  Memory = 4
  StreamLength = 6
  FACTOR = 22
  RecvCapacity = 3
  Length = 28
  MaxPayload = 3
  Isn = 13
  Overrun = 0
  Lag = 2
INVARIANTS
  SizeMatchesCounters
  EofIffDrained
  SlicesExact
  GapCanAlwaysBeClosed
  PushIsExact
  BytesInPlace
  AckedFinIsEnd
PROPERTIES
  ImplementsQueue
  ImplementsHeldBytes
  WindowNeverShrinks
