SPECIFICATION Spec
CONSTANTS
  FACTOR = 16
  MAX_PAYLOAD_SIZE = 1
  MAX_RETX_ATTEMPTS = 4
  rt_timeout = 1
  MAX_WIN = 3
  HasFixedIsn = TRUE
  Capacity = 2
  XIsn = 14
  YIsn = 5
  StreamLength = 5
  TickSize = 1
  MaxLosses = 3
INVARIANTS
  EndsComplete
PROPERTIES
  FollowsDiagram
  KeepsPromise
  Terminates
