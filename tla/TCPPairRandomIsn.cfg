SPECIFICATION SpecOpening
CONSTANTS
  FACTOR = 16
  MAX_PAYLOAD_SIZE = 1
  MAX_RETX_ATTEMPTS = 1
  rt_timeout = 1
  MAX_WIN = 2
  HasFixedIsn = FALSE
  RecvCapacity = 1
  SendCapacity = 1
  ClientIsn = 14
  ServerIsn = 5
  ClientBytes = 0
  ServerBytes = 0
  TickSizes = {10}
  MaxToServer = 1
  MaxToClient = 1
  MaxTicks = 2
  BothConnect = FALSE
INVARIANTS
  NoThrow
CHECK_DEADLOCK FALSE
