SPECIFICATION Spec
CONSTANTS
  FACTOR = 16
  MAX_PAYLOAD_SIZE = 1
  MAX_RETX_ATTEMPTS = 1
  rt_timeout = 1
  MAX_WIN = 2
  HasFixedIsn = TRUE
  RecvCapacity = 2
  SendCapacity = 2
  ClientIsn = 14
  ServerIsn = 5
  ClientBytes = 2
  ServerBytes = 0
  TickSizes = {10}
  MaxToServer = 2
  MaxToClient = 1
  MaxTicks = 2
  BothConnect = TRUE
INVARIANTS
  AckedWasReceived
  CleanCloseIsComplete
  NoLingerMeansPeerKnows
  DeliveredIsPrefix
  SenderRespectsWindow
CHECK_DEADLOCK FALSE
