SPECIFICATION Spec
CONSTANTS
  FACTOR = 18
  MAX_PAYLOAD_SIZE = 2
  Capacity = 3
  RetxTimeout = 2
  Isn = 15
  Length = 4
  MaxWin = 4
  Lag = 2
  MaxRetx = 1
INVARIANTS
  UnackedIsOutstanding
  TimerRunsIffOutstanding
  FlightExact
  NeverStuck
  FillWindowIsLoop
PROPERTIES
  NewDataInWindow
