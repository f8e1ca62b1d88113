SPECIFICATION FairSpec
CONSTANTS
  ETHERNET_BROADCAST = BROADCAST
  NoEth = NoEth
  PendingTime = 1
  MappingTime = 2
  Hosts = {1, 2}
  TickSizes = {1}
  MaxDgrams = 2
  MaxInWire = 1
  MaxReplaced = 1
INVARIANTS
  WaitingIffPending
  OnceAndInOrder
  FramesReachNextHop
  RequestsSpaced
PROPERTIES
  WaitingIsSent
