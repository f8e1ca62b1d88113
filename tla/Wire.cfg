SPECIFICATION WireSpec
CONSTANTS
  FACTOR = 8
  Reach = 3
  MaxAbs = 17
  ETHERNET_BROADCAST <- Broadcast
  NoEth <- NoAddress
  PendingTime = 1
  MappingTime = 2
  Kinds = {"udp", "tun", "tap"}
  Isns = {0, 6}
  FlippedBits = {0, 8, 9, 13}
  FlipUntil = 0
INVARIANTS
  UnwrapIsClosest
  RoundTrip
  Intact
  PeersHearEachOther
CHECK_DEADLOCK FALSE
