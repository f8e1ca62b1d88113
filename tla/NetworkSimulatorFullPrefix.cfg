SPECIFICATION Spec
CONSTANTS
  ETHERNET_BROADCAST = BROADCAST
  NoEth = NoEth
  Direct = Direct
  PendingTime = 1
  MappingTime = 2
  Width = 2
  NextHops = {Direct, 3}
  Ttls = {1, 2}
  Senders = {0, 2}
  RoutePrefixes = {0}
  MaxPrefixLength = 2
  AnyDestination = TRUE
  MaxRoutes = 2
  MaxSends = 2
  MaxRounds = 7
INVARIANTS
  RoutedByLongestPrefix
CHECK_DEADLOCK FALSE
