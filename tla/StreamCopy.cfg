SPECIFICATION Spec
CONSTANTS
  PipeSize = 1
  PeerBytes = 2
  RecvCapacity = 2
  SendCapacity = 1
  CopyCapacity = 2
  InputBytes = 1
INVARIANTS
  StreamsIntact
  LastSegmentsSent
  BrokenPipeAfterReset
PROPERTIES
  AbortEnds
  ProgramEnds
