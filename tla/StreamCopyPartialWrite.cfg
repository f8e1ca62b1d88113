SPECIFICATION Spec
CONSTANTS
  PipeSize = 1
  PeerBytes = 2
  RecvCapacity = 2
  SendCapacity = 1
  CopyCapacity = 1
  InputBytes = 1
PROPERTIES
  PartialWriteHandled
