SPECIFICATION FairSpec
CONSTANTS
  BufferSize = 14
  ReadSize = 14
  Commands <- SmallCommands
  PipePackets <- OnePipePacket
  MaxCommands = 2
INVARIANTS
  TypeOK
  ClosedOnlyByLongPacket
PROPERTIES
  CommandsInOrder
  ResponsesInOrder
  PacketsDelivered
CHECK_DEADLOCK FALSE
