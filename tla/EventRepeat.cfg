CONSTANTS
  MaxEvents = 2
  QueueRoom = 2
  BufferSize = 4
SPECIFICATION FairSpec
INVARIANT OthersPassedOver
