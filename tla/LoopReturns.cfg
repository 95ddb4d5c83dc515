CONSTANTS
  a = a
  b = b
  c = c
  Clients <- Two
  MaxBlocks = 2
  Window = 1
  Guests <- Three
  Addresses = 2
  Servers <- Three
  NoServer = NoServer
  Locals <- Three
  QueueLen = 2
  Senders <- Two
  Lengths <- SomeLengths
  MaxBytes = 4
  MaxCopies = 1
  UserLines = 2
  ServerBytes = 3
  BufferBytes = 2
  BufferSize = 12
  PrependSize = 5
  Speakers <- SomeSpeakers
  NulAt = {2}
  IntBits = 3
  FractionBits = 2
  GuardBits = 2
  WordBits = 2
SPECIFICATION ConnSpec
INVARIANT EachIsForked
