CONSTANTS
  a = a
  b = b
  c = c
  d = d
  NoClient = NoClient
  Clients <- Three
  Fds <- FdsSix
  Listener = 3
  Backlog = 2
  MaxMsgs = 1
  SockBuf = 1
  InitSize = 2
  JunkSlots <- DirtyJunk
SPECIFICATION Spec
SYMMETRY SymThree
INVARIANTS TypeOK TableInv StaleOnlyAtTail
PROPERTY ImplementsRoom
