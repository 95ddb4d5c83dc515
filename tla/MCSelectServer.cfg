CONSTANTS
  a = a
  b = b
  c = c
  NoClient = NoClient
  Clients <- Three
  Fds <- FdsSix
  Listener = 3
  Backlog = 2
  MaxMsgs = 1
  SockBuf = 1
SPECIFICATION Spec
SYMMETRY SymThree
INVARIANTS TypeOK MasterInv ScanInv
PROPERTY ImplementsRoom
