CONSTANTS
  a = a
  b = b
  c = c
  NoClient = NoClient
  Clients <- Two
  Fds <- FdsSix
  Listener = 3
  Backlog = 2
  MaxMsgs = 2
  SockBuf = 1
SPECIFICATION Spec
INVARIANT NothingInvented
