CONSTANTS
  a = a
  b = b
  c = c
  d = d
  NoClient = NoClient
  Clients <- Two
  Fds <- FdsFive
  Listener = 3
  Backlog = 2
  MaxMsgs = 2
  SockBuf = 1
  InitSize = 1
  JunkSlots <- DirtyJunk
SPECIFICATION FairServers
PROPERTIES ImplementsRoom Responsive SelectResponsive
