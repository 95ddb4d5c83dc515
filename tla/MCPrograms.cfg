CONSTANTS
  PointerSize = 3
  Lengths <- UpToEight
  Length = 14
  Capacity = 6
  a = a
  b = b
  c = c
  Runs <- ThreeRuns
  Pair <- TwoRuns
  NoRun = NoRun
  Room = 2
  MaxEvents = 3
  QueueRoom = 2
  BufferSize = 3
  Delay = 5
  THREAD_COUNT = 3
  INCREMENTS = 3
  NoThread = NoThread
  SEMAPHORE_INIT_VAL = 1
  Binary0 = 7
SPECIFICATION ProgramsSpec
INVARIANTS IpcTypeOK Accounting HonestReport PipeDelivers QueueUsedOnce
INVARIANTS SegmentUsedWhole ChildRefused OneReader EachEventTold AlarmKept TwoProcesses
INVARIANTS ThreadsTypeOK NoLostUpdate FinalCount LocksHold
PROPERTY ProgramsEnd
