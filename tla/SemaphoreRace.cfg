CONSTANTS
  THREAD_COUNT = 4
  SEMAPHORE_INIT_VAL = 2
  Binary0 = 7
  INCREMENTS = 3
  NoThread = NoThread
SPECIFICATION Spec
INVARIANT NeverOutOfBounds
