SPECIFICATION FairSpec
CONSTANTS
  THREAD_MAX = 2
  connect = connect
  conn1 = conn1
  conn2 = conn2
  NoThread = NoThread
  Threads <- MCFewThreads
  Destroyable <- MCDestroyable
PROPERTIES
  LoopServed
CHECK_DEADLOCK FALSE
