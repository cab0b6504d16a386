SPECIFICATION ClientSpec
CONSTANTS
  THREAD_MAX = 2
  connect1 = connect1
  connect2 = connect2
  connect3 = connect3
  conn1 = conn1
  conn2 = conn2
  sess1 = sess1
  sess2 = sess2
  NoThread = NoThread
  NoSession = NoSession
  MaxReruns = 1
  Threads <- MCThreads
  Destroyable <- MCDestroyable
  Sessions <- MCSessions
SYMMETRY Symmetry
VIEW View
INVARIANTS
  OneAtATime
  NothingAfterDisconnect
  
  ResetsHaveACause
  PointersHold
PROPERTIES
  KeepsToScheduler
  RefusalIsFinal
  WalkUndisturbed
CHECK_DEADLOCK FALSE
