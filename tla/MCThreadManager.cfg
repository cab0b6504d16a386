SPECIFICATION Spec
CONSTANTS
  THREAD_MAX = 2
  connect = connect
  conn1 = conn1
  conn2 = conn2
  NoThread = NoThread
  Threads <- MCThreads
  Destroyable <- MCDestroyable
SYMMETRY Symmetry
INVARIANTS
  TypeOK
  OneRunner
  AbsentMeansFree
  OwnFrames
  StartIsPosted
  SilentOnlyAfterReturn
PROPERTIES
  StoppedOnlyReaped
CHECK_DEADLOCK FALSE
