SPECIFICATION FairSpec
CONSTANTS
  BLOCK = 2
  MAX = 2
  Senders = {c1, c2}
  CALLS = {1, 3}
  MAXLEN = 3
  LENGTHS = {1, 2, 3}
  BLOCKS = 2
  BYTES = 9
  SENDS = 2
  OOM = 1
INVARIANTS
  InStep
  PeerInStep
PROPERTIES
  RecvIsStream
  RecvReturns
CHECK_DEADLOCK FALSE
