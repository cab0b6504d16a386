SPECIFICATION Spec
CONSTANTS
  empty = empty
  server = server
  one = one
  two = two
  module = module
  Empty = empty
  Label <- MCLabel
  ServerLabel = server
  Objects <- MCObjects
  Session <- MCSession
  CONNECTIONS = 2
  PIPE = 2
  CHANGES = 2
  MESSAGES = 2
  FAILURES = 1
INVARIANTS
  ServerListed
  TableFollows
  
  NameComesFirst
CHECK_DEADLOCK FALSE
