SPECIFICATION Spec
CONSTANTS
  thread = thread
  handler = handler
  module = module
  conn = conn
  sig1 = sig1
  sig2 = sig2
  sig3 = sig3
  sig4 = sig4
  NoSignal = NoSignal
  NoObject = NoObject
  MaxFuncs = 2
  Owners <- MCOwners
  Receivers <- MCReceivers
  Signals <- MCSignals
SYMMETRY Symmetry
INVARIANTS
  NothingFreedIsUsed
  BothSidesAgree
PROPERTIES
  SweepHalves
  IsPubSub
CHECK_DEADLOCK FALSE
