SPECIFICATION Spec
CONSTANTS
  n1 = n1
  n2 = n2
  n3 = n3
  n4 = n4
  End = End
  Null = Null
  Nodes <- MCNodes
SYMMETRY Symmetry
INVARIANTS
  Linked
  NoStrayAccess
  MeetsEachOnce
CHECK_DEADLOCK FALSE
