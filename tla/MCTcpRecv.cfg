SPECIFICATION Spec
CONSTANTS
  loop = loop
  dialer = dialer
  reader = reader
  sender = sender
  LOOP = loop
  NoId = NoId
  Dialers <- Nobody
  Readers <- TheReader
  Senders <- Nobody
  SNDBUF = 2
  MAXLEN = 3
  BYTES = 6
  SENDS = 1
  PARTIAL = FALSE
  SPURIOUS = TRUE
  DROPS = TRUE
  CLOSES = TRUE
INVARIANTS
  ReaderServed
PROPERTIES
  RecvIsStream
CHECK_DEADLOCK FALSE
