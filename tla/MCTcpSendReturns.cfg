SPECIFICATION FairSpec
CONSTANTS
  loop = loop
  dialer = dialer
  reader = reader
  sender = sender
  LOOP = loop
  NoId = NoId
  Dialers <- Nobody
  Readers <- Nobody
  Senders <- TheSender
  SNDBUF = 2
  MAXLEN = 3
  BYTES = 1
  SENDS = 2
  PARTIAL = FALSE
  SPURIOUS = FALSE
  DROPS = TRUE
  CLOSES = TRUE
INVARIANTS
  AckedWhileOpen
PROPERTIES
  SendReturns
CHECK_DEADLOCK FALSE
