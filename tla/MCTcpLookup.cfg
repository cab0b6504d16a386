SPECIFICATION Spec
CONSTANTS
  loop = loop
  dialer = dialer
  reader = reader
  sender = sender
  LOOP = loop
  NoId = NoId
  Dialers <- TheDialer
  Readers <- Nobody
  Senders <- Nobody
  SNDBUF = 2
  MAXLEN = 3
  BYTES = 1
  SENDS = 1
  PARTIAL = FALSE
  SPURIOUS = FALSE
  DROPS = FALSE
  CLOSES = FALSE
INVARIANTS
  LookupResumesCaller
CHECK_DEADLOCK FALSE
