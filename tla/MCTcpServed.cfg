SPECIFICATION Spec
CONSTANTS
  loop = loop
  dialer = dialer
  reader = reader
  sender = sender
  LOOP = loop
  NoId = NoId
  Dialers <- TheDialer
  Readers <- TheReader
  Senders <- TwoSenders
  SNDBUF = 2
  MAXLEN = 2
  BYTES = 1
  SENDS = 1
  PARTIAL = TRUE
  SPURIOUS = TRUE
  DROPS = TRUE
  CLOSES = FALSE
INVARIANTS
  NobodyForgotten
CHECK_DEADLOCK FALSE
