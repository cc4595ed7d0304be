CONSTANTS
  Workers = {"receive"}
  Kind <- MCKind
  Port <- SamePort
  Conns = {"c"}
  Senders = {"s"}
  MAX_FD = 4
  BindFails = {"udp", "tcp"}
  CLOSE_WAKES = TRUE
  Gone = Gone

SPECIFICATION FairSpec
PROPERTIES
  StopReturns
  InterruptEnds
  BacklogIsServed
