\* The window on Linux: Scan and Receive on one port, and a connection.
CONSTANTS
  Workers = {"scan", "receive"}
  Kind <- MCKind
  Port <- SamePort
  Conns = {"c"}
  Senders = {}
  MAX_FD = 8
  BindFails = {"tcp"}
  CLOSE_WAKES = FALSE
  Gone = Gone

SPECIFICATION Spec
INVARIANTS
  TypeOK
  NumbersAreOwn
  CallsAreOwn
  AcceptsOwn
  NothingLeft
