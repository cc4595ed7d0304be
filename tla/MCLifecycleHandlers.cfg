\* Destroying a server while a handler runs.
CONSTANTS
  Workers = {"scan", "receive"}
  Kind <- MCKind
  Port <- TwoPorts
  Conns = {"c"}
  Senders = {}
  MAX_FD = 8
  BindFails = {}
  CLOSE_WAKES = TRUE
  Gone = Gone

SPECIFICATION Spec
INVARIANTS
  HandlersHaveServer
