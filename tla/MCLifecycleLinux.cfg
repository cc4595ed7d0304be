\* Ctrl+C on Linux, where close() does not wake accept().
CONSTANTS
  Workers = {"scan", "receive"}
  Kind <- MCKind
  Port <- TwoPorts
  Conns = {"c"}
  Senders = {}
  MAX_FD = 4
  BindFails = {}
  CLOSE_WAKES = FALSE
  Gone = Gone

SPECIFICATION FairSpec
PROPERTIES
  CtrlCEnds
