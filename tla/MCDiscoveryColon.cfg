\* A device name with a colon.
CONSTANTS
  IntLimit = 32
  PortLimit = 16
  Texts <- MCTexts
  Addresses <- MCAddresses
  Devices <- MCDevices
  Setups <- ColonSetups
  Foreign <- None
  Links <- None
  RECV_BUF = 1
  CLOSE_WAKES = FALSE

SPECIFICATION Spec
INVARIANT ListenersSurvive
CHECK_DEADLOCK FALSE
