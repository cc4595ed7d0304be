\* Devices on Linux that stop, come back and share names.
CONSTANTS
  IntLimit = 32
  PortLimit = 16
  Texts <- MCTexts
  Addresses <- MCAddresses
  Devices <- MCDevices
  Setups <- MCSetups
  Foreign <- MCForeign
  Links <- MCLinks
  RECV_BUF = 2
  CLOSE_WAKES = FALSE

SPECIFICATION FairSpec
INVARIANTS
  TypeOK
  ListedOnce
  ListedAsAnnounced
  NeverSelf
PROPERTIES
  EventuallyListed
  StopReturnsInCompany
CHECK_DEADLOCK FALSE
