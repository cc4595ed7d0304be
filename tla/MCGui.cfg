\* A device, two send threads, and every order of clicks and events.
CONSTANTS
  Devices = {"d"}
  Own = "own"
  Threads = {"t1", "t2"}
  PARTS = 2
  MAX_EVENTS = 1

SPECIFICATION FairSpec
INVARIANTS
  TypeOK
  RowsAreDevices
  NothingFoundIsLost
  OneSendAtATime
  ResultStays
PROPERTIES
  ProgressGrows
  SendButtonComesBack
  ThreadsEnd
