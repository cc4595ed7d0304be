\* Liveness and refinement: clean names, no client that vanishes without a trace.
CONSTANTS
  IntLimit = 8
  PortLimit = 16
  SALT_LEN = 0
  AES_IV_LEN = 1
  AES_TAG_LEN = 0
  Texts <- MCTexts
  Calls <- MCCalls
  Workloads <- ShortPairs
  Names <- MCNames
  ServerPass = "k"
  HEADER_LEN = 2
  EARLY_LEN = 1
  CHUNK_SIZE = 2
  RECV_BUF = 2
  MAX_ALLOC = 8
  STREAM_BUF = 2
  SOCK_BUF = 2
  BACKLOG = 2
  SigPipe = TRUE
  DiskFaults = TRUE
  MayExit = TRUE
  CrashModes = {"fin", "rst"}

SPECIFICATION FairSpec
PROPERTIES
  HandlersFinish
  ImplementsDelivery
CHECK_DEADLOCK FALSE
