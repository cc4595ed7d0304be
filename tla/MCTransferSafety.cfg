\* Every fault, every kind of name.
CONSTANTS
  IntLimit = 8
  PortLimit = 16
  SALT_LEN = 1
  AES_IV_LEN = 1
  AES_TAG_LEN = 1
  Texts <- MCTexts
  Calls <- MCCalls
  Workloads <- AllPairs
  Names <- MCNames
  ServerPass = "k"
  HEADER_LEN = 2
  EARLY_LEN = 1
  CHUNK_SIZE = 2
  RECV_BUF = 3
  MAX_ALLOC = 8
  STREAM_BUF = 2
  SOCK_BUF = 3
  BACKLOG = 2
  SigPipe = TRUE
  DiskFaults = TRUE
  MayExit = TRUE
  CrashModes = {"fin", "rst", "silent"}

SPECIFICATION Spec
INVARIANTS
  TypeOK
  PayloadInOrder
  SuccessMeansDelivered
  SuccessMeansOnDisk
  SharedNameKeepsOne
  EncryptedAllOrNothing
  PartialAckUnheard
  NoMutualWait
CHECK_DEADLOCK FALSE
