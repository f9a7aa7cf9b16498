\* Two clients, one after the other from one address, two endpoints, accepts and
\* listens that fail, a broadcast that may lag, fair tasks.
SPECIFICATION FairSpec
CONSTANTS
  s1 = s1  s2 = s2  s3 = s3  a1 = a1  a2 = a2  NoSock = NoSock  e1 = e1  e2 = e2
  Sock <- TwoSocks
  Addr = {a1}
  AddrOf <- OneAddr
  Endpoint = {e1, e2}
  ChunkKind = {"text"}
  MaxChunks <- Silent
  MaxReconf = 2
  AllowReset = FALSE
  AllowIoErr = TRUE
  RxqCap = 1
  TxqCap = 10
  ChanCap = 1
  CtlCap = 2
INVARIANTS TablesAgree ShutdownClosesAll
PROPERTY ShutdownReachesBarrier
CHECK_DEADLOCK FALSE
